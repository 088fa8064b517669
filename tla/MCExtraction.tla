---------------------------- MODULE MCExtraction ----------------------------
(* Extraction on small images: an image with two containers, an archive    *)
(* that may hold itself, another one that uses its paths, and two files, in*)
(* all arrangements of a few shapes.                                       *)
EXTENDS Extraction

CONSTANTS img, box, crate, x, y

Member(path, blob, at) == [path |-> <<path>>, blob |-> blob, at |-> at]

Hit(sig, at, members, raises) ==
    [sig |-> sig, at |-> at, members |-> members, raises |-> raises]

\* What the image may hold at its start and behind it.
FirstHits ==
    {<<Hit("tar", 0, <<Member("a", b, 0), Member("b", c, 0)>>, r)>> :
        b, c \in {box, x}, r \in BOOLEAN}
    \cup {<<Hit("cpio", 0, <<Member("a", x, 0), Member("..", y, 1), Member("b", box, 3)>>, FALSE),
            Hit("cpio", 1, <<Member("b", box, 3)>>, FALSE)>>}
    \cup {<<Hit("squashfs", 0, <<>>, FALSE)>>}

SecondHits ==
    {<<Hit("tar", 5, <<Member("a", b, 5)>>, FALSE)>> : b \in {box, crate, y}}
    \cup {<<Hit("gzip", 5, <<Member("5.gunzipped", b, 5)>>, FALSE)>> : b \in {box, crate, y}}

BoxHits ==
    {<<>>, <<Hit("zip", 0, <<Member("a", y, 0), Member("q", box, 0)>>, FALSE)>>,
     <<Hit("zip", 0, <<Member("a", box, 0)>>, FALSE)>>}

CrateHits == <<Hit("zip", 0, <<Member("a", x, 0)>>, FALSE)>>

MCLayouts ==
    {[b \in {img, box, crate, x, y} |-> CASE b = img -> f \o s [] b = box -> z [] b = crate -> CrateHits [] OTHER -> <<>>] :
        f \in FirstHits, s \in SecondHits, z \in BoxHits}

MCEscaping == {<<"..">>}
MCHandled == {"tar", "cpio", "zip", "gzip"}
=============================================================================
