----------------------------- MODULE Questions -----------------------------
(***************************************************************************)
(* Questions in natural language (ultron/nl): the choice of a question     *)
(* type by the words of the question, and the sentences that summarise the *)
(* claims found.  A question is the set of the terms of the vocabularies   *)
(* that it contains.  A sentence is what it cites; its wording is left     *)
(* out.  A caveat states a limit of the analysis and cites nothing.        *)
(***************************************************************************)
EXTENDS Queries

CONSTANTS
    Vocabulary,   \* question type -> its anchors, terms, weak terms, negatives
    AskLimit      \* claims read for each predicate

\* In the order of their names, which decides between equal scores.
QuestionTypes == <<"attack_surface", "binary_hardening", "embedded_components",
                   "hardcoded_secrets", "suspicious_indicators">>

Predicates ==
    [attack_surface        |-> <<"uses_risky_api", "function_reached">>,
     binary_hardening      |-> <<"binary_hardening">>,
     embedded_components   |-> <<"embeds_component">>,
     hardcoded_secrets     |-> <<"contains_hardcoded_secret">>,
     suspicious_indicators |-> <<"suspicious_string">>]

ASSUME QuestionsAssumption ==
    /\ \A type \in ToSet(QuestionTypes) :
        LET v == Vocabulary[type]
        IN  /\ \A terms \in {v.anchors, v.terms, v.weak, v.negatives} : IsFiniteSet(terms)
            /\ None \notin ToSet(Predicates[type])
    /\ AskLimit \in 1..MaxRows

-----------------------------------------------------------------------------
(* Understanding.  Scores are in tenths. *)

Score(type, question) ==
    LET v == Vocabulary[type]
        Count(S) == Cardinality(S \cap question)
    IN  10 * Count(v.anchors) + 5 * Count(v.terms) + 2 * Count(v.weak) - 6 * Count(v.negatives)

Threshold == 3

\* The best score, the first name among equals; None below the threshold.
Classify(question) ==
    LET scores == [i \in DOMAIN QuestionTypes |-> Score(QuestionTypes[i], question)]
        best == CHOOSE i \in DOMAIN scores : \A j \in DOMAIN scores :
                    scores[i] > scores[j] \/ (scores[i] = scores[j] /\ i <= j)
    IN  IF scores[best] >= Threshold THEN QuestionTypes[best] ELSE None

-----------------------------------------------------------------------------
(* Answering.  Findings are the claims that were found. *)

Line(findings) == [cites |-> findings, caveat |-> FALSE]

NothingFound == {[cites |-> {}, caveat |-> TRUE]}

Optional(findings) == IF findings = {} THEN {} ELSE {Line(findings)}

ByFile(findings) ==
    {Line({f \in findings : f.subject = s}) : s \in {f.subject : f \in findings}}

ByAbout(findings) ==
    {Line({f \in findings : f.about = a}) : a \in {f.about : f \in findings}}

Marked(findings) == {f \in findings : f.marked}

Of(findings, predicate) == {f \in findings : f.predicate = predicate}

\* The strongest finding is quoted with the place of its evidence.
SummarizeSecrets(findings, strongest) ==
    IF findings = {} THEN NothingFound
    ELSE {Line(findings), Line({strongest})} \cup ByFile(findings)

SummarizeGroups(findings) ==
    IF findings = {} THEN NothingFound ELSE {Line(findings)} \cup ByAbout(findings)

\* marked: the claim tells how many call sites there are.
SummarizeAttackSurface(findings) ==
    LET risky == Of(findings, "uses_risky_api")
    IN  IF risky = {} THEN NothingFound
        ELSE {Line(risky)} \cup ByAbout(risky) \cup Optional(Marked(risky))
             \cup Optional(Of(findings, "function_reached"))

\* marked: the mitigation is absent.
SummarizeHardening(findings) ==
    IF findings = {} THEN NothingFound ELSE ByFile(findings) \cup Optional(Marked(findings))

Summarize(type, findings, strongest) ==
    CASE type = "hardcoded_secrets"     -> SummarizeSecrets(findings, strongest)
      [] type = "attack_surface"        -> SummarizeAttackSurface(findings)
      [] type = "binary_hardening"      -> SummarizeHardening(findings)
      [] OTHER                          -> SummarizeGroups(findings)

\* validate_answer: what is not a caveat cites, and only what was found.
ValidAnswer(lines, findings) ==
    \A l \in lines : IF l.caveat THEN l.cites = {}
                     ELSE l.cites # {} /\ l.cites \subseteq findings
=============================================================================
