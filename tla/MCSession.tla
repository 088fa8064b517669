----------------------------- MODULE MCSession -----------------------------
(* Two files of the same name, four claims, a client that asks and pages *)
EXTENDS Session

CONSTANTS bin, sbin, str, name

Claim(predicate, subject, about, marked, evidence) ==
    [predicate |-> predicate, subject |-> subject, marked |-> marked, about |-> about,
     evidence |-> evidence]

secret == Claim("contains_hardcoded_secret", bin, "jwt", FALSE, {str})
reached == Claim("function_reached", bin, "main", FALSE, {bin})
risky == Claim("uses_risky_api", bin, "exec", TRUE, {bin})
strange == Claim("uses_risky_api", sbin, "exec", FALSE, {sbin, bin})

MCClaimOrder == <<secret, reached, risky, strange>>
MCArtifactOrder == <<bin, sbin, str>>
MCKindOf == (bin :> "file") @@ (sbin :> "file") @@ (str :> "string")
MCHolder == (bin :> {}) @@ (sbin :> {}) @@ (str :> {bin})
MCMatches == (name :> <<bin, sbin>>)

MCStarted ==
    [artifacts : {{bin, sbin, str}},
     claims : {{}, {risky}, {secret, strange}, {reached, risky}, {risky, strange},
               {secret, reached, strange}, ToSet(MCClaimOrder)}]
    \cup {[artifacts |-> {}, claims |-> {}],
          [artifacts |-> {bin}, claims |-> {reached}],
          [artifacts |-> {bin, str}, claims |-> {secret, risky}]}

MCRefinements == {<<risky, reached>>}
MCSubmitted == {strange}

MCVocabulary ==
    [t \in ToSet(QuestionTypes) |->
        CASE t = "attack_surface"    -> [anchors |-> {"surface"}, terms |-> {"risky"}, weak |-> {"dangerous"}, negatives |-> {}]
          [] t = "hardcoded_secrets" -> [anchors |-> {"secrets"}, terms |-> {}, weak |-> {}, negatives |-> {"risky"}]
          [] OTHER                   -> [anchors |-> {}, terms |-> {}, weak |-> {}, negatives |-> {}]]

Message(method, named) ==
    [current |-> TRUE, named |-> named, method |-> method, tool |-> None, args |-> None]
Call(tool, args) ==
    [current |-> TRUE, named |-> TRUE, method |-> "tools/call", tool |-> tool, args |-> args]
Ask(question, object) == Call("ask", [question |-> question, object |-> object])
Single(message) == [form |-> "object", items |-> <<message>>]

MCLines ==
    {[form |-> "garbage", items |-> << >>],
     Single(Ask({"surface"}, name)),
     Single(Ask({"risky", "secrets"}, None)),
     Single(Ask({"dangerous"}, None)),
     Single(Call("find", [AllClaims EXCEPT !.floor = 50, !.limit = 1])),
     Single(Call("artifacts", [kind |-> "string", object |-> name, named |-> {str}, offset |-> 0, limit |-> 50])),
     Single(Call("claim", secret)),
     Single(Call("neighbors", [node |-> reached, depth |-> 2, limit |-> 200])),
     Single(Call("neighbors", [node |-> bin, depth |-> 0, limit |-> 3])),
     [form |-> "batch",
      items |-> <<Message("ping", TRUE), None, Message("notified", FALSE),
                  [Message("ping", FALSE) EXCEPT !.current = FALSE],
                  Call("submit", strange), Message(None, TRUE)>>]}
=============================================================================
