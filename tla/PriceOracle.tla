---------------------------- MODULE PriceOracle ----------------------------
(***************************************************************************)
(* What Engine.Query promises its callers, without the cache, the          *)
(* in-flight calls and the retries: whoever asks for a price is answered   *)
(* with something a cloud really said about that very request, or with an  *)
(* error; always with an error when the product is unavailable on the      *)
(* site; and never left waiting.                                           *)
(***************************************************************************)
EXTENDS Naturals, FiniteSets

CONSTANTS Callers, Requests, Unavailable, Response, Nil, Err

VARIABLES
    asked,   \* the request each caller has asked about, or Nil
    answer,  \* the answer it has received, or Nil
    known    \* everything the clouds have said so far

oracleVars == <<asked, answer, known>>

Init ==
    /\ asked = [g \in Callers |-> Nil]
    /\ answer = [g \in Callers |-> Nil]
    /\ known = {}

\* A cloud says at most one more thing.
Learn ==
    \/ known' = known
    \/ \E x \in known' : /\ x \in Response \ known
                         /\ known' = known \cup {x}

Ask(g) ==
    /\ asked[g] = Nil
    /\ \E r \in Requests :
         /\ asked' = [asked EXCEPT ![g] = r]
         /\ \/ answer' = answer
            \/ r \in Unavailable /\ answer' = [answer EXCEPT ![g] = Err]
    /\ UNCHANGED known

Answer(g) ==
    /\ asked[g] # Nil /\ answer[g] = Nil
    /\ Learn
    /\ \E a \in {x \in known' : x.request = asked[g]} \cup {Err} :
         /\ asked[g] \in Unavailable => a = Err
         /\ answer' = [answer EXCEPT ![g] = a]
    /\ UNCHANGED asked

\* A new process starts: its callers have asked nothing yet.
Forget ==
    /\ asked' = [g \in Callers |-> Nil]
    /\ answer' = [g \in Callers |-> Nil]
    /\ UNCHANGED known

Next ==
    \/ \E g \in Callers : Ask(g) \/ Answer(g)
    \/ Learn /\ UNCHANGED <<asked, answer>>
    \/ Forget

Safe == Init /\ [][Next]_oracleVars

\* Nobody waits for ever, unless the process ends.
Prompt == \A g \in Callers :
              (asked[g] # Nil) ~> (answer[g] # Nil \/ asked[g] = Nil)

Spec == Safe /\ Prompt
=============================================================================
