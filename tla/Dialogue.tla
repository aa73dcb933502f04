------------------------------ MODULE Dialogue ------------------------------
(***************************************************************************)
(* What a discovery promises, whatever tasks, leases, messages and workers *)
(* carry it out: Finder, Validator and (when enabled) Judge speak in turn  *)
(* about one subject, the Finder's latest proposal; each turn is said once *)
(* and stands; the discovery converges only when the last speaker whose    *)
(* word it is agrees to that very subject, never to one whose evidence has *)
(* gaps; and once there is a result nothing more is said.                  *)
(* docs/discovery.md describes the roles; DiscoveryStore implements this.  *)
(***************************************************************************)
EXTENDS Naturals

CONSTANTS MaxTurns, JudgeEnabled, Silence

VARIABLES
  said,     \* what was said in each turn, or Silence
  spoken,   \* how many turns were spoken
  speaker,  \* whose turn it is, or "nobody"
  subject,  \* the turn of the latest proposal, 0 before the first
  sound,    \* the subject's evidence has no gaps
  result    \* "open" until the discovery ends

vars == <<said, spoken, speaker, subject, sound, result>>

Turns == 1..MaxTurns

Words(r) ==
  CASE r = "finder"    -> {"propose"}
    [] r = "validator" -> {"challenge", "accept", "reject"}
    [] r = "judge"     -> {"approve", "revise", "reject"}

NextSpeaker(r, word) ==
  IF r = "finder" THEN "validator"
  ELSE IF word = "accept" THEN "judge" ELSE "finder"

Settles(r, word) == word = "approve" \/ (word = "accept" /\ ~JudgeEnabled)

Refusal(r, word) == r # "finder" /\ word \notin {"accept", "approve"}

Init ==
  /\ said = [t \in Turns |-> Silence]
  /\ spoken = 0
  /\ speaker = "finder"
  /\ subject = 0
  /\ sound = FALSE
  /\ result = "open"

\* The speaker says its word about a new proposal (Finder) or the subject.
Speak(word) ==
  /\ result = "open"
  /\ spoken < MaxTurns
  /\ word \in Words(speaker)
  /\ spoken' = spoken + 1
  /\ IF speaker = "finder"
     THEN subject' = spoken' /\ sound' \in BOOLEAN
     ELSE UNCHANGED <<subject, sound>>
  /\ word = "accept" => sound
  /\ said' = [said EXCEPT ![spoken'] = [by |-> speaker, word |-> word, about |-> subject']]
  /\ \/ /\ Settles(speaker, word)
        /\ result' = "converged"
        /\ speaker' = "nobody"
     \/ /\ ~Settles(speaker, word)
        /\ spoken' = MaxTurns
        /\ result' = IF Refusal(speaker, word) /\ sound THEN "not_converged" ELSE "inconclusive"
        /\ speaker' = "nobody"
     \/ /\ ~Settles(speaker, word)
        /\ spoken' < MaxTurns
        /\ result' = "open"
        /\ speaker' = NextSpeaker(speaker, word)

\* A limit, a failure or a human ends the discovery without a verdict.
Stop ==
  /\ result = "open"
  /\ result' = "inconclusive"
  /\ speaker' = "nobody"
  /\ UNCHANGED <<said, spoken, subject, sound>>

Next == Stop \/ \E word \in {"propose", "challenge", "accept", "reject", "approve", "revise"} : Speak(word)

Spec == Init /\ [][Next]_vars
=============================================================================
