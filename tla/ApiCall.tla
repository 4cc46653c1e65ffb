------------------------------- MODULE ApiCall -------------------------------
(***************************************************************************)
(* What a caller of Client.do (src/internal/sylveclient/client.go) may     *)
(* rely on, and nothing of how it is done: a call is begun once, it        *)
(* returns once, and the server carries its effect out AT MOST once, no    *)
(* matter how many times the client logs in or sends the request again.    *)
(* What a return value says about the effect is part of the promise:       *)
(*                                                                         *)
(*   "ok"          a JSON answer was decoded: the effect has happened      *)
(*   "loginError"  no effect has happened, and none ever will              *)
(*   "netError"    nothing is known: the effect may even happen later      *)
(*   the others    the answer is in: whatever happened has happened        *)
(***************************************************************************)
EXTENDS Naturals

CONSTANTS Calls,      \* the invocations of do()
          Decoding    \* those among them that pass a non-nil `out`

VARIABLES outcome,    \* [Calls -> Outcome]
          effects     \* [Calls -> Nat], how often the effect happened

vars == <<outcome, effects>>

Results == {"ok", "blank", "apiError", "netError", "decodeError", "loginError"}
Outcome == {"idle", "running"} \cup Results

Init ==
  /\ outcome = [c \in Calls |-> "idle"]
  /\ effects = [c \in Calls |-> 0]

Begin(c) ==
  /\ outcome[c] = "idle"
  /\ outcome' = [outcome EXCEPT ![c] = "running"]
  /\ UNCHANGED effects

\* The effect happens while the caller waits, or after it stopped waiting.
Effect(c) ==
  /\ outcome[c] \in {"running", "netError"}
  /\ effects[c] = 0
  /\ effects' = [effects EXCEPT ![c] = 1]
  /\ UNCHANGED outcome

Return(c, res) ==
  /\ outcome[c] = "running"
  /\ res = "loginError" => effects[c] = 0
  /\ (res = "ok" /\ c \in Decoding) => effects[c] = 1
  /\ outcome' = [outcome EXCEPT ![c] = res]
  /\ UNCHANGED effects

Next == \E c \in Calls : \/ Begin(c)
                         \/ Effect(c)
                         \/ \E res \in Results : Return(c, res)

Spec == Init /\ [][Next]_vars
==============================================================================
