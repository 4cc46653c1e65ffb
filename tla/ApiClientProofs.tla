--------------------------- MODULE ApiClientProofs ---------------------------
(***************************************************************************)
(* Proofs about ApiClient, for any set of concurrent calls and any number  *)
(* of tokens.  IInv is the inductive invariant; each of its parts says     *)
(* what one place of do() may rely on:                                     *)
(*                                                                         *)
(*   LoginExclusive  the mutex and the program counters agree              *)
(*   Tokens          no token in use is newer than the last one granted    *)
(*   Fresh           a login answer is newer than the cached token, and a  *)
(*                   retry's old token is older than it                    *)
(*   Flights         what may be in flight at each place of do()           *)
(*   Effects         when the server may, and must, have acted on the call *)
(***************************************************************************)
EXTENDS ApiClient, TLAPS

Tokens == token <= issued /\ \A c \in Calls : carried[c] <= token

Fresh ==
  \A c \in Calls :
    /\ (pc[c] = "login" /\ flight[c] = "token") => token < grant[c] /\ grant[c] <= issued
    /\ (pc[c] = "read" /\ attempt[c] = 2) => carried[c] < token
    /\ pc[c] \in {"idle", "check"} => attempt[c] = 1

Flights ==
  \A c \in Calls :
    /\ pc[c] \in {"idle", "check", "lock", "read"} => flight[c] = "none"
    /\ pc[c] \in {"login", "loginError"} => flight[c] \in {"none", "login", "token", "denied"}
    /\ pc[c] = "login" => flight[c] # "none"
    /\ pc[c] \in {"sent", "netError"} => flight[c] \in {"request"} \cup Answers
    /\ pc[c] \in {"ok", "blank", "apiError", "decodeError"} => flight[c] = "none"

Effects ==
  \A c \in Calls :
    /\ effects[c] \in {0, 1}
    /\ pc[c] \in {"idle", "check", "lock", "login", "read", "loginError"} => effects[c] = 0
    /\ flight[c] \in {"request", "unauthorized"} => effects[c] = 0
    /\ flight[c] = "json" => effects[c] = 1
    /\ (pc[c] = "ok" /\ c \in Decoding) => effects[c] = 1

IInv == TypeOK /\ LoginExclusive /\ Tokens /\ Fresh /\ Flights /\ Effects

------------------------------------------------------------------------------
(* Every step of a call and of the server preserves each part.             *)

LEMMA InitIInv == Init => IInv
<1> SUFFICES ASSUME Init PROVE IInv
    OBVIOUS
<1> USE FreeAssumption DEF Init, NoToken, Free
<1>1. TypeOK
    BY DEF TypeOK
<1>2. LoginExclusive /\ Tokens /\ Fresh
    BY DEF LoginExclusive, Tokens, Fresh
<1>3. Flights /\ Effects
    BY DEF Flights, Effects
<1> QED BY <1>1, <1>2, <1>3 DEF IInv

LEMMA ClientStep == ASSUME IInv, NEW c \in Calls, Client(c) PROVE IInv'
<1> USE FreeAssumption, DecodingAssumption
        DEF IInv, Free, clientVars, serverVars, Goto, Put, Results, Waiting, Answers
<1>1. CASE Call(c)
  <2> USE <1>1 DEF Call
  <2>1. TypeOK'
      BY DEF TypeOK
  <2>2. LoginExclusive'
      BY DEF TypeOK, LoginExclusive
  <2>3. Tokens'
      BY DEF TypeOK, Tokens, Fresh
  <2>4. Fresh'
      BY DEF TypeOK, Tokens, Fresh, LoginExclusive
  <2>5. Flights'
      BY DEF TypeOK, Flights
  <2>6. Effects'
      BY DEF TypeOK, Flights, Effects
  <2> QED BY <2>1, <2>2, <2>3, <2>4, <2>5, <2>6
<1>2. CASE CheckToken(c)
  <2> USE <1>2 DEF CheckToken, NoToken
  <2>1. TypeOK'
      BY DEF TypeOK
  <2>2. LoginExclusive'
      BY DEF TypeOK, LoginExclusive
  <2>3. Tokens'
      BY DEF TypeOK, Tokens, Fresh
  <2>4. Fresh'
      BY DEF TypeOK, Tokens, Fresh, LoginExclusive
  <2>5. Flights'
      BY DEF TypeOK, Flights
  <2>6. Effects'
      BY DEF TypeOK, Flights, Effects
  <2> QED BY <2>1, <2>2, <2>3, <2>4, <2>5, <2>6
<1>3. CASE Send(c)
  <2> USE <1>3 DEF Send, NoToken
  <2>1. TypeOK'
      BY DEF TypeOK
  <2>2. LoginExclusive'
      BY DEF TypeOK, LoginExclusive
  <2>3. Tokens'
      BY DEF TypeOK, Tokens, Fresh
  <2>4. Fresh'
      BY DEF TypeOK, Tokens, Fresh, LoginExclusive
  <2>5. Flights'
      BY DEF TypeOK, Flights
  <2>6. Effects'
      BY DEF TypeOK, Flights, Effects
  <2> QED BY <2>1, <2>2, <2>3, <2>4, <2>5, <2>6
<1>4. CASE LoginStart(c)
  <2> USE <1>4 DEF LoginStart
  <2>1. TypeOK'
      BY DEF TypeOK
  <2>2. LoginExclusive'
      BY DEF TypeOK, LoginExclusive
  <2>3. Tokens'
      BY DEF TypeOK, Tokens, Fresh
  <2>4. Fresh'
      BY DEF TypeOK, Tokens, Fresh, LoginExclusive
  <2>5. Flights'
      BY DEF TypeOK, Flights
  <2>6. Effects'
      BY DEF TypeOK, Flights, Effects
  <2> QED BY <2>1, <2>2, <2>3, <2>4, <2>5, <2>6
<1>5. CASE LoginOk(c)
  <2> USE <1>5 DEF LoginOk
  <2>1. TypeOK'
      BY DEF TypeOK
  <2>2. LoginExclusive'
      BY DEF TypeOK, LoginExclusive
  <2>3. Tokens'
      BY DEF TypeOK, Tokens, Fresh
  <2>4. Fresh'
      BY DEF TypeOK, Tokens, Fresh, LoginExclusive
  <2>5. Flights'
      BY DEF TypeOK, Flights
  <2>6. Effects'
      BY DEF TypeOK, Flights, Effects
  <2> QED BY <2>1, <2>2, <2>3, <2>4, <2>5, <2>6
<1>6. CASE LoginFail(c)
  <2> USE <1>6 DEF LoginFail
  <2>1. TypeOK'
      BY DEF TypeOK
  <2>2. LoginExclusive'
      BY DEF TypeOK, LoginExclusive
  <2>3. Tokens'
      BY DEF TypeOK, Tokens, Fresh
  <2>4. Fresh'
      BY DEF TypeOK, Tokens, Fresh, LoginExclusive
  <2>5. Flights'
      BY DEF TypeOK, Flights
  <2>6. Effects'
      BY DEF TypeOK, Flights, Effects
  <2> QED BY <2>1, <2>2, <2>3, <2>4, <2>5, <2>6
<1>7. CASE Retry(c)
  <2> USE <1>7 DEF Retry
  <2>1. TypeOK'
      BY DEF TypeOK
  <2>2. LoginExclusive'
      BY DEF TypeOK, LoginExclusive
  <2>3. Tokens'
      BY DEF TypeOK, Tokens, Fresh
  <2>4. Fresh'
      BY DEF TypeOK, Tokens, Fresh, LoginExclusive
  <2>5. Flights'
      BY DEF TypeOK, Flights
  <2>6. Effects'
      BY DEF TypeOK, Flights, Effects
  <2> QED BY <2>1, <2>2, <2>3, <2>4, <2>5, <2>6
<1>8. CASE Receive(c)
  <2> USE <1>8 DEF Receive, AnswerResult
  <2>1. TypeOK'
      BY DEF TypeOK
  <2>2. LoginExclusive'
      BY DEF TypeOK, LoginExclusive
  <2>3. Tokens'
      BY DEF TypeOK, Tokens, Fresh
  <2>4. Fresh'
      BY DEF TypeOK, Tokens, Fresh, LoginExclusive
  <2>5. Flights'
      BY DEF TypeOK, Flights
  <2>6. Effects'
      BY DEF TypeOK, Flights, Effects
  <2> QED BY <2>1, <2>2, <2>3, <2>4, <2>5, <2>6
<1>9. CASE TransportError(c)
  <2> USE <1>9 DEF TransportError
  <2>1. TypeOK'
      BY DEF TypeOK
  <2>2. LoginExclusive'
      BY DEF TypeOK, LoginExclusive
  <2>3. Tokens'
      BY DEF TypeOK, Tokens, Fresh
  <2>4. Fresh'
      BY DEF TypeOK, Tokens, Fresh, LoginExclusive
  <2>5. Flights'
      BY DEF TypeOK, Flights
  <2>6. Effects'
      BY DEF TypeOK, Flights, Effects
  <2> QED BY <2>1, <2>2, <2>3, <2>4, <2>5, <2>6
<1> QED BY <1>1, <1>2, <1>3, <1>4, <1>5, <1>6, <1>7, <1>8, <1>9 DEF Client

LEMMA ServerStep == ASSUME IInv, NEW c \in Calls, Server(c) PROVE IInv'
<1> USE FreeAssumption
        DEF IInv, Free, clientVars, serverVars, Put, Results, Waiting, Answers
<1>1. CASE ServerLogin(c)
  <2> USE <1>1 DEF ServerLogin
  <2>1. TypeOK'
    <3>1. issued \in Nat /\ issued + 1 \in Nat /\ valid \in SUBSET (1 .. issued)
        BY DEF TypeOK
    <3>2. valid \cup {issued + 1} \in SUBSET (1 .. issued + 1)
        BY <3>1
    <3>3. issued' \in Nat /\ valid' \in SUBSET (1 .. issued')
        BY <3>1, <3>2
    <3> QED BY <3>1, <3>3 DEF TypeOK
  <2>2. LoginExclusive'
      BY DEF TypeOK, LoginExclusive
  <2>3. Tokens'
      BY DEF TypeOK, Tokens
  <2>4. Fresh'
      BY DEF TypeOK, Tokens, Fresh
  <2>5. Flights'
      BY DEF TypeOK, Flights
  <2>6. Effects'
      BY DEF TypeOK, Flights, Effects
  <2> QED BY <2>1, <2>2, <2>3, <2>4, <2>5, <2>6
<1>2. CASE ServerReject(c)
  <2> USE <1>2 DEF ServerReject
  <2>1. TypeOK'
      BY DEF TypeOK
  <2>2. LoginExclusive'
      BY DEF TypeOK, LoginExclusive
  <2>3. Tokens'
      BY DEF TypeOK, Tokens
  <2>4. Fresh'
      BY DEF TypeOK, Tokens, Fresh
  <2>5. Flights'
      BY DEF TypeOK, Flights
  <2>6. Effects'
      BY DEF TypeOK, Flights, Effects
  <2> QED BY <2>1, <2>2, <2>3, <2>4, <2>5, <2>6
<1>3. CASE ServerExecute(c)
  <2> USE <1>3 DEF ServerExecute
  <2>1. TypeOK'
      BY DEF TypeOK
  <2>2. LoginExclusive'
      BY DEF TypeOK, LoginExclusive
  <2>3. Tokens'
      BY DEF TypeOK, Tokens
  <2>4. Fresh'
      BY DEF TypeOK, Tokens, Fresh
  <2>5. Flights'
      BY DEF TypeOK, Flights
  <2>6. Effects'
      BY DEF TypeOK, Flights, Effects
  <2> QED BY <2>1, <2>2, <2>3, <2>4, <2>5, <2>6
<1>4. CASE ServerDecline(c)
  <2> USE <1>4 DEF ServerDecline
  <2>1. TypeOK'
      BY DEF TypeOK
  <2>2. LoginExclusive'
      BY DEF TypeOK, LoginExclusive
  <2>3. Tokens'
      BY DEF TypeOK, Tokens
  <2>4. Fresh'
      BY DEF TypeOK, Tokens, Fresh
  <2>5. Flights'
      BY DEF TypeOK, Flights
  <2>6. Effects'
      BY DEF TypeOK, Flights, Effects
  <2> QED BY <2>1, <2>2, <2>3, <2>4, <2>5, <2>6
<1> QED BY <1>1, <1>2, <1>3, <1>4 DEF Server

LEMMA NextStep == IInv /\ [Next]_vars => IInv'
<1> SUFFICES ASSUME IInv, [Next]_vars PROVE IInv'
    OBVIOUS
<1> USE DEF clientVars, serverVars
<1>1. ASSUME NEW c \in Calls, Client(c) \/ Server(c) PROVE IInv'
    BY <1>1, ClientStep, ServerStep
<1>2. CASE ServerForget
    BY <1>2 DEF ServerForget, IInv, TypeOK, LoginExclusive, Tokens, Fresh, Flights, Effects
<1>3. CASE UNCHANGED vars
    BY <1>3 DEF vars, IInv, TypeOK, LoginExclusive, Tokens, Fresh, Flights, Effects
<1> QED BY <1>1, <1>2, <1>3 DEF Next, Finished

\* The inductive invariant holds of every behaviour of the client.
THEOREM Invariant == Spec => []IInv
<1> QED BY InitIInv, NextStep, PTL DEF Spec

------------------------------------------------------------------------------
(* What follows from it.                                                   *)

\* Every variable keeps its type.
THEOREM TypeCorrect == Spec => []TypeOK
<1>1. IInv => TypeOK
    BY DEF IInv
<1> QED BY <1>1, Invariant, PTL

\* The server acts on a call at most once, although do() may send it twice:
\* the retry in do() never repeats an effect.
THEOREM CallAtMostOnce == Spec => []AtMostOnce
<1>1. IInv => AtMostOnce
    BY DEF IInv, Effects, AtMostOnce
<1> QED BY <1>1, Invariant, PTL

\* A call that failed to log in has no effect, now or later.
THEOREM CallUntouchedByLoginError == Spec => []LoginErrorMeansUntouched
<1>1. IInv => LoginErrorMeansUntouched
    BY DEF IInv, Effects, Flights, LoginErrorMeansUntouched
<1> QED BY <1>1, Invariant, PTL

\* A decoded answer without an error means that the call was carried out.
THEOREM CallExecutedWhenOk == Spec => []OkMeansExecuted
<1>1. IInv => OkMeansExecuted
    BY DecodingAssumption DEF IInv, Effects, OkMeansExecuted
<1> QED BY <1>1, Invariant, PTL

\* The mutex is held exactly during Login's round trip.
THEOREM LoginMutualExclusion == Spec => []LoginExclusive
<1>1. IInv => LoginExclusive
    BY DEF IInv
<1> QED BY <1>1, Invariant, PTL

\* The cached token only ever moves to a later one: the mutex held across the
\* login request orders the answers as the server granted them.
THEOREM TokenMonotone == Spec => TokenNeverRegresses
<1>1. IInv /\ [Next]_vars => [token' >= token]_token
  <2> SUFFICES ASSUME IInv, [Next]_vars PROVE [token' >= token]_token
      OBVIOUS
  <2> USE DEF clientVars, serverVars, IInv, TypeOK, Fresh
  <2>1. ASSUME NEW c \in Calls, LoginOk(c) PROVE token' >= token
      BY <2>1 DEF LoginOk
  <2>2. ASSUME NEW c \in Calls, Client(c), ~LoginOk(c) PROVE UNCHANGED token
      BY <2>2 DEF Client, Call, CheckToken, Send, LoginStart, LoginFail, Retry,
                  Receive, TransportError
  <2>3. ASSUME NEW c \in Calls, Server(c) PROVE UNCHANGED token
      BY <2>3 DEF Server, ServerLogin, ServerReject, ServerExecute, ServerDecline
  <2>4. CASE ServerForget \/ UNCHANGED vars
      BY <2>4 DEF ServerForget, vars
  <2> QED BY <2>1, <2>2, <2>3, <2>4 DEF Next, Finished
<1> QED BY <1>1, Invariant, PTL DEF Spec, TokenNeverRegresses

\* A request that is sent again carries a token granted after the rejected one.
THEOREM RetryFresher == Spec => RetryIsFresher
<1> DEFINE A == \A c \in Calls :
       (pc[c] = "read" /\ pc'[c] = "sent" /\ attempt[c] = 2) => carried'[c] > carried[c]
<1>1. IInv /\ [Next]_vars => [A]_vars
  <2> SUFFICES ASSUME IInv, Next,
                      NEW c \in Calls, pc[c] = "read", pc'[c] = "sent", attempt[c] = 2
               PROVE  carried'[c] > carried[c]
      OBVIOUS
  <2> USE DEF clientVars, serverVars, Goto, IInv, TypeOK
  <2>1. ASSUME NEW d \in Calls, Client(d) PROVE d = c /\ Send(c)
    <3>1. CASE d = c
        BY <2>1, <3>1 DEF Client, Call, CheckToken, Send, LoginStart, LoginOk,
                          LoginFail, Retry, Receive, TransportError
    <3>2. CASE d # c
        BY <2>1, <3>2 DEF Client, Call, CheckToken, Send, LoginStart, LoginOk,
                          LoginFail, Retry, Receive, TransportError
    <3> QED BY <3>1, <3>2
  <2>2. ASSUME NEW d \in Calls, Server(d) PROVE FALSE
      BY <2>2 DEF Server, ServerLogin, ServerReject, ServerExecute, ServerDecline
  <2>3. ~(ServerForget \/ Finished)
      BY DEF ServerForget, Finished, vars
  <2>4. Send(c)
      BY <2>1, <2>2, <2>3 DEF Next
  <2> QED BY <2>4 DEF Send, Fresh
<1> QED BY <1>1, Invariant, PTL DEF Spec, RetryIsFresher

------------------------------------------------------------------------------
(* do() implements the at-most-once call.                                  *)

\* What a step of one call is, seen by its caller.
LEMMA AbstractClientStep ==
  ASSUME IInv, NEW c \in Calls, Client(c)
  PROVE  \/ Abstract!Begin(c)
         \/ \E res \in Results : Abstract!Return(c, res)
         \/ UNCHANGED <<Outcome, effects>>
<1> USE DEF clientVars, serverVars, Goto, IInv, TypeOK, Outcome, Waiting, Results
<1>1. CASE Call(c)
    BY <1>1 DEF Call, Abstract!Begin
<1>2. CASE CheckToken(c) \/ Send(c) \/ LoginStart(c) \/ LoginOk(c) \/ Retry(c)
    BY <1>2 DEF CheckToken, Send, LoginStart, LoginOk, Retry
<1>3. CASE LoginFail(c)
  <2>1. Abstract!Return(c, "loginError")
      BY <1>3 DEF LoginFail, Effects, Abstract!Return
  <2> QED BY <2>1
<1>4. CASE TransportError(c)
  <2>1. Abstract!Return(c, "netError")
      BY <1>4 DEF TransportError, Abstract!Return
  <2> QED BY <2>1
<1>5. CASE Receive(c)
  <2>1. PICK res \in Results \ {"loginError", "netError"} : res = AnswerResult(c)
      BY <1>5 DEF Receive, AnswerResult, Answers
  <2>2. (res = "ok" /\ c \in Decoding) => effects[c] = 1
      BY <1>5, <2>1 DEF Receive, AnswerResult, Answers, Effects
  <2>3. Abstract!Return(c, res)
      BY <1>5, <2>1, <2>2 DEF Receive, Abstract!Return
  <2> QED BY <2>3
<1> QED BY <1>1, <1>2, <1>3, <1>4, <1>5 DEF Client

\* The only step of the server a caller can tell is the effect itself.
LEMMA AbstractServerStep ==
  ASSUME IInv, NEW c \in Calls, Server(c)
  PROVE  Abstract!Effect(c) \/ UNCHANGED <<Outcome, effects>>
<1> USE DEF clientVars, serverVars, IInv, TypeOK, Outcome, Waiting, Results
<1>1. CASE ServerExecute(c)
  <2>1. pc[c] \in {"sent", "netError"} /\ effects[c] = 0
      BY <1>1 DEF ServerExecute, Flights, Effects, Answers
  <2>2. effects' = [effects EXCEPT ![c] = 1]
      BY <1>1, <2>1 DEF ServerExecute
  <2> QED BY <1>1, <2>1, <2>2 DEF ServerExecute, Abstract!Effect
<1>2. CASE ServerLogin(c) \/ ServerReject(c) \/ ServerDecline(c)
    BY <1>2 DEF ServerLogin, ServerReject, ServerDecline
<1> QED BY <1>1, <1>2 DEF Server

\* Every behaviour of the client is one of the abstract call: each step of do()
\* or of the server is one abstract step, or none.
THEOREM Implementation == Spec => ImplementsApiCall
<1>1. Init => Abstract!Init
    BY DEF Init, Abstract!Init, Outcome, Waiting
<1>2. IInv /\ [Next]_vars => [Abstract!Next]_(Abstract!vars)
  <2> SUFFICES ASSUME IInv, [Next]_vars PROVE [Abstract!Next]_(Abstract!vars)
      OBVIOUS
  <2> USE DEF Abstract!vars
  <2>1. ASSUME NEW c \in Calls, Client(c) PROVE [Abstract!Next]_(Abstract!vars)
      BY <2>1, AbstractClientStep DEF Abstract!Next, Abstract!Results, Results
  <2>2. ASSUME NEW c \in Calls, Server(c) PROVE [Abstract!Next]_(Abstract!vars)
      BY <2>2, AbstractServerStep DEF Abstract!Next
  <2>3. CASE ServerForget \/ UNCHANGED vars
      BY <2>3 DEF ServerForget, clientVars, serverVars, vars, Outcome
  <2> QED BY <2>1, <2>2, <2>3 DEF Next, Finished
<1> QED BY <1>1, <1>2, Invariant, PTL DEF Spec, ImplementsApiCall, Abstract!Spec
==============================================================================
