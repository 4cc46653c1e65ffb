------------------------------ MODULE ApiClient ------------------------------
(***************************************************************************)
(* The HTTP client every resource shares (Client in                        *)
(* src/internal/sylveclient/client.go): one cached bearer token behind one *)
(* mutex, used by as many concurrent calls as Terraform has workers.       *)
(*                                                                         *)
(* A call is one invocation of do().  It reads the token, logs in when     *)
(* there is none, sends, and on a 401 logs in once more and sends once     *)
(* more.  Login holds the mutex across its own round trip; every other     *)
(* critical section is a read of the token and is a single step here.      *)
(*                                                                         *)
(* The server (not under src/) is modelled from how the client uses it: it *)
(* checks the bearer token before it does anything else, and forgets       *)
(* tokens whenever it likes.  The transport may fail a caller at any       *)
(* moment, before or after the server has seen the request.                *)
(***************************************************************************)
EXTENDS Naturals, FiniteSets

CONSTANTS Calls,       \* the invocations of do()
          Decoding,    \* those that pass a non-nil `out` to decode into
          MaxTokens    \* bound: the server grants this many tokens, then refuses logins

ASSUME DecodingAssumption == Decoding \subseteq Calls
ASSUME MaxTokensAssumption == MaxTokens \in Nat
ASSUME FreeAssumption == "free" \notin Calls

VARIABLES token,     \* Client.token; NoToken is the empty string
          mu,        \* Client.mu: the call that is inside Login, or "free"
          pc,        \* where in do() each call stands
          attempt,   \* 1, or 2 once a 401 made the call log in again
          carried,   \* the token the call's latest request carried
          flight,    \* what the network holds for the call
          grant,     \* the token of a login answer in flight
          effects,   \* how often the server carried the call's request out
          issued,    \* server: tokens granted so far (token i is the i-th)
          valid      \* server: the tokens it still accepts

clientVars == <<token, mu, pc, attempt, carried>>
serverVars == <<grant, effects, issued, valid>>
vars == <<clientVars, flight, serverVars>>

NoToken == 0
Free == "free"

Results == {"ok", "blank", "apiError", "netError", "decodeError", "loginError"}
Waiting == {"check", "lock", "login", "read", "sent"}
Answers == {"json", "garbled", "empty", "failure", "unauthorized"}

TypeOK ==
  /\ token \in Nat
  /\ mu \in Calls \cup {Free}
  /\ pc \in [Calls -> {"idle"} \cup Waiting \cup Results]
  /\ attempt \in [Calls -> {1, 2}]
  /\ carried \in [Calls -> Nat]
  /\ flight \in [Calls -> {"none", "login", "token", "denied", "request"} \cup Answers]
  /\ grant \in [Calls -> Nat]
  /\ effects \in [Calls -> Nat]
  /\ issued \in Nat
  /\ valid \in SUBSET (1 .. issued)

\* A bare client has no token; the provider's Configure logs in once before any
\* resource gets to use the client.
Init ==
  /\ token \in {NoToken, 1}
  /\ mu = Free
  /\ pc = [c \in Calls |-> "idle"]
  /\ attempt = [c \in Calls |-> 1]
  /\ carried = [c \in Calls |-> NoToken]
  /\ flight = [c \in Calls |-> "none"]
  /\ grant = [c \in Calls |-> NoToken]
  /\ effects = [c \in Calls |-> 0]
  /\ issued = token
  /\ valid = 1 .. token

Goto(c, label) == pc' = [pc EXCEPT ![c] = label]
Put(c, message) == flight' = [flight EXCEPT ![c] = message]

------------------------------------------------------------------------------
(* do(): the needLogin check, and the first request.                       *)

Call(c) ==
  /\ pc[c] = "idle"
  /\ Goto(c, "check")
  /\ UNCHANGED <<token, mu, attempt, carried, flight, serverVars>>

CheckToken(c) ==
  /\ pc[c] = "check"
  /\ mu = Free
  /\ Goto(c, IF token = NoToken THEN "lock" ELSE "read")
  /\ UNCHANGED <<token, mu, attempt, carried, flight, serverVars>>

Send(c) ==
  /\ pc[c] = "read"
  /\ mu = Free
  /\ carried' = [carried EXCEPT ![c] = token]
  /\ Put(c, "request")
  /\ Goto(c, "sent")
  /\ UNCHANGED <<token, mu, attempt, serverVars>>

------------------------------------------------------------------------------
(* Login and loginLocked.                                                  *)

\* Mutation of LoginStart: the mutex is not held over the round trip.
LoginStartUnlocked(c) ==
  /\ pc[c] = "lock"
  /\ mu = Free
  /\ Put(c, "login")
  /\ Goto(c, "login")
  /\ UNCHANGED <<token, mu, attempt, carried, serverVars>>

LoginStart(c) ==
  /\ pc[c] = "lock"
  /\ mu = Free
  /\ mu' = c
  /\ Put(c, "login")
  /\ Goto(c, "login")
  /\ UNCHANGED <<token, attempt, carried, serverVars>>

LoginOk(c) ==
  /\ pc[c] = "login"
  /\ flight[c] = "token"
  /\ token' = grant[c]
  /\ mu' = Free
  /\ Put(c, "none")
  /\ Goto(c, "read")
  /\ UNCHANGED <<attempt, carried, serverVars>>

\* Mutation of LoginFail: a return path that keeps the mutex.
LoginFailHolding(c) ==
  /\ pc[c] = "login"
  /\ \/ flight[c] = "denied" /\ Put(c, "none")
     \/ UNCHANGED flight
  /\ Goto(c, "loginError")
  /\ UNCHANGED <<token, mu, attempt, carried, serverVars>>

\* Refused, unreadable, or the transport gave up: the token stays as it was.
LoginFail(c) ==
  /\ pc[c] = "login"
  /\ \/ flight[c] = "denied" /\ Put(c, "none")
     \/ UNCHANGED flight
  /\ mu' = Free
  /\ Goto(c, "loginError")
  /\ UNCHANGED <<token, attempt, carried, serverVars>>

------------------------------------------------------------------------------
(* do(): what is made of the answer.                                       *)

\* Mutation of Retry: any refusal, not only a 401, is taken for an expired token.
RetryOnFailure(c) ==
  /\ pc[c] = "sent"
  /\ flight[c] \in {"unauthorized", "failure"}
  /\ attempt[c] = 1
  /\ attempt' = [attempt EXCEPT ![c] = 2]
  /\ Put(c, "none")
  /\ Goto(c, "lock")
  /\ UNCHANGED <<token, mu, carried, serverVars>>

\* Mutation of Retry: the cached token is sent again without a login.
RetryWithoutLogin(c) ==
  /\ pc[c] = "sent"
  /\ flight[c] = "unauthorized"
  /\ attempt[c] = 1
  /\ attempt' = [attempt EXCEPT ![c] = 2]
  /\ Put(c, "none")
  /\ Goto(c, "read")
  /\ UNCHANGED <<token, mu, carried, serverVars>>

\* Mutation of Retry: nothing remembers that the call was retried already.
RetryForever(c) ==
  /\ pc[c] = "sent"
  /\ flight[c] = "unauthorized"
  /\ attempt' = [attempt EXCEPT ![c] = @ + 1]
  /\ Put(c, "none")
  /\ Goto(c, "lock")
  /\ UNCHANGED <<token, mu, carried, serverVars>>

Retry(c) ==
  /\ pc[c] = "sent"
  /\ flight[c] = "unauthorized"
  /\ attempt[c] = 1
  /\ attempt' = [attempt EXCEPT ![c] = 2]
  /\ Put(c, "none")
  /\ Goto(c, "lock")
  /\ UNCHANGED <<token, mu, carried, serverVars>>

\* Mutation of AnswerResult: a body that does not decode is not an error.
AnswerResultUndecoded(c) ==
  CASE flight[c] \in {"failure", "unauthorized"} -> "apiError"
    [] flight[c] \in {"json", "garbled"} -> "ok"
    [] flight[c] = "empty" -> IF c \in Decoding THEN "blank" ELSE "ok"

\* The result of do() for an answer that is not retried.  An empty body is
\* never decoded, so `out` keeps its zero value: "blank".
AnswerResult(c) ==
  CASE flight[c] \in {"failure", "unauthorized"} -> "apiError"
    [] flight[c] = "json" -> "ok"
    [] flight[c] = "garbled" -> IF c \in Decoding THEN "decodeError" ELSE "ok"
    [] flight[c] = "empty" -> IF c \in Decoding THEN "blank" ELSE "ok"

Receive(c) ==
  /\ pc[c] = "sent"
  /\ flight[c] \in Answers
  /\ ~(flight[c] = "unauthorized" /\ attempt[c] = 1)
  /\ Goto(c, AnswerResult(c))
  /\ Put(c, "none")
  /\ UNCHANGED <<token, mu, attempt, carried, serverVars>>

\* httpClient.Do returns an error (a broken connection, a cancelled context).
\* What is in flight stays in flight: the server may still act on it.
TransportError(c) ==
  /\ pc[c] = "sent"
  /\ Goto(c, "netError")
  /\ UNCHANGED <<token, mu, attempt, carried, flight, serverVars>>

------------------------------------------------------------------------------
(* The server.                                                             *)

ServerLogin(c) ==
  /\ flight[c] = "login"
  /\ \/ /\ issued < MaxTokens
        /\ issued' = issued + 1
        /\ valid' = valid \cup {issued + 1}
        /\ grant' = [grant EXCEPT ![c] = issued + 1]
        /\ Put(c, "token")
     \/ /\ Put(c, "denied")
        /\ UNCHANGED <<grant, issued, valid>>
  /\ UNCHANGED <<clientVars, effects>>

\* A request without an accepted token is answered 401 and not acted on.
ServerReject(c) ==
  /\ flight[c] = "request"
  /\ carried[c] \notin valid
  /\ Put(c, "unauthorized")
  /\ UNCHANGED <<clientVars, serverVars>>

\* The request is carried out; the answer is JSON, or its body is cut off in the
\* middle ("garbled") or before its first byte, or the server fails after the fact.
ServerExecute(c) ==
  /\ flight[c] = "request"
  /\ carried[c] \in valid
  /\ effects' = [effects EXCEPT ![c] = @ + 1]
  /\ \E a \in {"json", "garbled", "empty", "failure"} : Put(c, a)
  /\ UNCHANGED <<clientVars, grant, issued, valid>>

\* The request is refused (4xx), or no route matches and the web UI's page is
\* served with status 200 instead ("garbled": it is no JSON).
ServerDecline(c) ==
  /\ flight[c] = "request"
  /\ carried[c] \in valid
  /\ \E a \in {"garbled", "failure"} : Put(c, a)
  /\ UNCHANGED <<clientVars, serverVars>>

ServerForget ==
  /\ \E gone \in (SUBSET valid) \ {{}} : valid' = valid \ gone
  /\ UNCHANGED <<clientVars, flight, grant, effects, issued>>

------------------------------------------------------------------------------

Server(c) == ServerLogin(c) \/ ServerReject(c) \/ ServerExecute(c) \/ ServerDecline(c)

Client(c) ==
  \/ Call(c) \/ CheckToken(c) \/ Send(c)
  \/ LoginStart(c) \/ LoginOk(c) \/ LoginFail(c)
  \/ Retry(c) \/ Receive(c) \/ TransportError(c)

\* Every call has returned: the apply is over.
Finished ==
  /\ \A c \in Calls : pc[c] \in Results
  /\ UNCHANGED vars

Next ==
  \/ \E c \in Calls : Client(c) \/ Server(c)
  \/ ServerForget
  \/ Finished

Spec == Init /\ [][Next]_vars

(***************************************************************************)
(* A goroutine runs while it can, a free mutex is eventually taken by a    *)
(* call that waits for it, and the transport answers or fails: there is no *)
(* client-side timeout, so that last one is an assumption on the server    *)
(* and on TCP.  Nothing makes the server forget a token.                   *)
(***************************************************************************)
Fairness ==
  \A c \in Calls :
    /\ WF_vars(CheckToken(c))
    /\ WF_vars(Send(c))
    /\ WF_vars(LoginStart(c))
    /\ WF_vars(LoginOk(c) \/ LoginFail(c))
    /\ WF_vars(Retry(c) \/ Receive(c) \/ TransportError(c))

FairSpec == Spec /\ Fairness

------------------------------------------------------------------------------
(* Properties.                                                             *)

\* However often a call logs in and sends again, the server acts on it at most
\* once: the resend in do() follows a 401 only, and a 401 is given before the
\* request is acted on.  (client.go:183-197)
AtMostOnce == \A c \in Calls : effects[c] <= 1

\* A call that failed in Login has changed nothing, and nothing of it is left
\* in flight that could change something later: a resource may report the
\* failure as "not done".  (client.go:177-181, 188-192)
LoginErrorMeansUntouched ==
  \A c \in Calls : pc[c] = "loginError" => effects[c] = 0 /\ flight[c] # "request"

\* A call that decodes its answer and returns no error was carried out, unless
\* the body it had to decode was empty (`len(body) > 0`, client.go:203).
OkMeansExecuted ==
  \A c \in Decoding : pc[c] = "ok" => effects[c] = 1

\* The mutex is held exactly by the call that is in Login's round trip: two
\* logins never overlap, and no return path keeps the mutex. (client.go:62-66)
LoginExclusive ==
  \A c \in Calls : pc[c] = "login" <=> mu = c

\* The cached token is never replaced by one granted earlier, however the
\* logins of concurrent calls interleave.  (client.go:62-66, 103)
TokenNeverRegresses == [][token' >= token]_token

\* The request sent after a 401 carries a token granted after the one that was
\* rejected, whichever call stored it.  (client.go:188-193)
RetryIsFresher ==
  [][\A c \in Calls :
       (pc[c] = "read" /\ pc'[c] = "sent" /\ attempt[c] = 2) => carried'[c] > carried[c]]_vars

\* Every call that is made returns, whatever the server answers and however
\* the logins queue up behind the mutex.
EveryCallReturns == \A c \in Calls : pc[c] = "check" ~> pc[c] \in Results

\* do() implements the at-most-once call of module ApiCall.
Outcome == [c \in Calls |-> IF pc[c] \in Waiting THEN "running" ELSE pc[c]]
Abstract == INSTANCE ApiCall WITH outcome <- Outcome
ImplementsApiCall == Abstract!Spec
==============================================================================
