---------------------------- MODULE UpdatesProofs ----------------------------
(***************************************************************************)
(* Proofs about Updates, for all the kinds in its table, every set of      *)
(* values and every bound.                                                 *)
(*                                                                         *)
(* Work says what the requests already made have achieved and why the      *)
(* others are to be made; it rests on two facts of the table (Shape): what *)
(* is pushed selectively is read back, and what is not selective is one    *)
(* request that carries everything.                                        *)
(***************************************************************************)
EXTENDS Updates, TLAPS

USE KindsAssumption, ValuesAssumption, BoundsAssumption

------------------------------------------------------------------------------
(* The table.                                                              *)

Busy == {"update", "fetched"}
Known == Values \cup {Unset, Zero}
Valuations == [Attributes -> Known]

LEMMA Shape ==
  ASSUME kind \in Kinds
  PROVE  /\ DOMAIN Requests \subseteq 1 .. 4 /\ DOMAIN Requests # {}
         /\ Enabled \notin Attributes
         /\ \A i \in DOMAIN Requests : Requests[i] \subseteq Attributes
         /\ \A a \in Attributes : \E i \in DOMAIN Requests : a \in Requests[i]
         /\ Update[kind].selective => Update[kind].readBack
         /\ ~Update[kind].selective => \A i \in DOMAIN Requests : Requests[i] = Attributes
<1> USE DEF Update
<1>1. \/ kind = "sylve_jail" \/ kind = "sylve_vm_storage" \/ kind = "sylve_vm_network"
      \/ kind = "sylve_network_object" \/ kind = "sylve_zfs_filesystem"
      \/ kind = "sylve_zfs_volume" \/ kind = "sylve_vm"
  OBVIOUS
<1>2. /\ \A i \in DOMAIN Requests : Requests[i] \subseteq Attributes
      /\ \A a \in Attributes : \E i \in DOMAIN Requests : a \in Requests[i]
  BY DEF Attributes
<1>3. CASE kind = "sylve_jail"
  <2>1. Requests = <<{"name"}, {"description"}, {"cores"}, {"memory"}>> /\ Update[kind].selective /\ Update[kind].readBack
    BY <1>3 DEF Requests, SylveJail
  <2>2. DOMAIN Requests = 1 .. 4
    BY <2>1
  <2>3. Enabled \notin Attributes
    BY <2>1, <2>2 DEF Attributes, Enabled
  <2> QED
    BY <1>2, <2>1, <2>2, <2>3
<1>4. CASE kind # "sylve_jail"
  <2>1. PICK S \in {{"emulation", "size"}, {"switch_name", "mac_id"}, {"name", "values"},
                    {"compression", "quota"}, {"compression", "volsize"},
                    {"vnc_bind", "vnc_password"}} : Requests = << S >>
    <3>1. CASE kind = "sylve_vm_storage"
      BY <3>1 DEF Requests, SylveVmStorage
    <3>2. CASE kind = "sylve_vm_network"
      BY <3>2 DEF Requests, SylveVmNetwork
    <3>3. CASE kind = "sylve_network_object"
      BY <3>3 DEF Requests, SylveNetworkObject
    <3>4. CASE kind = "sylve_zfs_filesystem"
      BY <3>4 DEF Requests, SylveZfsFilesystem
    <3>5. CASE kind = "sylve_zfs_volume"
      BY <3>5 DEF Requests, SylveZfsVolume
    <3>6. CASE kind = "sylve_vm"
      BY <3>6 DEF Requests, SylveVmVnc
    <3> QED
      BY <1>1, <1>4, <3>1, <3>2, <3>3, <3>4, <3>5, <3>6
  <2>2. DOMAIN Requests = {1} /\ Requests[1] = S
    BY <2>1
  <2>3. Attributes = S
    BY <2>2 DEF Attributes
  <2>4. Enabled \notin S
    BY <2>1 DEF Enabled
  <2>5. Update[kind].selective => Update[kind].readBack
    BY <1>1, <1>4 DEF SylveVmStorage, SylveVmNetwork, SylveNetworkObject,
       SylveZfsFilesystem, SylveZfsVolume, SylveVmVnc
  <2> QED
    BY <1>2, <2>2, <2>3, <2>4, <2>5
<1> QED
  BY <1>3, <1>4

\* The request made next is one of those left.
LEMMA CurrentIsLeft == ASSUME todo \subseteq 1 .. 4, todo # {} PROVE Current \in todo
<1>1. \E i \in todo : \A j \in todo : i <= j
  <2>1. CASE 1 \in todo
    BY <2>1
  <2>2. CASE 1 \notin todo /\ 2 \in todo
    BY <2>2
  <2>3. CASE 1 \notin todo /\ 2 \notin todo /\ 3 \in todo
    BY <2>3
  <2>4. CASE 1 \notin todo /\ 2 \notin todo /\ 3 \notin todo
    <3>1. \A j \in todo : j = 4
      BY <2>4
    <3>2. PICK i \in todo : i = 4
      BY <3>1
    <3> QED
      BY <3>1, <3>2
  <2> QED
    BY <2>1, <2>2, <2>3, <2>4
<1> QED
  BY <1>1 DEF Current, Min

------------------------------------------------------------------------------
(* The invariant.                                                          *)

Typed ==
  /\ kind \in Kinds
  /\ config \in Configs
  /\ plan \in Valuations /\ state \in Valuations /\ live \in Valuations
  /\ pc \in Done \cup Busy
  /\ todo \subseteq DOMAIN Requests
  /\ meddling \in Nat
  /\ \A q \in late : \A a \in DOMAIN q.values : q.values[a] \in Known

\* Requests that are left have something to change; the others have been made,
\* or had nothing to change.
Work ==
  pc \in Busy =>
    /\ todo # {}
    /\ \A i \in todo : \E b \in Requests[i] : plan[b] # state[b]
    /\ \A i \in DOMAIN Requests \ todo : \A a \in Requests[i] \ others :
         plan[a] \in Values => live[a] = plan[a]

\* Between the GET of SetVMVNC and its PUT the flag is the one in force, or somebody
\* else has changed that, or the GET came back empty.
Echo == pc = "fetched" => /\ kind = "sylve_vm"
                          /\ fetched = enabled \/ Enabled \in others \/ (misread /\ ~fetched)

UInv == Typed /\ Work /\ Echo /\ SuccessMeansLive

LEMMA UInit == Init => UInv
<1> SUFFICES ASSUME Init PROVE UInv
  OBVIOUS
<1>1. config \in Configs /\ Created \in Valuations
  BY DEF Init, Configs, Created, Valuations, Known
<1> QED
  BY <1>1 DEF Init, UInv, Typed, Work, Echo, SuccessMeansLive, Busy, Done

------------------------------------------------------------------------------
(* The steps.                                                              *)

\* After a refresh that is true, or that came back empty.
LEMMA RefreshStep ==
  ASSUME UInv, NEW seen \in Valuations, Refresh(seen),
         seen = Seen \/ seen = [a \in Attributes |-> Zero]
  PROVE  UInv'
<1> USE DEF Refresh, object
<1>1. Typed /\ kind' = kind /\ live' = live /\ plan' = Planned(seen) /\ state' = seen
  BY DEF UInv
<1>2. Requests' = Requests /\ Attributes' = Attributes
  BY <1>1 DEF Requests, Attributes
<1>3. config \in Valuations
  BY <1>1 DEF Typed, Configs, Valuations, Known
<1>4. plan' \in Valuations /\ state' \in Valuations
  BY <1>1, <1>3 DEF Planned, Valuations
<1>5. Typed'
  BY <1>1, <1>2, <1>4 DEF Typed, Valuations, Configs, Busy, Done, Known
<1>6. CASE plan' = state'
  BY <1>5, <1>6 DEF UInv, Work, Echo, SuccessMeansLive, Busy
<1>7. CASE plan' # state'
  <2>1. todo' = {i \in DOMAIN Requests : Needed(i, state', plan')} /\ pc' = "update"
    BY <1>7
  <2>2. PICK a \in Attributes : plan'[a] # state'[a]
    BY <1>4, <1>7 DEF Valuations
  <2>3. /\ \A i \in DOMAIN Requests : Requests[i] \subseteq Attributes
        /\ \A b \in Attributes : \E i \in DOMAIN Requests : b \in Requests[i]
        /\ Update[kind].selective => Update[kind].readBack
        /\ ~Update[kind].selective => \A i \in DOMAIN Requests : Requests[i] = Attributes
    BY <1>1, Shape DEF Typed
  <2>4. todo' # {}
    <3>1. PICK i \in DOMAIN Requests : a \in Requests[i]
      BY <2>3
    <3>2. Needed(i, state', plan')
      BY <2>2, <3>1 DEF Needed
    <3> QED
      BY <2>1, <3>2
  <2>5. ASSUME NEW i \in todo' PROVE \E b \in Requests[i] : plan'[b] # state'[b]
    <3>1. i \in DOMAIN Requests /\ Needed(i, state', plan')
      BY <2>1
    <3> QED
      BY <2>2, <2>3, <3>1 DEF Needed
  <2>6. ASSUME NEW i \in DOMAIN Requests \ todo', NEW b \in Requests[i], plan'[b] \in Values
        PROVE  live'[b] = plan'[b]
    <3>1. ~Needed(i, state', plan')
      BY <2>1
    <3>2. Update[kind].readBack /\ b \in Attributes /\ plan'[b] = seen[b]
      BY <1>1, <2>3, <3>1 DEF Needed
    <3>3. seen # [c \in Attributes |-> Zero]
      BY <2>6, <3>2
    <3> QED
      BY <1>1, <3>2, <3>3 DEF Seen
  <2>7. Work'
    BY <1>2, <2>4, <2>5, <2>6 DEF Work
  <2> QED
    BY <1>5, <2>1, <2>7 DEF UInv, Echo, SuccessMeansLive
<1> QED
  BY <1>6, <1>7

LEMMA BeginStep == ASSUME UInv, BeginApply \/ BeginApplyBlank PROVE UInv'
<1>1. Seen \in Valuations /\ [a \in Attributes |-> Zero] \in Valuations
  BY DEF UInv, Typed, Seen, Valuations, Known
<1> QED
  BY <1>1, RefreshStep DEF BeginApply, BeginApplyBlank

\* What a request writes, it writes as planned, and nothing else.
LEMMA WrittenIs ==
  ASSUME Typed, CarriedOut(Request), UNCHANGED kind
  PROVE  /\ live' \in Valuations
         /\ \A a \in Attributes : live'[a] = (IF a \in Sent THEN plan[a] ELSE live[a])
         /\ Requests' = Requests /\ Attributes' = Attributes
<1>1. live' = [a \in Attributes |-> IF a \in Sent THEN plan[a] ELSE live[a]]
  BY DEF CarriedOut, Request
<1>2. Requests' = Requests /\ Attributes' = Attributes
  BY DEF Requests, Attributes
<1> QED
  BY <1>1, <1>2 DEF Typed, Valuations

LEMMA RequestIsKnown ==
  ASSUME UInv, Sending
  PROVE  \A a \in DOMAIN Request.values : Request.values[a] \in Known
<1>1. Typed /\ Current \in DOMAIN Requests /\ Requests[Current] \subseteq Attributes
  <2>1. Typed /\ todo # {}
    BY DEF UInv, Work, Sending, Busy
  <2> QED
    BY <2>1, Shape, CurrentIsLeft DEF Typed
<1>2. Sent \subseteq Attributes /\ Request.values = [a \in Sent |-> plan[a]]
  BY <1>1 DEF Sent, Request
<1> QED
  BY <1>1, <1>2 DEF Typed, Valuations

LEMMA SendStep == ASSUME UInv, Send PROVE UInv'
<1>1. /\ Typed /\ Work /\ CarriedOut(Request) /\ pc \in Busy
      /\ UNCHANGED <<kind, config, plan, late, meddling>>
      /\ others' = others \ (Sent \cup {Enabled}) /\ todo' = todo \ {Current}
      /\ pc' = (IF todo' = {} THEN "ok" ELSE "update")
      /\ state' = (IF todo' = {} THEN plan ELSE state)
  BY DEF UInv, Send, Sending, Busy
<1>2. /\ live' \in Valuations
      /\ \A a \in Attributes : live'[a] = (IF a \in Sent THEN plan[a] ELSE live[a])
      /\ Requests' = Requests /\ Attributes' = Attributes
  BY <1>1, WrittenIs
<1>3. /\ \A i \in DOMAIN Requests : Requests[i] \subseteq Attributes
      /\ \A b \in Attributes : \E i \in DOMAIN Requests : b \in Requests[i]
      /\ Enabled \notin Attributes
  BY <1>1, Shape DEF Typed
<1>4. Current \in todo /\ \A a \in Requests[Current] : plan[a] \in Values => a \in Sent
  BY <1>1, Shape, CurrentIsLeft DEF Typed, Work, Sent
<1>5. Typed'
  BY <1>1, <1>2 DEF Typed, Valuations, Configs, Done, Busy
<1>6. ASSUME NEW i \in DOMAIN Requests \ todo', NEW a \in Requests[i] \ others', plan[a] \in Values
      PROVE  live'[a] = plan[a]
  <2>1. a \in Attributes /\ a # Enabled
    BY <1>3
  <2>2. CASE a \in Sent
    BY <1>2, <2>1, <2>2
  <2>3. CASE a \notin Sent
    <3>1. a \notin others /\ i \notin todo
      BY <1>1, <1>4, <1>6, <2>1, <2>3
    <3> QED
      BY <1>1, <1>2, <1>6, <2>1, <2>3, <3>1 DEF Work
  <2> QED
    BY <2>2, <2>3
<1>7. CASE todo' = {}
  <2>1. SuccessMeansLive'
    BY <1>1, <1>2, <1>3, <1>6, <1>7 DEF SuccessMeansLive
  <2> QED
    BY <1>1, <1>5, <1>7, <2>1 DEF UInv, Work, Echo, Busy
<1>8. CASE todo' # {}
  <2>1. Work'
    BY <1>1, <1>2, <1>6, <1>8 DEF Work
  <2> QED
    BY <1>1, <1>5, <1>8, <2>1 DEF UInv, Echo, SuccessMeansLive
<1> QED
  BY <1>7, <1>8

LEMMA FailStep == ASSUME UInv, RequestFails PROVE UInv'
<1>1. /\ Typed /\ UNCHANGED <<kind, config, plan, state, meddling>> /\ pc' = "failed" /\ todo' = {}
      /\ live' = live \/ CarriedOut(Request)
      /\ late' = late \/ (Sending /\ late' = late \cup {Request})
  BY DEF UInv, RequestFails, object
<1>2. live' \in Valuations /\ Attributes' = Attributes /\ Requests' = Requests
  BY <1>1, WrittenIs DEF Typed, Attributes, Requests
<1>3. ASSUME Sending PROVE \A a \in DOMAIN Request.values : Request.values[a] \in Known
  BY <1>3, RequestIsKnown DEF UInv
<1>4. \A q \in late' : \A a \in DOMAIN q.values : q.values[a] \in Known
  BY <1>1, <1>3 DEF Typed
<1>5. Typed'
  BY <1>1, <1>2, <1>4 DEF Typed, Valuations, Configs, Done
<1> QED
  BY <1>1, <1>5 DEF UInv, Work, Echo, SuccessMeansLive, Busy

\* The operator changes the object, or a request arrives that was given up on.
LEMMA OthersStep ==
  ASSUME UInv,
         UNCHANGED <<kind, config, plan, state, vnc, pc, todo>>, meddling' \in Nat,
         late' \subseteq late, others \subseteq others', live' \in Valuations,
         \A a \in Attributes : live'[a] # live[a] => a \in others',
         enabled' # enabled => Enabled \in others'
  PROVE  UInv'
<1>1. Typed /\ Work /\ Echo /\ SuccessMeansLive
  BY DEF UInv
<1>2. Attributes' = Attributes /\ Requests' = Requests
  BY DEF Attributes, Requests
<1>3. \A i \in DOMAIN Requests : Requests[i] \subseteq Attributes
  BY <1>1, Shape DEF Typed
<1>4. Typed'
  BY <1>1, <1>2 DEF Typed, Valuations, Configs
<1>5. Work'
  BY <1>1, <1>2, <1>3 DEF Work
<1>6. Echo' /\ SuccessMeansLive'
  BY <1>1, <1>2 DEF Echo, SuccessMeansLive, vnc
<1> QED
  BY <1>4, <1>5, <1>6 DEF UInv

LEMMA ArriveStep == ASSUME UInv, RequestArrives PROVE UInv'
<1>1. PICK q \in late : /\ CarriedOut(q) /\ late' = late \ {q}
                        /\ others' = others \cup DOMAIN q.values \cup {Enabled}
  BY DEF RequestArrives
<1>2. live' = [a \in Attributes |-> IF a \in DOMAIN q.values THEN q.values[a] ELSE live[a]]
  BY <1>1 DEF CarriedOut
<1>3. live' \in Valuations
  BY <1>2 DEF UInv, Typed, Valuations
<1>4. \A a \in Attributes : live'[a] # live[a] => a \in others'
  BY <1>1, <1>2
<1> QED
  BY <1>1, <1>3, <1>4, OthersStep DEF RequestArrives, UInv, Typed

LEMMA MeddleStep == ASSUME UInv, Meddle PROVE UInv'
<1>1. /\ UNCHANGED <<kind, config, plan, state, vnc, late, pc, todo>> /\ meddling' \in Nat
      /\ others \subseteq others'
  BY DEF UInv, Meddle, Typed
<1>2. /\ live' \in Valuations
      /\ \A a \in Attributes : live'[a] # live[a] => a \in others'
      /\ enabled' # enabled => Enabled \in others'
  BY DEF UInv, Meddle, Typed, Valuations, Known
<1> QED
  BY <1>1, <1>2, OthersStep

LEMMA UStep == UInv /\ [Next]_vars => UInv'
<1> SUFFICES ASSUME UInv, [Next]_vars PROVE UInv'
  OBVIOUS
<1> USE DEF UInv, Typed, Work, Echo, SuccessMeansLive, Valuations, Configs, Requests,
            Attributes, object, vnc, Known
<1>1. CASE EditConfig
  BY <1>1 DEF EditConfig, Busy, Done
<1>2. CASE Fetch \/ FetchBlank
  <2>1. Enabled \notin Attributes /\ \A i \in DOMAIN Requests : Requests[i] \subseteq Attributes
    BY Shape
  <2>2. /\ UNCHANGED <<kind, config, plan, state, object, late, todo, meddling>>
        /\ pc = "update" /\ pc' = "fetched" /\ kind = "sylve_vm"
        /\ others' = others \/ others' = others \ {Enabled}
        /\ fetched' = enabled \/ (misread' /\ ~fetched')
    BY <1>2 DEF Fetch, FetchBlank, Fetching
  <2>3. Typed'
    BY <2>2 DEF Busy
  <2>4. Work'
    BY <2>1, <2>2 DEF Busy
  <2>5. Echo' /\ SuccessMeansLive'
    BY <2>2
  <2> QED
    BY <2>3, <2>4, <2>5
<1>3. CASE UNCHANGED vars
  BY <1>3 DEF vars
<1> QED
  BY <1>1, <1>2, <1>3, BeginStep, SendStep, FailStep, ArriveStep, MeddleStep DEF Next, Step

\* At every place of an Update, of any kind, what is left to be sent differs, and
\* what is not left is in force, but for what others have changed.
THEOREM UpdateInvariant == Spec => []UInv
BY UInit, UStep, PTL DEF Spec

\* An Update that reports success has brought every attribute of the plan to
\* Sylve, after any number of failed ones, for every kind in the table.
\* (jail_resource.go:318-355, vm_storage_resource.go:273-319,
\* zfs_filesystem_resource.go:188-212)
THEOREM UpdateArrives == Spec => []SuccessMeansLive
<1>1. UInv => SuccessMeansLive
  BY DEF UInv
<1> QED
  BY <1>1, UpdateInvariant, PTL

\* A request is made only for an attribute that differs, and changes nothing but
\* what it carries. (jail_resource.go:327-350, vm_resource.go:629-630)
THEOREM UpdateSelective == Spec => OnlyDifferencesPushed
<1> DEFINE Justified ==
      \A a \in Attributes :
        live'[a] # live[a] /\ meddling' = meddling /\ late \subseteq late' =>
          \E i \in DOMAIN Requests :
            a \in Requests[i] /\ \E b \in Requests[i] : plan[b] # state[b]
<1>1. ASSUME UInv, [Next]_vars PROVE [Justified]_vars
  <2>1. CASE UNCHANGED live
    BY <2>1
  <2>2. CASE CarriedOut(Request) /\ pc \in Busy /\ UNCHANGED kind
    <3>1. Typed /\ Work
      BY <1>1 DEF UInv
    <3>2. Current \in todo /\ Current \in DOMAIN Requests
      BY <2>2, <3>1, Shape, CurrentIsLeft DEF Typed, Work
    <3>3. \E b \in Requests[Current] : plan[b] # state[b]
      BY <2>2, <3>1, <3>2 DEF Work
    <3>4. \A a \in Attributes : live'[a] # live[a] => a \in Requests[Current]
      BY <2>2, <3>1, WrittenIs DEF Sent
    <3> QED
      BY <3>2, <3>3, <3>4
  <2>3. CASE Meddle
    BY <1>1, <2>3 DEF Meddle, UInv, Typed, BoundsAssumption
  <2>4. CASE RequestArrives
    BY <2>4 DEF RequestArrives
  <2> QED
    BY <1>1, <2>1, <2>2, <2>3, <2>4 DEF Next, Step, BeginApply, BeginApplyBlank, Refresh, EditConfig,
       Fetch, FetchBlank, Fetching, Send, RequestFails, Sending, Busy, object, vars
<1> QED
  BY <1>1, UpdateInvariant, PTL DEF Spec, OnlyDifferencesPushed

\* A change of VNC settings switches VNC on or off only where the operator has done
\* so since SetVMVNC read the flag, or where that GET came back empty; and then it
\* only goes off, whatever calls fail. (vm.go:352-366)
THEOREM UpdateKeepsEnabled == Spec => EnabledKept
<1> DEFINE Kept == Switched => Enabled \in others \/ (misread /\ ~enabled')
<1>1. ASSUME UInv, [Next]_vars PROVE [Kept]_vars
  <2>1. CASE UNCHANGED enabled
    BY <2>1 DEF Switched
  <2>2. CASE CarriedOut(Request) /\ Sending
    BY <1>1, <2>2 DEF UInv, Echo, CarriedOut, Request, Sending, Switched
  <2>3. CASE Meddle
    BY <1>1, <2>3 DEF Meddle, UInv, Typed, Switched
  <2>4. CASE RequestArrives
    BY <2>4 DEF RequestArrives, Switched
  <2> QED
    BY <1>1, <2>1, <2>2, <2>3, <2>4 DEF Next, Step, BeginApply, BeginApplyBlank, Refresh, EditConfig,
       Fetch, FetchBlank, Send, RequestFails, object, vars
<1> QED
  BY <1>1, UpdateInvariant, PTL DEF Spec, EnabledKept
=============================================================================
