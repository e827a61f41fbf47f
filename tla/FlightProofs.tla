---------------------------- MODULE FlightProofs ----------------------------
(***************************************************************************)
(* The result set of the Flight SQL driver, and the sessions of a Flight   *)
(* server.                                                                 *)
(*                                                                         *)
(* Rows.Close leaves nothing behind, for any endpoints, any capacity of    *)
(* recordChan and a context that may be cancelled at any time.  A batch is *)
(* counted where it is: with the goroutine that is about to send it, in    *)
(* the channel, or with the Rows as the current record (RowsInv).  The     *)
(* goroutine closes the channel as its last step, and Close drains until   *)
(* then.                                                                   *)
(*                                                                         *)
(* The stateful session manager never forgets an open session, for any     *)
(* clients, calls and option names, however calls overlap and their        *)
(* answers are delayed (SessionInv).  Every cookie in the system names a   *)
(* session that was made; an open session is in the store from the step    *)
(* that makes it; only a call that has found its session closed removes    *)
(* it, and a closed session stays closed.                                  *)
(***************************************************************************)
EXTENDS SqlRows, Sessions, TLAPS

Batch == Nat \X Nat

RowsTypes ==
    /\ recordChan \in Seq(Batch)
    /\ current \in Batch \cup {None}
    /\ ep \in Nat
    /\ batch \in Nat
    /\ live \in Int

Sending == IF spc = "send" THEN 1 ELSE 0
Holding == IF current = None THEN 0 ELSE 1

\* Every reference is in exactly one place.
Placed == live = Len(recordChan) + Sending + Holding

\* The goroutine closes the channel when it ends, and sends nothing after that.
Ends == chanClosed => spc = "done"

\* A caller that receives has let go of the last record; one in Close has none, and leaves
\* with the channel closed and empty.
Closing ==
    /\ qpc \in {"receive", "drain", "closed"} => current = None
    /\ qpc = "closed" => chanClosed /\ recordChan = << >>

RowsInv == RowsTypes /\ Placed /\ Ends /\ Closing

LEMMA NoneIsNoBatch == \A b \in Batch : b # None
BY DEF Batch, None

\* A reference that comes or goes is counted in one place.
LEMMA Tally ==
    ASSUME RowsTypes, RowsTypes', Placed,
           live' + (Len(recordChan) + Sending + Holding)
               = live + (Len(recordChan') + Sending' + Holding')
    PROVE  Placed'
<1>1. /\ Len(recordChan) \in Int /\ Len(recordChan') \in Int
      /\ live \in Int /\ live' \in Int
  BY DEF RowsTypes
<1>2. Sending \in Int /\ Sending' \in Int /\ Holding \in Int /\ Holding' \in Int
  BY DEF Sending, Holding
<1>3. live' = Len(recordChan') + Sending' + Holding'
  BY <1>1, <1>2 DEF Placed
<1> QED
  BY <1>3 DEF Placed

LEMMA InitRows == Init => RowsInv
BY DEF Init, RowsInv, RowsTypes, Placed, Sending, Holding, Ends, Closing, Batch, None

\* The steps of the goroutine: streamRecordset and sendRecord.
LEMMA StreamStep == RowsInv /\ Stream => RowsInv'
<1> SUFFICES ASSUME RowsInv, Stream PROVE RowsInv'
  OBVIOUS
<1>0. RowsTypes /\ Placed /\ Ends /\ Closing
  BY DEF RowsInv
<1>1. CASE NextEndpoint \/ DoGet \/ ReadBatch \/ ReadEnd
  <2>1. /\ UNCHANGED <<recordChan, chanClosed, current, qpc>>
        /\ spc # "done" /\ spc # "send"
        /\ ep' \in Nat /\ batch' \in Nat
        /\ \/ spc' # "send" /\ live' = live
           \/ spc' = "send" /\ live' = live + 1
    BY <1>0, <1>1 DEF NextEndpoint, DoGet, ReadBatch, ReadEnd, RowsTypes, chanVars, initVars, rowVars
  <2>2. RowsTypes' /\ Ends' /\ Closing'
    BY <1>0, <2>1 DEF RowsTypes, Ends, Closing
  <2>3. Sending = 0 /\ live' = live + Sending' /\ live \in Int /\ Holding' = Holding
    BY <1>0, <2>1 DEF Sending, Holding, RowsTypes
  <2>4. Holding \in Int /\ Len(recordChan) \in Nat /\ Sending' \in Int
    BY <1>0 DEF Holding, Sending, RowsTypes
  <2>5. Placed'
    BY <1>0, <2>1, <2>2, <2>3, <2>4, Tally
  <2> QED
    BY <2>2, <2>5 DEF RowsInv
<1>2. CASE sendRecord
  <2>1. <<ep, batch>> \in Batch
    BY <1>0 DEF RowsTypes, Batch
  <2>2. /\ UNCHANGED <<ep, batch, chanClosed, current, qpc>>
        /\ spc = "send" /\ spc' # "send" /\ ~chanClosed
        /\ \/ recordChan' = Append(recordChan, <<ep, batch>>) /\ live' = live
           \/ recordChan' = recordChan /\ live' = live - 1
    BY <1>0, <1>2 DEF sendRecord, rowVars, Ends
  <2>3. RowsTypes' /\ Ends' /\ Closing'
    BY <1>0, <2>1, <2>2 DEF RowsTypes, Ends, Closing
  <2>4. /\ Len(recordChan) \in Nat
        /\ \/ Len(recordChan') = Len(recordChan) + 1 /\ live' = live
           \/ Len(recordChan') = Len(recordChan) /\ live' = live - 1
    BY <1>0, <2>1, <2>2 DEF RowsTypes
  <2>5. /\ Sending = 1 /\ Sending' = 0 /\ Holding' = Holding
        /\ Holding \in Int /\ live \in Int
    BY <1>0, <2>2 DEF Sending, Holding, RowsTypes
  <2>6. Placed'
    BY <1>0, <2>3, <2>4, <2>5, Tally
  <2> QED
    BY <2>3, <2>6 DEF RowsInv
<1>3. CASE AwaitInitialized \/ CloseChan
  <2>1. /\ UNCHANGED <<ep, batch, recordChan, current, qpc, live>>
        /\ spc # "send" /\ spc' # "send" /\ spc # "done"
        /\ chanClosed' = chanClosed \/ (chanClosed' /\ spc' = "done")
    BY <1>3 DEF AwaitInitialized, CloseChan, chanVars, initVars, rowVars
  <2> QED
    BY <1>0, <2>1 DEF RowsInv, RowsTypes, Placed, Sending, Holding, Ends, Closing
<1> QED
  BY <1>1, <1>2, <1>3 DEF Stream

\* The steps of the caller: QueryContext, Next and Close.
LEMMA CallerStep == RowsInv /\ (InCall \/ NextRow \/ NextRecord \/ Close) => RowsInv'
<1> SUFFICES ASSUME RowsInv, InCall \/ NextRow \/ NextRecord \/ Close PROVE RowsInv'
  OBVIOUS
<1>0. RowsTypes /\ Placed /\ Ends /\ Closing
  BY DEF RowsInv
<1>1. CASE Initialized \/ ReceiveClosed \/ NextRow
  <2>1. UNCHANGED <<spc, ep, batch, recordChan, chanClosed, current, live>>
    BY <1>1 DEF Initialized, ReceiveClosed, NextRow, streamVars, chanVars, rowVars
  <2>2. qpc' \notin {"receive", "drain", "closed"}
    BY <1>1 DEF Initialized, ReceiveClosed, NextRow
  <2> QED
    BY <1>0, <2>1, <2>2 DEF RowsInv, RowsTypes, Placed, Sending, Holding, Ends, Closing
<1>2. CASE Receive
  <2>1. /\ recordChan # << >> /\ recordChan' = Tail(recordChan)
        /\ qpc = "receive" /\ qpc' = "idle"
        /\ current' = Head(recordChan)
        /\ UNCHANGED <<spc, ep, batch, chanClosed, live>>
    BY <1>2 DEF Receive, streamVars
  <2>2. /\ Head(recordChan) \in Batch
        /\ recordChan' \in Seq(Batch)
        /\ Len(recordChan') = Len(recordChan) - 1 /\ Len(recordChan) \in Nat
    BY <1>0, <2>1 DEF RowsTypes
  <2>3. RowsTypes' /\ Ends' /\ Closing'
    BY <1>0, <2>1, <2>2 DEF RowsTypes, Ends, Closing
  <2>4. /\ Holding = 0 /\ Holding' = 1
        /\ Sending' = Sending /\ Sending \in Int
        /\ live' = live /\ live \in Int
    BY <1>0, <2>1, <2>2, NoneIsNoBatch DEF Holding, Sending, Closing, RowsTypes
  <2>5. Placed'
    BY <1>0, <2>2, <2>3, <2>4, Tally
  <2> QED
    BY <2>3, <2>5 DEF RowsInv
<1>3. CASE Drain
  <2>1. /\ UNCHANGED <<spc, ep, batch, chanClosed, current>> /\ qpc = "drain"
        /\ \/ recordChan # << >> /\ recordChan' = Tail(recordChan) /\ live' = live - 1 /\ qpc' = qpc
           \/ recordChan = << >> /\ chanClosed /\ qpc' = "closed" /\ UNCHANGED <<recordChan, live>>
    BY <1>3 DEF Drain, streamVars, rowVars
  <2>2. RowsTypes' /\ Ends' /\ Closing'
    BY <1>0, <2>1 DEF RowsTypes, Ends, Closing
  <2>3. /\ Len(recordChan) \in Nat
        /\ \/ Len(recordChan') = Len(recordChan) - 1 /\ live' = live - 1
           \/ Len(recordChan') = Len(recordChan) /\ live' = live
    BY <1>0, <2>1 DEF RowsTypes
  <2>4. /\ Holding' = Holding /\ Holding \in Int
        /\ Sending' = Sending /\ Sending \in Int /\ live \in Int
    BY <1>0, <2>1 DEF Holding, Sending, RowsTypes
  <2>5. Placed'
    BY <1>0, <2>2, <2>3, <2>4, Tally
  <2> QED
    BY <2>2, <2>5 DEF RowsInv
<1>4. CASE NextRecord \/ Close
  <2>1. /\ UNCHANGED <<spc, ep, batch, recordChan, chanClosed>>
        /\ qpc' \in {"receive", "drain"} /\ current' = None
        /\ live' = live - IF current = None THEN 0 ELSE 1
    BY <1>4 DEF NextRecord, Close, ReleaseCurrent, streamVars, chanVars
  <2>2. RowsTypes' /\ Ends' /\ Closing'
    BY <1>0, <2>1 DEF RowsTypes, Ends, Closing
  <2>3. /\ live' = live - Holding /\ Holding' = 0 /\ Holding \in Int
        /\ Sending' = Sending /\ Sending \in Int
        /\ live \in Int /\ Len(recordChan) \in Nat
    BY <1>0, <2>1 DEF Holding, Sending, RowsTypes
  <2>4. Placed'
    BY <1>0, <2>1, <2>2, <2>3, Tally
  <2> QED
    BY <2>2, <2>4 DEF RowsInv
<1> QED
  BY <1>1, <1>2, <1>3, <1>4 DEF InCall

LEMMA StepRows == RowsInv /\ [Next]_vars => RowsInv'
<1> SUFFICES ASSUME RowsInv, [Next]_vars PROVE RowsInv'
  OBVIOUS
<1>1. CASE Cancel
  BY <1>1 DEF Cancel, RowsInv, RowsTypes, Placed, Sending, Holding, Ends, Closing,
              streamVars, chanVars, initVars, rowVars
<1>2. CASE UNCHANGED vars
  BY <1>2 DEF vars, RowsInv, RowsTypes, Placed, Sending, Holding, Ends, Closing,
              streamVars, chanVars, initVars, rowVars
<1> QED
  BY <1>1, <1>2, StreamStep, CallerStep DEF Next

\* When Close has returned, the Rows, the channel and the goroutine hold no record batch,
\* and the goroutine has closed the channel: Rows.Close releases the current record and
\* drains recordChan, and sendRecord releases what it cannot send.
THEOREM CloseReleases == Spec => []ClosedReleasesAll
<1>1. RowsInv => ClosedReleasesAll
  <2> SUFFICES ASSUME RowsInv, qpc = "closed" PROVE live = 0 /\ chanClosed
    BY DEF ClosedReleasesAll
  <2> QED
    BY DEF RowsInv, RowsTypes, Placed, Sending, Holding, Ends, Closing
<1> QED
  BY <1>1, InitRows, StepRows, PTL DEF Spec

-----------------------------------------------------------------------------
Ids == 1 .. Len(sessions)
Cookies == {<< "id", s >> : s \in Ids}
Session == [closed : BOOLEAN, options : SUBSET Names]

NoOp == << "none", "" >>
AnyOp == Ops \cup {NoOp}

Places == {"idle", "get", "check", "create", "handle", "complete", "remove", "answered", "done"}

Call == [pc : Places, client : Clients \cup {0}, cookie : Cookies \cup {NoCookie},
         session : Nat, header : Cookies \cup {Nothing}, trailer : Cookies \cup {Nothing, Deleted},
         op : AnyOp]

SessionTypes ==
    /\ sessions \in Seq(Session)
    /\ jar \in [Clients -> Cookies \cup {NoCookie}]
    /\ call \in [Calls -> Call]

\* The manager's lookups and the handlers are given sessions that exist.
Serves ==
    \A k \in Calls : call[k].pc \in {"check", "handle", "complete", "remove"} =>
        call[k].session \in Ids

\* CallCompleted has seen the session closed.
Removes == \A k \in Calls : call[k].pc = "remove" => sessions[call[k].session].closed

\* An open session is in the store.
Kept == \A s \in Ids : ~sessions[s].closed => s \in store

Stateful == SessionTypes /\ Serves /\ Removes /\ Kept

SessionInv == manager = "stateful" => Stateful

-----------------------------------------------------------------------------
LEMMA CookieNames ==
    \A x \in Cookies : x # NoCookie /\ x # Nothing /\ x # Deleted /\ x[2] \in Ids
BY DEF Cookies, NoCookie, Nothing, Deleted

\* A call that has not started.
LEMMA IdleCall == NoCall \in Call /\ NoCall.pc = "idle"
<1>1. NoOp \in AnyOp
  BY DEF AnyOp
<1>2. NoCall = [pc |-> "idle", client |-> 0, cookie |-> NoCookie, session |-> 0,
              header |-> Nothing, trailer |-> Nothing, op |-> NoOp]
  BY DEF NoCall, NoOp
<1>3. /\ "idle" \in Places
      /\ NoCookie \in Cookies \cup {NoCookie} /\ Nothing \in Cookies \cup {Nothing}
      /\ Nothing \in Cookies \cup {Nothing, Deleted} /\ 0 \in Clients \cup {0}
  BY DEF Places
<1> HIDE DEF NoOp
<1>4. NoCall \in Call
  BY <1>1, <1>2, <1>3, Zenon DEF Call
<1> QED
  BY <1>2, <1>4

LEMMA InitSession == SessionInit => SessionInv
<1> SUFFICES ASSUME SessionInit PROVE Stateful
  BY DEF SessionInv
<1>1. SessionTypes
  <2>1. << >> \in Seq(Session)
    OBVIOUS
  <2>2. sessions \in Seq(Session) /\ jar \in [Clients -> Cookies \cup {NoCookie}]
    BY <2>1 DEF SessionInit
  <2>3. call \in [Calls -> Call]
    BY IdleCall DEF SessionInit
  <2> QED
    BY <2>2, <2>3 DEF SessionTypes
<1>2. \A k \in Calls : call[k].pc = "idle"
  BY IdleCall DEF SessionInit
<1>3. Ids = {}
  BY DEF SessionInit, Ids
<1>4. Serves /\ Removes /\ Kept
  BY <1>2, <1>3 DEF Serves, Removes, Kept
<1> QED
  BY <1>1, <1>4 DEF Stateful

\* The client's steps leave the sessions and the store alone.
LEMMA ClientStep ==
    ASSUME Stateful, NEW k \in Calls,
           \/ \E c \in Clients, op \in Ops : StartCall(k, c, op)
           \/ HeadersReceived(k) \/ TrailersReceived(k)
    PROVE  Stateful'
<1>0. SessionTypes /\ Serves /\ Removes /\ Kept
  BY DEF Stateful
<1>1. UNCHANGED <<sessions, store>>
  BY Zenon DEF StartCall, HeadersReceived, TrailersReceived
<1>2. Ids' = Ids /\ Cookies' = Cookies /\ Call' = Call
  BY <1>1, Zenon DEF Ids, Cookies, Call
<1>3. /\ jar' \in [Clients -> Cookies \cup {NoCookie}]
      /\ call' \in [Calls -> Call]
      /\ \A j \in Calls : j # k => call'[j] = call[j]
      /\ call'[k].pc \in {"get", "done"} \/ (call'[k].pc = call[k].pc /\ call'[k].session = call[k].session)
  <2>1. CASE \E c \in Clients, op \in Ops : StartCall(k, c, op)
    <3>1. PICK c \in Clients, op \in Ops : StartCall(k, c, op)
      BY <2>1
    <3>2. /\ jar' = jar /\ jar[c] \in Cookies \cup {NoCookie}
          /\ call' = [call EXCEPT ![k] = [NoCall EXCEPT !.pc = "get", !.client = c, !.cookie = jar[c],
                                                      !.op = op]]
      BY <1>0, <3>1, Zenon DEF StartCall, SessionTypes
    <3>3. /\ [NoCall EXCEPT !.pc = "get", !.client = c, !.cookie = jar[c], !.op = op] \in Call
          /\ [NoCall EXCEPT !.pc = "get", !.client = c, !.cookie = jar[c], !.op = op].pc = "get"
      BY <3>2, IdleCall, Zenon DEF AnyOp, Call, Places
    <3> QED
      BY <1>0, <3>2, <3>3 DEF SessionTypes
  <2>2. CASE HeadersReceived(k)
    <3>1. call[k].header \in Cookies /\ call[k] \in Call
      BY <1>0, <2>2 DEF HeadersReceived, SessionTypes, Call
    <3>2. SetCookie(jar[call[k].client], call[k].header) = call[k].header
      BY <3>1, CookieNames DEF SetCookie
    <3>3. jar' \in [Clients -> Cookies \cup {NoCookie}]
      BY <1>0, <2>2, <3>1, <3>2, Zenon DEF HeadersReceived, SessionTypes
    <3>4. call' = [call EXCEPT ![k].header = Nothing]
      BY <2>2 DEF HeadersReceived
    <3>5. [call[k] EXCEPT !.header = Nothing] \in Call
      BY <3>1 DEF Call
    <3> QED
      BY <1>0, <3>3, <3>4, <3>5, Zenon DEF SessionTypes, Call
  <2>3. CASE TrailersReceived(k)
    <3>1. call[k].header \in Cookies \cup {Nothing} /\ call[k].client \in Clients \cup {0}
          /\ call[k].trailer \in Cookies \cup {Nothing, Deleted}
      BY <1>0 DEF SessionTypes, Call
    <3>2. \A old \in Cookies \cup {NoCookie} : \A new \in Cookies \cup {Nothing, Deleted} :
              SetCookie(old, new) \in Cookies \cup {NoCookie}
      BY CookieNames DEF SetCookie, Nothing, Deleted
    <3>3. jar' \in [Clients -> Cookies \cup {NoCookie}]
      BY <1>0, <2>3, <3>1, <3>2, Zenon DEF TrailersReceived, SessionTypes
    <3>4. /\ call' = [call EXCEPT ![k] = [NoCall EXCEPT !.pc = "done", !.client = call[k].client]]
          /\ [NoCall EXCEPT !.pc = "done", !.client = call[k].client] \in Call
          /\ [NoCall EXCEPT !.pc = "done", !.client = call[k].client].pc = "done"
      <4>1. call' = [call EXCEPT ![k] = [NoCall EXCEPT !.pc = "done", !.client = call[k].client]]
        BY <2>3 DEF TrailersReceived
      <4> QED
        BY <4>1, <3>1, IdleCall, Zenon DEF Call, Places
    <3> QED
      BY <1>0, <3>3, <3>4 DEF SessionTypes
  <2> QED
    BY <2>1, <2>2, <2>3
<1>4. SessionTypes'
  BY <1>0, <1>1, <1>2, <1>3, Zenon DEF SessionTypes
<1>5. Serves' /\ Removes' /\ Kept'
  BY <1>0, <1>1, <1>2, <1>3, Zenon DEF Serves, Removes, Kept
<1> QED
  BY <1>4, <1>5 DEF Stateful

\* What a step of the server that makes no session owes the invariant: its call's place,
\* session, header and trailer, and a session that does not open again.
LEMMA ServerStep ==
    ASSUME Stateful, NEW k \in Calls, NEW next \in Call,
           sessions' \in Seq(Session), Len(sessions') = Len(sessions), jar' = jar,
           call' = [call EXCEPT ![k] = next],
           next.pc \in {"check", "handle", "complete", "remove"} => next.session \in Ids,
           next.pc = "remove" => sessions'[next.session].closed,
           \A s \in Ids : sessions[s].closed => sessions'[s].closed,
           \A s \in Ids : ~sessions'[s].closed /\ s \in store => s \in store'
    PROVE  Stateful'
<1>0. SessionTypes /\ Serves /\ Removes /\ Kept
  BY DEF Stateful
<1>1. Ids' = Ids
  BY DEF Ids
<1>2. Cookies' = Cookies /\ Call' = Call
  BY <1>1 DEF Cookies, Call
<1>3. \A j \in Calls : call'[j] = IF j = k THEN next ELSE call[j]
  BY <1>0 DEF SessionTypes
<1>4. SessionTypes'
  BY <1>0, <1>2 DEF SessionTypes
<1>5. Serves'
  BY <1>0, <1>1, <1>3 DEF Serves
<1>6. Removes'
  BY <1>0, <1>3 DEF Removes, Serves
<1>7. Kept'
  <2>1. sessions \in Seq(Session) /\ \A s \in Ids : sessions[s].closed \in BOOLEAN
    <3>1. \A s \in Ids : sessions[s] \in Session
      BY <1>0 DEF SessionTypes, Ids
    <3> QED
      BY <1>0, <3>1 DEF SessionTypes, Session
  <2> QED
    BY <1>0, <1>1, <2>1, Zenon DEF Kept
<1> QED
  BY <1>4, <1>5, <1>6, <1>7, Zenon DEF Stateful

\* GetSession, CheckClosed, CallCompleted and CloseSession leave the sessions as they are.
LEMMA ManagerStep ==
    ASSUME Stateful, manager = "stateful", NEW k \in Calls,
           GetSession(k) \/ CheckClosed(k) \/ CallCompleted(k) \/ CloseSession(k)
    PROVE  Stateful'
<1>0. SessionTypes /\ Serves /\ Removes /\ Kept
  BY DEF Stateful
<1>a. call[k] \in Call /\ sessions \in Seq(Session)
  BY <1>0 DEF SessionTypes
<1>1. CASE GetSession(k)
  <2>1. UNCHANGED <<sessions, store, jar>>
    BY <1>1 DEF GetSession
  <2>2. CASE call' = [call EXCEPT ![k].pc = "create"]
    <3>1. [call[k] EXCEPT !.pc = "create"] \in Call /\ [call[k] EXCEPT !.pc = "create"].pc = "create"
      BY <1>a DEF Call, Places
    <3>2. call' = [call EXCEPT ![k] = [call[k] EXCEPT !.pc = "create"]]
      BY <2>2, <1>0 DEF SessionTypes
    <3> QED
      BY <1>a, <2>1, <3>1, <3>2, ServerStep, Zenon
  <2>3. CASE /\ ~NotFound(call[k].cookie)
             /\ call' = [call EXCEPT ![k].pc = "check", ![k].session = call[k].cookie[2]]
    <3>1. call[k].cookie \in Cookies
      BY <1>a, <2>3 DEF Call, NotFound
    <3>2. call[k].cookie[2] \in Ids /\ Ids \subseteq Nat
      BY <3>1, CookieNames DEF Ids
    <3> DEFINE next == [call[k] EXCEPT !.pc = "check", !.session = call[k].cookie[2]]
    <3>3. next \in Call /\ next.pc = "check" /\ next.session \in Ids
      BY <1>a, <3>2, Zenon DEF Call, Places
    <3>4. call' = [call EXCEPT ![k] = next]
      BY <2>3, <1>0, Zenon DEF SessionTypes
    <3> HIDE DEF next
    <3> QED
      BY <1>a, <2>1, <3>3, <3>4, ServerStep, Zenon
  <2> QED
    BY <1>1, <2>2, <2>3, Zenon DEF GetSession
<1>2. CASE CheckClosed(k)
  <2>1. /\ UNCHANGED <<sessions, store, jar>> /\ call[k].pc = "check"
        /\ \E pc \in {"create", "handle"} : call' = [call EXCEPT ![k].pc = pc]
    BY <1>2, Zenon DEF CheckClosed, At
  <2>2. PICK pc \in {"create", "handle"} : call' = [call EXCEPT ![k].pc = pc]
    BY <2>1, Zenon
  <2> DEFINE next == [call[k] EXCEPT !.pc = pc]
  <2>3. /\ next \in Call /\ next.pc = pc /\ next.session = call[k].session
        /\ call' = [call EXCEPT ![k] = next]
    BY <1>a, <1>0, <2>2, Zenon DEF Call, Places, SessionTypes
  <2>4. call[k].session \in Ids
    BY <1>0, <2>1 DEF Serves
  <2> HIDE DEF next
  <2> QED
    BY <1>a, <2>1, <2>2, <2>3, <2>4, ServerStep, Zenon
<1>3. CASE CallCompleted(k)
  <2>1. /\ UNCHANGED <<sessions, store, jar>> /\ call[k].pc = "complete"
        /\ call[k].session \in Ids
    BY <1>0, <1>3 DEF CallCompleted, At, Serves
  <2>2. Token(call[k].session) \in Cookies
    BY <2>1, Zenon DEF Token, Cookies
  <2>3. PICK pc \in {"answered", "remove"}, c \in Cookies \cup {Nothing, Deleted} :
            /\ call' = [call EXCEPT ![k].pc = pc, ![k].trailer = c]
            /\ pc = "remove" => sessions[call[k].session].closed
    BY <1>3, <2>2 DEF CallCompleted
  <2> DEFINE next == [call[k] EXCEPT !.pc = pc, !.trailer = c]
  <2>4. /\ next \in Call /\ next.pc = pc /\ next.session = call[k].session
        /\ call' = [call EXCEPT ![k] = next]
    BY <1>a, <1>0, <2>3, Zenon DEF Call, Places, SessionTypes
  <2> HIDE DEF next
  <2> QED
    BY <1>a, <2>1, <2>3, <2>4, ServerStep, Zenon
<1>4. CASE CloseSession(k)
  <2>1. /\ UNCHANGED <<sessions, jar>> /\ call[k].pc = "remove"
        /\ store' = store \ {call[k].session}
        /\ call' = [call EXCEPT ![k].pc = "answered"]
    BY <1>4 DEF CloseSession, At
  <2>2. sessions[call[k].session].closed
    BY <1>0, <2>1 DEF Removes
  <2> DEFINE next == [call[k] EXCEPT !.pc = "answered"]
  <2>3. next \in Call /\ next.pc = "answered" /\ call' = [call EXCEPT ![k] = next]
    BY <1>a, <1>0, <2>1, Zenon DEF Call, Places, SessionTypes
  <2> HIDE DEF next
  <2> QED
    BY <1>a, <2>1, <2>2, <2>3, ServerStep, Zenon
<1> QED
  BY <1>1, <1>2, <1>3, <1>4

\* A handler leaves a closed session closed.
LEMMA HandlerStep ==
    ASSUME Stateful, manager = "stateful", NEW k \in Calls, At(k, "handle"),
           NEW options \in SUBSET Names, NEW closed \in BOOLEAN,
           sessions[call[k].session].closed => closed,
           Handled(k, options, closed)
    PROVE  Stateful'
<1>0. SessionTypes /\ Serves /\ Removes /\ Kept
  BY DEF Stateful
<1>1. call[k] \in Call /\ sessions \in Seq(Session) /\ call[k].session \in Ids
  BY <1>0 DEF SessionTypes, Serves, At
<1> DEFINE made == [closed |-> closed, options |-> options]
           next == [call[k] EXCEPT !.pc = "complete"]
<1>2. made \in Session /\ made.closed = closed
  BY DEF Session
<1>3. /\ next \in Call /\ next.pc = "complete" /\ next.session = call[k].session
      /\ call' = [call EXCEPT ![k] = next]
  BY <1>0, <1>1 DEF Call, Places, SessionTypes, Handled
<1>4. sessions' = [sessions EXCEPT ![call[k].session] = made] /\ UNCHANGED <<store, jar>>
  BY DEF Handled
<1> HIDE DEF made, next
<1>5. /\ sessions' \in Seq(Session) /\ Len(sessions') = Len(sessions)
      /\ \A s \in Ids : sessions'[s] = IF s = call[k].session THEN made ELSE sessions[s]
  BY <1>1, <1>2, <1>4 DEF Ids
<1>6. \A s \in Ids : sessions[s].closed => sessions'[s].closed
  BY <1>2, <1>5
<1> QED
  BY <1>1, <1>3, <1>4, <1>5, <1>6, ServerStep, Zenon

\* A session is in the store from the step that makes it.
LEMMA CreateStep ==
    ASSUME Stateful, manager = "stateful", NEW k \in Calls, CreateSession(k)
    PROVE  Stateful'
<1>0. SessionTypes /\ Serves /\ Removes /\ Kept
  BY DEF Stateful
<1> DEFINE n == Len(sessions) + 1
           made == [closed |-> FALSE, options |-> {}]
<1>1. /\ sessions' = Append(sessions, made) /\ store' = store \cup {n} /\ jar' = jar
      /\ call' = [call EXCEPT ![k].pc = "handle", ![k].session = n, ![k].header = << "id", n >>]
  BY DEF CreateSession, NewSession
<1>2. made \in Session /\ sessions \in Seq(Session)
  BY <1>0 DEF Session, SessionTypes
<1> HIDE DEF made
<1>3. /\ sessions' \in Seq(Session) /\ Len(sessions') = n /\ n \in Nat
      /\ \A s \in Ids : sessions'[s] = sessions[s]
  BY <1>1, <1>2 DEF Ids
<1>4. Ids' = Ids \cup {n} /\ Ids \subseteq Ids' /\ Ids \subseteq Nat
  BY <1>2, <1>3 DEF Ids
<1>5. Cookies \subseteq Cookies' /\ << "id", n >> \in Cookies'
  BY <1>4 DEF Cookies
<1>6. \A x \in Call : x \in Call'
  BY <1>5 DEF Call
<1> DEFINE next == [call[k] EXCEPT !.pc = "handle", !.session = n, !.header = << "id", n >>]
<1>7. /\ next \in Call' /\ next.pc = "handle" /\ next.session = n
      /\ call' = [call EXCEPT ![k] = next]
  <2>1. call[k] \in Call' /\ call \in [Calls -> Call]
    BY <1>0, <1>6 DEF SessionTypes
  <2>2. next \in Call'
    BY <2>1, <1>3, <1>5, Zenon DEF Call, Places
  <2>3. next.pc = "handle" /\ next.session = n
    BY <2>1 DEF Call
  <2> QED
    BY <2>1, <2>2, <2>3, <1>1, Zenon
<1> HIDE DEF next
<1>8. \A j \in Calls : call'[j] = IF j = k THEN next ELSE call[j]
  BY <1>0, <1>7 DEF SessionTypes
<1>9. SessionTypes'
  <2>1. call' \in [Calls -> Call']
    BY <1>0, <1>6, <1>7 DEF SessionTypes
  <2>2. jar' \in [Clients -> Cookies' \cup {NoCookie}]
    BY <1>0, <1>1, <1>5 DEF SessionTypes
  <2> QED
    BY <1>3, <2>1, <2>2 DEF SessionTypes
<1>10. Serves'
  BY <1>0, <1>4, <1>7, <1>8 DEF Serves
<1>11. Removes'
  BY <1>0, <1>3, <1>7, <1>8 DEF Removes, Serves
<1>12. Kept'
  BY <1>0, <1>1, <1>3, <1>4, Zenon DEF Kept
<1> QED
  BY <1>9, <1>10, <1>11, <1>12 DEF Stateful

LEMMA StepSession == SessionInv /\ [SessionNext]_sessionVars => SessionInv'
<1> SUFFICES ASSUME SessionInv, [SessionNext]_sessionVars, manager' = "stateful" PROVE Stateful'
  BY DEF SessionInv
<1>1. CASE UNCHANGED sessionVars
  BY <1>1 DEF sessionVars, SessionInv, Stateful, SessionTypes, Serves, Removes, Kept, Call, Cookies, Ids
<1>2. CASE SessionNext
  <2>1. PICK k \in Calls :
            \/ \E c \in Clients, op \in Ops : StartCall(k, c, op)
            \/ HeadersReceived(k) \/ TrailersReceived(k)
            \/ Server(k)
    BY <1>2 DEF SessionNext
  <2>2. manager = "stateful"
    BY <2>1, Zenon DEF StartCall, HeadersReceived, TrailersReceived, Server, GetSession, CheckClosed,
                CreateSession, SetSessionOption, EraseSessionOption, GetSessionOptions,
                CloseOptions, Handled, CallCompleted, CloseSession
  <2>3. Stateful
    BY <2>2 DEF SessionInv
  <2>4. CASE GetSession(k) \/ CheckClosed(k) \/ CallCompleted(k) \/ CloseSession(k)
    BY <2>2, <2>3, <2>4, ManagerStep
  <2>5. CASE CreateSession(k)
    BY <2>2, <2>3, <2>5, CreateStep, Zenon
  <2>6. ASSUME At(k, "handle")
        PROVE  /\ sessions[call[k].session].options \in SUBSET Names
               /\ sessions[call[k].session].closed \in BOOLEAN
               /\ call[k].op \in AnyOp
    <3>1. call[k] \in Call /\ sessions[call[k].session] \in Session
      BY <2>3, <2>6 DEF Stateful, SessionTypes, Serves, Ids, At
    <3> QED
      BY <3>1 DEF Call, Session
  <2>7. CASE SetSessionOption(k)
    <3>1. At(k, "handle") /\ call[k].op[1] = "set"
      BY <2>7 DEF SetSessionOption
    <3>2. call[k].op[2] \in Names
      <4>1. NoOp[1] = "none" /\ "none" # "set"
        BY DEF NoOp
      <4>2. call[k].op \in Ops
        BY <2>6, <3>1, <4>1 DEF AnyOp
      <4>3. \A x \in Ops : x[1] = "set" => x[2] \in Names
        <5>1. \A x \in {"set", "erase"} \X Names : x[2] \in Names
          OBVIOUS
        <5>2. << "read", "" >>[1] # "set" /\ << "close", "" >>[1] # "set"
          OBVIOUS
        <5>3. \A x \in Ops : x \in {"set", "erase"} \X Names \/ x[1] # "set"
          BY <5>2, Zenon DEF Ops
        <5> QED
          BY <5>1, <5>3
      <4> QED
        BY <3>1, <4>2, <4>3, Zenon
    <3>3. CASE UNCHANGED <<manager, sessions, store, jar, call, known, apart>>
      BY <2>3, <3>3 DEF Stateful, SessionTypes, Serves, Removes, Kept, Call, Cookies, Ids
    <3>4. CASE ~sessions[call[k].session].closed
               /\ Handled(k, sessions[call[k].session].options \cup {call[k].op[2]}, FALSE)
      <4>1. sessions[call[k].session].options \cup {call[k].op[2]} \in SUBSET Names
        BY <2>6, <3>1, <3>2, Zenon
      <4> QED
        BY <2>2, <2>3, <3>1, <3>4, <4>1, HandlerStep, Zenon
    <3> QED
      BY <2>7, <3>3, <3>4, Zenon DEF SetSessionOption
  <2>8. CASE EraseSessionOption(k)
    <3>1. At(k, "handle") /\ Handled(k, sessions[call[k].session].options \ {call[k].op[2]},
                                     sessions[call[k].session].closed)
      BY <2>8, Zenon DEF EraseSessionOption
    <3>2. sessions[call[k].session].options \ {call[k].op[2]} \in SUBSET Names
      BY <2>6, <3>1, Zenon
    <3> QED
      BY <2>2, <2>3, <2>6, <3>1, <3>2, HandlerStep, Zenon
  <2>9. CASE GetSessionOptions(k)
    BY <2>2, <2>3, <2>6, <2>9, HandlerStep, Zenon DEF GetSessionOptions
  <2>10. CASE CloseOptions(k)
    BY <2>2, <2>3, <2>10, HandlerStep, Zenon DEF CloseOptions
  <2>11. CASE (\E c \in Clients, op \in Ops : StartCall(k, c, op))
              \/ HeadersReceived(k) \/ TrailersReceived(k)
    BY <2>3, <2>11, ClientStep
  <2> QED
    BY <2>1, <2>4, <2>5, <2>7, <2>8, <2>9, <2>10, <2>11, Zenon DEF Server
<1> QED
  BY <1>1, <1>2

\* With the stateful manager, a cookie in a jar that names an open session names one that is
\* in the store: no interleaving of GetSession, CreateSession, the handlers and CallCompleted
\* loses what a client has set.
THEOREM SessionsKept == SessionSpec => []OpenSessionsKept
<1>1. SessionInv => OpenSessionsKept
  <2> SUFFICES ASSUME Stateful, NEW c \in Clients, jar[c] # NoCookie, ~sessions[jar[c][2]].closed
               PROVE  jar[c][2] \in store
    BY DEF SessionInv, OpenSessionsKept
  <2>1. jar[c] \in Cookies
    BY DEF Stateful, SessionTypes
  <2>2. jar[c][2] \in Ids
    BY <2>1, CookieNames
  <2> QED
    BY <2>2 DEF Stateful, Kept
<1> QED
  BY InitSession, StepSession, <1>1, PTL DEF SessionSpec
=============================================================================
