------------------------------ MODULE Sessions ------------------------------
(***************************************************************************)
(* Flight sessions: the server middleware that finds or makes a session    *)
(* for each call, the stateful manager with its in-memory store and the    *)
(* stateless one whose cookie is the session, and the cookie jar of the    *)
(* client.  Calls of one client may overlap; their answers reach the jar   *)
(* in any order, headers before trailers.  The handlers are the server's   *)
(* own and are external: they set, erase and read options and close.       *)
(*                                                                         *)
(* A session is a number, its options the set of names that have a value.  *)
(***************************************************************************)
EXTENDS Integers, Sequences, FiniteSets

CONSTANTS
    Clients, Calls,     \* a call is used for one RPC
    Names,              \* names of session options
    Managers            \* a subset of {"stateful", "stateless"}

VARIABLES
    manager,
    sessions,       \* the sessions made: a sequence of [closed, options]
    store,          \* sessionStore.sessions, by number
    jar,            \* clientCookieMiddleware.jar: the one cookie, per client
    call,           \* the calls
    crashed,        \* a handler has panicked
    known, apart    \* per client: the options its calls left; that no two overlapped

sessionVars == <<manager, sessions, store, jar, call, crashed, known, apart>>

NoCookie == << "none" >>
Deleted  == << "deleted" >>         \* Set-Cookie with MaxAge = -1
Nothing  == << "nothing" >>         \* no Set-Cookie

\* A stateful session's cookie is its identifier, a stateless one's its options.
Token(s) ==
    IF manager = "stateful" THEN << "id", s >> ELSE << "options", sessions[s].options >>

NoCall == [pc |-> "idle", client |-> 0, cookie |-> NoCookie, session |-> 0,
         header |-> Nothing, trailer |-> Nothing, op |-> << "none", "" >>]

SessionInit ==
    /\ manager \in Managers
    /\ sessions = << >>
    /\ store = {}
    /\ jar = [c \in Clients |-> NoCookie]
    /\ call = [k \in Calls |-> NoCall]
    /\ crashed = FALSE
    /\ known = [c \in Clients |-> {}]
    /\ apart = [c \in Clients |-> TRUE]

At(k, pc) == ~crashed /\ call[k].pc = pc
Ops == {"set", "erase"} \X Names \cup {<< "read", "" >>, << "close", "" >>}
Running(c) == {k \in Calls : call[k].client = c /\ call[k].pc \notin {"idle", "done"}}

----------------------------------------------------------------------------
(***************************************************************************)
(* The client: StartCall puts the cookie on the call, HeadersReceived puts *)
(* the answer's cookies into the jar.                                      *)
(***************************************************************************)
StartCall(k, c, op) ==
    /\ At(k, "idle")
    /\ call' = [call EXCEPT ![k] = [NoCall EXCEPT !.pc = "get", !.client = c, !.cookie = jar[c],
                                                !.op = op]]
    /\ apart' = [apart EXCEPT ![c] = @ /\ Running(c) = {}]
    /\ UNCHANGED <<manager, sessions, store, jar, crashed, known>>

\* Mutant of SetCookie: a cookie that is to be deleted is kept.
SetCookieKeeps(old, c) == IF c \in {Nothing, Deleted} THEN old ELSE c

SetCookie(old, c) ==
    CASE c = Nothing -> old
      [] c = Deleted -> NoCookie
      [] OTHER       -> c

\* The headers of a stream are seen with its first message.
HeadersReceived(k) ==
    /\ ~crashed
    /\ call[k].header # Nothing
    /\ jar' = [jar EXCEPT ![call[k].client] = SetCookie(@, call[k].header)]
    /\ call' = [call EXCEPT ![k].header = Nothing]
    /\ UNCHANGED <<manager, sessions, store, crashed, known, apart>>

\* The end of the stream: headers, if not yet seen, and trailers.
TrailersReceived(k) ==
    /\ At(k, "answered")
    /\ jar' = [jar EXCEPT ![call[k].client] =
                  SetCookie(SetCookie(@, call[k].header), call[k].trailer)]
    /\ call' = [call EXCEPT ![k] = [NoCall EXCEPT !.pc = "done", !.client = call[k].client]]
    /\ UNCHANGED <<manager, sessions, store, crashed, known, apart>>

----------------------------------------------------------------------------
(***************************************************************************)
(* The server's StartCall: GetSession, CreateSession.                      *)
(***************************************************************************)
NewSession(options) == Append(sessions, [closed |-> FALSE, options |-> options])

\* ErrNoSession: there is no cookie, or its session is not in the store.
NotFound(cookie) ==
    IF cookie = NoCookie THEN TRUE ELSE manager = "stateful" /\ cookie[2] \notin store

\* The stateful GetSession looks the cookie's session up in the store; the stateless one
\* makes the session from the cookie.
GetSession(k) ==
    /\ At(k, "get")
    /\ LET cookie == call[k].cookie
       IN  \/ /\ NotFound(cookie)
              /\ call' = [call EXCEPT ![k].pc = "create"]
              /\ UNCHANGED sessions
           \/ /\ ~NotFound(cookie) /\ manager = "stateful"
              /\ call' = [call EXCEPT ![k].pc = "check", ![k].session = cookie[2]]
              /\ UNCHANGED sessions
           \/ /\ ~NotFound(cookie) /\ manager = "stateless"
              /\ sessions' = NewSession(cookie[2])
              /\ call' = [call EXCEPT ![k].pc = "handle", ![k].session = Len(sessions) + 1]
    /\ UNCHANGED <<manager, store, jar, crashed, known, apart>>

\* session.Closed(), after the store's lock was let go of
CheckClosed(k) ==
    /\ At(k, "check")
    /\ call' = [call EXCEPT ![k].pc = IF sessions[call[k].session].closed THEN "create"
                                                                          ELSE "handle"]
    /\ UNCHANGED <<manager, sessions, store, jar, crashed, known, apart>>

\* A new session, put into the store by the stateful manager; its cookie in the header.
CreateSession(k) ==
    /\ At(k, "create")
    /\ LET s == Len(sessions) + 1
       IN  /\ sessions' = NewSession({})
           /\ store' = IF manager = "stateful" THEN store \cup {s} ELSE store
           /\ call' = [call EXCEPT ![k].pc = "handle", ![k].session = s,
                          ![k].header = IF manager = "stateful" THEN << "id", s >>
                                                                ELSE << "options", {} >>]
    /\ UNCHANGED <<manager, jar, crashed, known, apart>>

----------------------------------------------------------------------------
(***************************************************************************)
(* The handler's use of the session, and CallCompleted.                    *)
(***************************************************************************)
Handled(k, options, closed) ==
    /\ sessions' = [sessions EXCEPT ![call[k].session] = [closed |-> closed, options |-> options]]
    /\ call' = [call EXCEPT ![k].pc = "complete"]
    /\ known' = [known EXCEPT ![call[k].client] =
                    CASE call[k].op[1] = "set"   -> @ \cup {call[k].op[2]}
                      [] call[k].op[1] = "erase" -> @ \ {call[k].op[2]}
                      [] call[k].op[1] = "close" -> {}
                      [] OTHER -> @]
    /\ UNCHANGED <<manager, store, jar, crashed, apart>>

\* SetSessionOption with a value.  Close has set the map to nil: the assignment panics.
SetSessionOption(k) ==
    /\ At(k, "handle")
    /\ call[k].op[1] = "set"
    /\ LET s == sessions[call[k].session]
       IN  \/ /\ ~s.closed
              /\ Handled(k, s.options \cup {call[k].op[2]}, FALSE)
           \/ /\ s.closed
              /\ crashed' = TRUE
              /\ UNCHANGED <<manager, sessions, store, jar, call, known, apart>>

\* EraseSessionOption, or SetSessionOption without a value; deleting from a nil map is
\* nothing.
EraseSessionOption(k) ==
    /\ At(k, "handle")
    /\ call[k].op[1] = "erase"
    /\ Handled(k, sessions[call[k].session].options \ {call[k].op[2]},
               sessions[call[k].session].closed)

GetSessionOptions(k) ==
    /\ At(k, "handle")
    /\ call[k].op[1] = "read"
    /\ Handled(k, sessions[call[k].session].options, sessions[call[k].session].closed)

CloseOptions(k) ==
    /\ At(k, "handle")
    /\ call[k].op[1] = "close"
    /\ Handled(k, {}, TRUE)

\* Mutant of CallCompleted: the session is removed whether or not it is closed.
CallCompletedRemoves(k) ==
    /\ At(k, "complete")
    /\ call' = [call EXCEPT ![k].pc = "answered", ![k].trailer = Token(call[k].session)]
    /\ store' = store \ {call[k].session}
    /\ UNCHANGED <<manager, sessions, jar, crashed, known, apart>>

\* CallCompleted compares the session with the cookie of the call.
CallCompleted(k) ==
    /\ At(k, "complete")
    /\ LET s == call[k].session
           answer(pc, c) == call' = [call EXCEPT ![k].pc = pc, ![k].trailer = c]
       IN  \/ call[k].cookie = NoCookie /\ answer("answered", Token(s))
           \/ call[k].cookie # NoCookie /\ sessions[s].closed /\ answer("remove", Deleted)
           \/ /\ call[k].cookie # NoCookie /\ ~sessions[s].closed
              /\ answer("answered", IF Token(s) # call[k].cookie THEN Token(s) ELSE Nothing)
    /\ UNCHANGED <<manager, sessions, store, jar, crashed, known, apart>>

\* manager.CloseSession
CloseSession(k) ==
    /\ At(k, "remove")
    /\ store' = store \ {call[k].session}
    /\ call' = [call EXCEPT ![k].pc = "answered"]
    /\ UNCHANGED <<manager, sessions, jar, crashed, known, apart>>

----------------------------------------------------------------------------
Server(k) ==
    \/ GetSession(k) \/ CheckClosed(k) \/ CreateSession(k)
    \/ SetSessionOption(k) \/ EraseSessionOption(k) \/ GetSessionOptions(k) \/ CloseOptions(k)
    \/ CallCompleted(k) \/ CloseSession(k)

SessionNext ==
    \E k \in Calls :
        \/ \E c \in Clients, op \in Ops : StartCall(k, c, op)
        \/ HeadersReceived(k) \/ TrailersReceived(k)
        \/ Server(k)

SessionSpec == SessionInit /\ [][SessionNext]_sessionVars

----------------------------------------------------------------------------
\* "goroutine-safe": no order of calls on one session makes a handler panic.
NoPanic == ~crashed

\* A cookie in a jar that names an open session is one the server still has: sessions
\* leave the store closed, and a closed one takes no other with it.
OpenSessionsKept ==
    manager = "stateful" =>
        \A c \in Clients :
            jar[c] # NoCookie /\ ~sessions[jar[c][2]].closed => jar[c][2] \in store

\* Calls of a client that do not overlap see one session: what one of them set is there
\* for the next, with either manager, and nothing is left after a close.
CallsShareSession ==
    \A k \in Calls :
        call[k].pc = "handle" /\ apart[call[k].client] =>
            sessions[call[k].session].options = known[call[k].client]
=============================================================================
