----------------------------- MODULE AudioServing -----------------------------
(***************************************************************************)
(* The server around the audio renderer: connections and their requests    *)
(* (src/src/server/transport.rs), the cache of open user projects and the  *)
(* handlers that answer with audio (src/src/server.rs).                    *)
(*                                                                         *)
(* A request is read by an async task and handled by a blocking worker; an *)
(* answer that is a stream is produced by a second worker, that takes over *)
(* where the first one ends, and is sent by the task out of a channel.  A  *)
(* task may go at any time, its client gone or the server stopping; the    *)
(* workers go on until they notice that nobody receives any more.  Both    *)
(* workers of a request are `work`, its task is `conn`.                    *)
(*                                                                         *)
(* Every worker that renders is a caller of AudioRenderer: the streams and *)
(* the workers of prompted edits.  What an edit does otherwise, and what   *)
(* it takes to start one, is module EditService.                           *)
(*                                                                         *)
(* Bounds: a stream has at most Chunks chunks, a chunk being one item of   *)
(* the channel (the code cuts it into pieces of 64 KiB).                   *)
(***************************************************************************)
EXTENDS AudioRenderer, Sequences, Functions

CONSTANTS
    Streams,                        \* requests that may ask for audio
    Users,                          \* ids that cookies hold
    Cookies,                        \* the users that each request may come from
    MAX_CACHED_USERS, MAX_PERSISTED_USERS,
    MAX_ACTIVE_HTTP_CONNECTIONS, MAX_ACTIVE_HTTP_STREAMS,
    ChannelCapacity,                \* items between a producer and its connection
    Chunks

\* The track spectrum is rendered in the background.
Spectra == Background
Edits == Callers \ Streams

ASSUME ServingAssumption ==
    /\ Background \subseteq Streams /\ Streams \subseteq Callers
    /\ {MAX_CACHED_USERS, MAX_ACTIVE_HTTP_CONNECTIONS, MAX_ACTIVE_HTTP_STREAMS,
        ChannelCapacity} \subseteq Nat \ {0}
    /\ MAX_PERSISTED_USERS \in Nat /\ Chunks \in Nat
    /\ Cookies \in [Callers -> SUBSET Users]
    /\ {"nobody", "new"} \cap Users = {}      \* an id is 32 hex digits

VARIABLES
    conn,           \* the task of each request
    work,           \* the worker of each request or edit
    left,           \* chunks that a stream has still to render
    channel,        \* what is between a producer and its connection
    permits,        \* Limiter.active of the stream limiter
    changed,        \* spectra whose project has another version by now
    cached,         \* UserRegistry.users: the project that each user has open
    router,         \* the open project that a worker holds a clone of
    directories,    \* users with a directory
    stopping        \* the shutdown signal has arrived

serving == <<conn, work, left, channel, permits, changed, cached, router, directories,
             stopping>>

allVars == <<vars, serving>>

NotOpen == -1
NoRouter == [user |-> "nobody", instance |-> 0]

\* Every time a user's project is read from its file it is another ProjectState
\* behind another mutex.  Numbers tell those apart that exist together.
Instance == 0 .. Cardinality(Callers)
Router == [user: Users, instance: Instance] \cup {NoRouter}

Holders(u) == {c \in Callers : router[c].user = u}
Cached == {u \in Users : cached[u] # NotOpen}

ServingInit ==
    /\ Init
    /\ conn = [s \in Streams |-> "none"]
    /\ work = [c \in Callers |-> "none"]
    /\ left = [s \in Streams |-> 0]
    /\ channel = [s \in Streams |-> <<>>]
    /\ permits = 0
    /\ changed = {}
    /\ cached = [u \in Users |-> NotOpen]
    /\ router = [c \in Callers |-> NoRouter]
    /\ directories = {}
    /\ stopping = FALSE

RendererStays == UNCHANGED vars
RegistryStays == UNCHANGED <<cached, directories>>
StreamStays == UNCHANGED <<left, channel, permits, changed>>

Works(c, what) == work' = [work EXCEPT ![c] = what]
Connects(s, what) == conn' = [conn EXCEPT ![s] = what]

\* The closure of a worker is dropped with all that it holds.
Ends(s) ==
    /\ Works(s, "none")
    /\ router' = [router EXCEPT ![s] = NoRouter]
    /\ left' = [left EXCEPT ![s] = 0]
    /\ changed' = changed \ {s}

GoesOn == UNCHANGED <<router, left, changed>>

----------------------------------------------------------------------------
(* Connections *)

\* A connection over the limit is answered with 503 and closed at once.
Accept(s) ==
    /\ conn[s] = "none" /\ work[s] = "none"
    /\ ~stopping
    /\ Cardinality({t \in Streams : conn[t] # "none"}) < MAX_ACTIVE_HTTP_CONNECTIONS
    /\ Connects(s, "reading")
    /\ RendererStays /\ RegistryStays /\ StreamStays /\ UNCHANGED <<work, router, stopping>>

\* The request is whole and goes to a blocking worker, or it is refused: too
\* slow, too large, or not a request.
Receive(s) ==
    /\ conn[s] = "reading"
    /\ \/ Connects(s, "waiting") /\ Works(s, "dispatching")
       \/ Connects(s, "answering") /\ UNCHANGED work
    /\ RendererStays /\ RegistryStays /\ StreamStays /\ UNCHANGED <<router, stopping>>

\* is_closed of the channel.
Closed(s) == conn[s] # "body"

is_cancelled(s) == Closed(s) \/ s \in changed

\* Whoever is inside the renderer is asked by it.
Tells(s) == cancelled' = IF pc[s] = "idle" THEN cancelled ELSE cancelled \cup {s}

\* A plausible slip: only a body that ends gives its permit back.
DropKeepsPermit(s) ==
    /\ Connects(s, "none")
    /\ channel' = [channel EXCEPT ![s] = <<>>]
    /\ UNCHANGED permits
    /\ Tells(s)

\* The task is dropped, and ReceiverBody with it if there is one.
Drop(s) ==
    /\ Connects(s, "none")
    /\ channel' = [channel EXCEPT ![s] = <<>>]
    /\ permits' = IF conn[s] = "body" THEN permits - 1 ELSE permits
    /\ Tells(s)

DropStays ==
    /\ UNCHANGED <<rendering, foreground_waiters, background_waiters, pc>>
    /\ RegistryStays
    /\ UNCHANGED <<work, left, changed, router, stopping>>

\* The client goes, or a timeout ends the connection.
ClientLeaves(s) == conn[s] # "none" /\ Drop(s) /\ DropStays

\* The answer has been sent; connections are not kept alive.
Answered(s) ==
    /\ conn[s] = "answering"
    /\ Connects(s, "none")
    /\ RendererStays /\ RegistryStays /\ StreamStays /\ UNCHANGED <<work, router, stopping>>

\* The body's next frame: data, or the error that breaks the connection.
PollFrame(s) ==
    /\ conn[s] = "body" /\ channel[s] # <<>>
    /\ \/ /\ Head(channel[s]) = "data"
          /\ channel' = [channel EXCEPT ![s] = Tail(@)]
          /\ RendererStays /\ RegistryStays
          /\ UNCHANGED <<conn, work, left, permits, changed, router, stopping>>
       \/ /\ Head(channel[s]) = "error"
          /\ Drop(s) /\ DropStays

\* The producer has gone and everything it sent has been taken: the permit is
\* given back before the last bytes are on their way.
EndOfBody(s) ==
    /\ conn[s] = "body" /\ channel[s] = <<>> /\ work[s] = "none"
    /\ permits' = permits - 1
    /\ Connects(s, "answering")
    /\ RendererStays /\ RegistryStays
    /\ UNCHANGED <<work, left, channel, changed, router, stopping>>

Shutdown ==
    /\ ~stopping
    /\ stopping' = TRUE
    /\ RendererStays /\ RegistryStays /\ StreamStays /\ UNCHANGED <<conn, work, router>>

\* A plausible slip: the server waits until every connection has drained.
NeverAborts(s) == FALSE /\ UNCHANGED allVars

\* Connections that have not drained in SHUTDOWN_GRACE_TIMEOUT are aborted.
Abort(s) == stopping /\ conn[s] # "none" /\ Drop(s) /\ DropStays

----------------------------------------------------------------------------
(* The cache of open projects *)

HasActiveEdit(u) == \E e \in Edits \cap Holders(u) : work[e] = "editing"

\* A plausible slip: a project is idle when none of its edits is running.
IdleWithoutEdits(u) == ~HasActiveEdit(u)

can_evict(u) == Holders(u) = {} /\ ~HasActiveEdit(u)

\* What is left of the cache: some of the idle users expire, and the least
\* recently used ones make room for `entering` until there is enough.
Kept(entering) ==
    {K \in SUBSET Cached :
        /\ \A u \in Cached \ K : can_evict(u)
        /\ entering \notin K => Cardinality(K) < MAX_CACHED_USERS
                                \/ ~\E u \in K : can_evict(u)}

NewInstance(u) == CHOOSE i \in Instance : \A c \in Holders(u) : router[c].instance # i

Keeps(K) == cached' = [u \in Users |-> IF u \in K THEN cached[u] ELSE NotOpen]

\* Every project in the cache is in use, or there are as many users as may be.
Refused(K, u) ==
    /\ u \notin K
    /\ \/ Cardinality(K) >= MAX_CACHED_USERS
       \/ u \notin directories /\ Cardinality(directories) >= MAX_PERSISTED_USERS

\* There is room for u in the cache and on the disk, or it has both already.
HasRoom(K, u) == u \in K \/ Cardinality(K) < MAX_CACHED_USERS

HasDirectory(u) ==
    /\ u \in directories \/ Cardinality(directories) < MAX_PERSISTED_USERS
    /\ directories' = directories \cup {u}

\* c gets a clone of the user's router; the project is opened if it is not cached.
Opens(c, K, u) ==
    /\ HasRoom(K, u) /\ HasDirectory(u)
    /\ LET i == IF u \in K THEN cached[u] ELSE NewInstance(u)
       IN  /\ cached' = [v \in Users |-> IF v = u THEN i
                                         ELSE IF v \in K THEN cached[v] ELSE NotOpen]
           /\ router' = [router EXCEPT ![c] = [user |-> u, instance |-> i]]

\* The project file cannot be read: the directory stays, the cache has no entry.
OpenFails(K, u) ==
    /\ u \notin K /\ HasRoom(K, u) /\ HasDirectory(u)
    /\ Keeps(K)

\* The worker is done with a request; an answer nobody waits for is dropped.
Respond(s) == Connects(s, IF conn[s] = "waiting" THEN "answering" ELSE conn[s])

\* Router::scoped, under the registry's mutex.
Scope(s) ==
    /\ work[s] = "dispatching"
    /\ \/ \E u \in Cookies[s] : \E K \in Kept(u) :
             \/ /\ Opens(s, K, u)
                /\ Works(s, "handling")
                /\ UNCHANGED <<conn, left, changed>>
             \/ /\ OpenFails(K, u)
                /\ Ends(s) /\ Respond(s)
       \/ /\ \/ \E u \in Cookies[s] \cup {"new"} : \E K \in Kept(u) : Refused(K, u) /\ Keeps(K)
             \/ Cookies[s] \ directories # {} /\ UNCHANGED cached     \* an unknown cookie
          /\ UNCHANGED directories
          /\ Ends(s) /\ Respond(s)
    /\ RendererStays /\ UNCHANGED <<channel, permits, stopping>>

----------------------------------------------------------------------------
(* Streams *)

\* Everything that is no stream, a cached spectrum and a refused stream included.
HandlePlain(s) ==
    /\ work[s] = "handling"
    /\ Ends(s) /\ Respond(s)
    /\ RendererStays /\ RegistryStays /\ UNCHANGED <<channel, permits, stopping>>

\* A playback or an export starts with its header, a range of a playback may
\* start behind it or end before the audio; a spectrum is rendered first.
Starts(s) ==
    \/ /\ s \notin Spectra
       /\ \E n \in 0 .. Chunks : left' = [left EXCEPT ![s] = n]
       /\ Works(s, "heading")
    \/ /\ \E n \in 1 .. Chunks : left' = [left EXCEPT ![s] = n]
       /\ Works(s, "pacing")

\* A permit, a producer and a body that owns the permit.  If the task has gone
\* meanwhile the answer is dropped: its producer finds the channel closed.
HandleStream(s) ==
    /\ work[s] = "handling"
    /\ permits < MAX_ACTIVE_HTTP_STREAMS
    /\ Starts(s)
    /\ \/ conn[s] = "waiting" /\ Connects(s, "body") /\ permits' = permits + 1
       \/ conn[s] = "none" /\ UNCHANGED <<conn, permits>>
    /\ RendererStays /\ RegistryStays /\ UNCHANGED <<channel, changed, router, stopping>>

\* Only a spectrum minds that the project gets another version.
ProjectChanges(s) ==
    /\ s \in Spectra \ changed /\ work[s] \in {"pacing", "rendering"}
    /\ changed' = changed \cup {s}
    /\ Tells(s)
    /\ UNCHANGED <<rendering, foreground_waiters, background_waiters, pc>>
    /\ RegistryStays
    /\ UNCHANGED <<conn, work, left, channel, permits, router, stopping>>

ProducerStays == RegistryStays /\ UNCHANGED <<conn, permits, stopping>>

Begin(s) ==
    /\ work[s] = "heading"
    /\ \/ is_cancelled(s) /\ Ends(s)
       \/ ~is_cancelled(s) /\ Works(s, "sending") /\ GoesOn
    /\ RendererStays /\ ProducerStays /\ UNCHANGED channel

\* wait_for_playback_window, or just the next chunk: a request that is cancelled
\* returns, else it asks the renderer.
Pace(s) ==
    /\ work[s] = "pacing"
    /\ \/ is_cancelled(s) /\ Ends(s) /\ RendererStays
       \/ ~is_cancelled(s) /\ Works(s, "rendering") /\ Request(s) /\ GoesOn
    /\ ProducerStays /\ UNCHANGED channel

\* The renderer returns to its caller: a render that panicked ends it.
Returned(s) ==
    \/ Ends(s)
    \/ /\ ~is_cancelled(s)
       /\ left' = [left EXCEPT ![s] = @ - 1]
       /\ Works(s, IF s \in Spectra /\ left[s] > 1 THEN "pacing" ELSE "sending")
       /\ UNCHANGED <<router, changed>>
    \/ ~is_cancelled(s) /\ Works(s, "failing") /\ GoesOn

\* One step of the renderer for a stream; when it lets go of the renderer, or did
\* not get it, the stream goes on.
StreamRenders(s) ==
    /\ work[s] = "rendering"
    /\ \/ Register(s) \/ Check(s) \/ Try(s) \/ TimeOut(s) \/ Leave(s)
       \/ BeginRender(s) \/ EndRender(s) \/ Release(s)
    /\ IF pc'[s] = "idle" THEN Returned(s) ELSE UNCHANGED work /\ GoesOn
    /\ ProducerStays /\ UNCHANGED channel

\* A plausible slip: whoever waits for room does not look whether anybody receives.
SendsIntoClosed(s, item) ==
    /\ Len(channel[s]) < ChannelCapacity /\ ~Closed(s)
    /\ channel' = [channel EXCEPT ![s] = Append(@, item)]

\* blocking_send waits for room and fails when the receiver is gone.
BlockingSend(s, item) ==
    \/ /\ ~Closed(s) /\ Len(channel[s]) < ChannelCapacity
       /\ channel' = [channel EXCEPT ![s] = Append(@, item)]
    \/ Closed(s) /\ UNCHANGED channel

Send(s) ==
    /\ work[s] = "sending"
    /\ BlockingSend(s, "data")
    /\ IF left[s] = 0 \/ Closed(s) THEN Ends(s) ELSE Works(s, "pacing") /\ GoesOn
    /\ RendererStays /\ ProducerStays

SendError(s) ==
    /\ work[s] = "failing"
    /\ BlockingSend(s, "error")
    /\ Ends(s)
    /\ RendererStays /\ ProducerStays

----------------------------------------------------------------------------
(* Edits *)

EditStays == UNCHANGED <<conn, left, channel, permits, changed, stopping>>

StartEdit(e) ==
    /\ work[e] = "none" /\ ~stopping
    /\ \E u \in Cookies[e] \cap directories : \E K \in Kept(u) : Opens(e, K, u)
    /\ Works(e, "editing")
    /\ RendererStays /\ EditStays

EditRenders(e) ==
    /\ work[e] = "editing"
    /\ \/ Request(e) \/ Register(e) \/ Check(e) \/ Try(e) \/ TimeOut(e) \/ Leave(e)
       \/ BeginRender(e) \/ EndRender(e) \/ Release(e) \/ Cancel(e)
    /\ RegistryStays /\ EditStays /\ UNCHANGED <<work, router>>

\* worker_finished: the job is no longer active, its worker has not gone yet.
EndJob(e) ==
    /\ work[e] = "editing" /\ pc[e] = "idle"
    /\ Works(e, "finished")
    /\ RendererStays /\ RegistryStays /\ EditStays /\ UNCHANGED router

EndEdit(e) ==
    /\ work[e] = "finished"
    /\ Works(e, "none")
    /\ router' = [router EXCEPT ![e] = NoRouter]
    /\ RendererStays /\ RegistryStays /\ EditStays

WakeWaiters ==
    /\ Edits # {} /\ wake_waiters
    /\ UNCHANGED serving

----------------------------------------------------------------------------
ServingNext ==
    \/ \E s \in Streams :
          \/ Accept(s) \/ Receive(s) \/ ClientLeaves(s) \/ Answered(s)
          \/ PollFrame(s) \/ EndOfBody(s) \/ Abort(s)
          \/ Scope(s) \/ HandlePlain(s) \/ HandleStream(s) \/ ProjectChanges(s)
          \/ Begin(s) \/ Pace(s) \/ StreamRenders(s) \/ Send(s) \/ SendError(s)
    \/ \E e \in Edits :
          \/ StartEdit(e) \/ EditRenders(e) \/ EndJob(e) \/ EndEdit(e)
    \/ WakeWaiters
    \/ Shutdown

ServingSpec == ServingInit /\ [][ServingNext]_allVars

\* A thread runs: it does not wait in a queue without looking up, and a render asks
\* is_cancelled as it goes.  Nothing else is assumed of renders.
InRenderer(c) == pc[c] # "idle" /\ (pc[c] = "rendering" => c \in cancelled)

StreamThread(s) ==
    \/ Scope(s) \/ HandlePlain(s) \/ HandleStream(s)
    \/ Begin(s) \/ Pace(s) \/ Send(s) \/ SendError(s)
    \/ InRenderer(s) /\ StreamRenders(s)

EditThread(e) == InRenderer(e) /\ EditRenders(e) /\ pc'[e] # pc[e]

\* Nothing is assumed of clients, but that the server aborts their connections.
ServingFairness ==
    /\ \A s \in Streams : WF_allVars(StreamThread(s)) /\ WF_allVars(Abort(s))
    /\ \A e \in Edits : WF_allVars(EditThread(e))

FairServing == ServingSpec /\ ServingFairness

----------------------------------------------------------------------------
\* A stream permit is out exactly as long as a body that is being sent, whichever
\* way the body and its producer end.
PermitsFollowBodies ==
    /\ permits = Cardinality({s \in Streams : conn[s] = "body"})
    /\ permits <= MAX_ACTIVE_HTTP_STREAMS

\* A user's project is open once: every worker that holds it, also for a request
\* whose client has gone, has the one that the next request will get.
OneOwner == \A c \in Callers : router[c] # NoRouter => cached[router[c].user] = router[c].instance

\* A worker whose answer nobody receives any more comes to its end, wherever it is:
\* in the registry, in the renderer's queue, in a render or at a full channel.
StreamWorkerEnds == \A s \in Streams : (work[s] # "none" /\ conn[s] = "none") ~> (work[s] = "none")

\* The server stops although clients neither send nor read: every connection and
\* then every worker that the process waits for ends.
ServerStops == stopping ~> \A s \in Streams : conn[s] = "none" /\ work[s] = "none"
=============================================================================
