----------------------------- MODULE ClientNode -----------------------------
(***************************************************************************)
(* The running client (Node::run in nodes/client/src/node.rs) and the      *)
(* tasks that use it (nodes/client/src/protocol.rs): requests, which end   *)
(* with an answer or with ChannelClosed, and subscriptions, which feed a   *)
(* listener until their owner is dropped.                                  *)
(*                                                                         *)
(* A job is a request or a subscription, and jobs are numbered in the      *)
(* order in which they are handed to the node.  The channel to the node    *)
(* never refuses: each handle is a clone of the sender, and a clone has a  *)
(* place of its own.  A subscription's channel has no buffer: the node     *)
(* waits until the listener has taken what it sends (busy).                *)
(*                                                                         *)
(* A server takes what a client writes in order and keeps one subscription *)
(* per topic and stream.  It answers at any time, or not at all.  A stream *)
(* may break at any time: what was under way on it is lost.                *)
(***************************************************************************)
EXTENDS ClientBoot

CONSTANTS MaxJobs,      \* bound: jobs
          Nothing,      \* no message
          Asked,        \* bound: the chats users turn to
          Starts        \* bounds: what users, servers and faults do in a behaviour

ASSUME StartsAssumption ==
    MaxJobs \in Nat /\ Asked \subseteq Chats /\ Starts \subseteq [uses : Nat, events : Nat, faults : Nat]

VARIABLES
    jobs,           \* jobs[n]: kind and topic of the n-th job
    result,         \* result[n]: "none", "answered", "closed" (ChannelClosed)
    requests,       \* commands on their way to the node
    searching,      \* pending_topic_search[i]: the commands that wait for path i
    pending,        \* pending_requests
    busy,           \* the message whose listener the node waits for, or Nothing
    owned,          \* subscriptions whose owner is alive
    listening,      \* subscriptions whose listener is alive
    strays,         \* history: subscriptions closed while they waited for a path
    inbox, table, outbox,   \* of the server at the end of a path
    left            \* how much of users, events and faults is left

nodeVars == <<jobs, result, requests, searching, pending, busy, owned, listening, strays,
              inbox, table, outbox, left>>
clientVars == <<bootVars, nodeVars>>

Jobs == 1 .. MaxJobs
Account == 1        \* the subscription to the profile, of the task that runs the node
Subscriptions == {n \in DOMAIN jobs : jobs[n].kind = "subscribe"}
Command(kind, n) == [kind |-> kind, job |-> n]
Message(n, what) == [job |-> n, what |-> what]
TopicOf(c) == jobs[c.job].topic

\* A step that a bound limits.
Uses(what) == left[what] > 0 /\ left' = [left EXCEPT ![what] = @ - 1]

Init == /\ BootInit
        /\ jobs = <<>> /\ result = [n \in Jobs |-> "none"] /\ requests = <<>>
        /\ searching = [i \in Paths |-> <<>>] /\ pending = {} /\ busy = Nothing
        /\ owned = {} /\ listening = {} /\ strays = {}
        /\ inbox = [i \in Paths |-> <<>>]
        /\ table = [i \in Paths |-> [t \in Topics |-> 0]]
        /\ outbox = [i \in Paths |-> <<>>]
        /\ left \in Starts

-----------------------------------------------------------------------------
(* The tasks.                                                               *)

Running == phase = "running"
NodeReady == Running /\ busy = Nothing

\* The task that made the node subscribes to the profile, and reads the mail.
Start ==
    /\ phase = "starting" /\ phase' = "running"
    /\ jobs' = <<[kind |-> "subscribe", topic |-> Me], [kind |-> "request", topic |-> Me]>>
    /\ requests' = <<Command("subscribe", 1), Command("request", 2)>>
    /\ owned' = {Account} /\ listening' = {Account}
    /\ UNCHANGED <<keys, profile, chats, awaiting, streams, result, searching, pending, busy,
                   strays, inbox, table, outbox, left>>

\* dispatch_low: when the node is gone the request ends at once.
Dispatch(t) ==
    /\ phase \in {"running", "stopped"} /\ Len(jobs) < MaxJobs /\ Uses("uses")
    /\ jobs' = Append(jobs, [kind |-> "request", topic |-> t])
    /\ IF Running THEN /\ requests' = Append(requests, Command("request", Len(jobs) + 1))
                       /\ UNCHANGED result
                  ELSE /\ result' = [result EXCEPT ![Len(jobs) + 1] = "closed"]
                       /\ UNCHANGED requests
    /\ UNCHANGED <<bootVars, searching, pending, busy, owned, listening, strays, inbox,
                   table, outbox>>

\* A chat is selected: its messages are subscribed to, and the owner of the subscription
\* there was is dropped, which closes it.
SelectChat(t) ==
    /\ Running /\ Len(jobs) < MaxJobs /\ Uses("uses")
    /\ LET new == Len(jobs) + 1
           old == owned \ {Account}
       IN  /\ jobs' = Append(jobs, [kind |-> "subscribe", topic |-> t])
           /\ requests' = Append(requests, Command("subscribe", new))
                             \o [k \in 1 .. Cardinality(old) |->
                                    Command("close", CHOOSE n \in old : TRUE)]
           /\ owned' = {Account, new}
           /\ listening' = listening \cup {new}
    /\ UNCHANGED <<bootVars, result, searching, pending, busy, strays, inbox, table,
                   outbox>>

-----------------------------------------------------------------------------
(* The node: handle_command.                                                *)

Serves(i, t) == streams[i] # NoStream /\ t \in streams[i].topics
IsSubscribe(c) == c.kind = "subscribe"
JobsOf(cs, kind) == {c.job : c \in {d \in Range(cs) : d.kind = kind}}

\* Commands are written to stream i of now: subscriptions are kept with it, requests in
\* pending_requests.  A stream that is down takes the bytes, and they are lost.
Write(now, i, cs) ==
    /\ streams' = [now EXCEPT ![i].subs = @ \cup JobsOf(cs, "subscribe")]
    /\ pending' = pending \cup JobsOf(cs, "request")
    /\ inbox' = [inbox EXCEPT ![i] = IF now[i].io = "open" THEN @ \o cs ELSE @]

\* Mutant of Search: an open stream is preferred to the search that is under way.
SearchShort(c) ==
    LET t     == TopicOf(c)
        near  == {i \in Paths : streams[i] # NoStream /\ streams[i].peer \in Group[t]}
        under == {i \in Paths : \E d \in Range(searching[i]) : TopicOf(d) = t}
    IN  \/ /\ near # {}
           /\ \E i \in near : Write([streams EXCEPT ![i].topics = @ \cup {t}], i, <<c>>)
           /\ UNCHANGED <<searching, awaiting>>
        \/ /\ under # {} /\ near = {}
           /\ \E i \in under : searching' = [searching EXCEPT ![i] = Append(@, c)]
           /\ UNCHANGED <<streams, pending, inbox, awaiting>>
        \/ /\ under = {} /\ near = {}
           /\ \E i \in Paths, pick \in Group[t] :
                 /\ Fresh(i) /\ \A j \in 1 .. i - 1 : ~Fresh(j)
                 /\ awaiting' = [awaiting EXCEPT ![i] = [peer |-> pick, topics |-> {t}]]
                 /\ searching' = [searching EXCEPT ![i] = <<c>>]
           /\ UNCHANGED <<streams, pending, inbox>>

\* handle_topic_search: c waits for a path that is being opened for its topic, or goes to a
\* stream whose peer replicates the topic, or waits for a new path to one that does.
Search(c) ==
    LET t     == TopicOf(c)
        near  == {i \in Paths : streams[i] # NoStream /\ streams[i].peer \in Group[t]}
        under == {i \in Paths : \E d \in Range(searching[i]) : TopicOf(d) = t}
    IN  \/ /\ under # {}
           /\ \E i \in under : searching' = [searching EXCEPT ![i] = Append(@, c)]
           /\ UNCHANGED <<streams, pending, inbox, awaiting>>
        \/ /\ under = {} /\ near # {}
           /\ \E i \in near : Write([streams EXCEPT ![i].topics = @ \cup {t}], i, <<c>>)
           /\ UNCHANGED <<searching, awaiting>>
        \/ /\ under = {} /\ near = {}
           /\ \E i \in Paths, pick \in Group[t] :
                 /\ Fresh(i) /\ \A j \in 1 .. i - 1 : ~Fresh(j)
                 /\ awaiting' = [awaiting EXCEPT ![i] = [peer |-> pick, topics |-> {t}]]
                 /\ searching' = [searching EXCEPT ![i] = <<c>>]
           /\ UNCHANGED <<streams, pending, inbox>>

\* handle_request and handle_subscription_request.
HandleJob ==
    /\ NodeReady /\ requests # <<>> /\ Head(requests).kind # "close"
    /\ requests' = Tail(requests)
    /\ LET c == Head(requests)
           found == {i \in Paths : Serves(i, TopicOf(c))}
       IN  \/ \E i \in found : Write(streams, i, <<c>>) /\ UNCHANGED <<searching, awaiting>>
           \/ found = {} /\ Search(c)
    /\ UNCHANGED <<phase, keys, profile, chats, jobs, result, busy, owned, listening, strays,
                   table, outbox, left>>

\* The subscription leaves the stream that has it.  Its sender is dropped with it.
Unsubscribed(n) == [i \in Paths |-> IF streams[i] # NoStream
                       THEN [streams[i] EXCEPT !.subs = @ \ {n}] ELSE NoStream]

Subscribed(n) == \E i \in Paths : streams[i] # NoStream /\ n \in streams[i].subs

\* CloseSubscription of a subscription that still waits for a path finds no stream that has
\* it, and does nothing: the path will bring it to life.
HandleClose ==
    /\ NodeReady /\ requests # <<>> /\ Head(requests).kind = "close"
    /\ requests' = Tail(requests)
    /\ LET n == Head(requests).job
       IN  /\ streams' = Unsubscribed(n)
           /\ listening' = IF Subscribed(n) THEN listening \ {n} ELSE listening
           /\ strays' = IF \E i \in Paths : n \in JobsOf(searching[i], "subscribe")
                        THEN strays \cup {n} ELSE strays
    /\ UNCHANGED <<phase, keys, profile, chats, awaiting, jobs, result, searching, pending,
                   busy, owned, inbox, table, outbox, left>>

\* handle_swarm_event: the path is a stream now, and what waited for it is handled in order.
PathOpened(i) ==
    /\ NodeReady /\ awaiting[i] # NoStream
    /\ awaiting' = [awaiting EXCEPT ![i] = NoStream]
    /\ LET now == [streams EXCEPT ![i] = Stream(awaiting[i].peer, awaiting[i].topics)]
       IN  \E j \in {k \in Paths : now[k] # NoStream /\ awaiting[i].topics \subseteq now[k].topics} :
              Write(now, j, searching[i])
    /\ searching' = [searching EXCEPT ![i] = <<>>]
    /\ UNCHANGED <<phase, keys, profile, chats, jobs, result, requests, busy, owned, listening,
                   strays, table, outbox, left>>

\* A path that could not be opened, or a packet that does not fit the buffer of its stream,
\* panics, and the page is dead.
NodePanics ==
    /\ NodeReady /\ Uses("faults")
    /\ \/ \E i \in Paths : awaiting[i] # NoStream
       \/ requests # <<>> /\ Head(requests).kind # "close"
    /\ phase' = "panicked"
    /\ UNCHANGED <<keys, profile, chats, awaiting, streams, jobs, result, requests, searching,
                   pending, busy, owned, listening, strays, inbox, table, outbox>>

-----------------------------------------------------------------------------
(* The node: handle_subscription_response.                                  *)

\* A message answers a request, or is for a subscription of its stream, or for nobody.
Respond(i) ==
    /\ NodeReady /\ streams[i] # NoStream /\ streams[i].io = "open" /\ outbox[i] # <<>>
    /\ outbox' = [outbox EXCEPT ![i] = Tail(@)]
    /\ LET n == Head(outbox[i]).job
       IN  \/ /\ n \in pending
              /\ pending' = pending \ {n}
              /\ result' = [result EXCEPT ![n] = "answered"]
              /\ UNCHANGED <<busy, streams>>
           \/ /\ n \notin pending /\ n \in streams[i].subs
              /\ IF n \in listening THEN busy' = Head(outbox[i]) /\ UNCHANGED streams
                                    ELSE streams' = Unsubscribed(n) /\ UNCHANGED busy
              /\ UNCHANGED <<pending, result>>
           \/ /\ n \notin pending \cup streams[i].subs
              /\ UNCHANGED <<pending, result, busy, streams>>
    /\ UNCHANGED <<phase, keys, profile, chats, awaiting, jobs, requests, searching, owned,
                   listening, strays, inbox, table, left>>

\* The listener takes the message, and ends when it is an event of a chat that it cannot
\* decode.
Listen ==
    /\ Running /\ busy # Nothing
    /\ busy' = Nothing
    /\ \/ UNCHANGED <<listening, left>>
       \/ /\ busy.what = "event" /\ busy.job # Account /\ Uses("faults")
          /\ listening' = listening \ {busy.job}
    /\ UNCHANGED <<bootVars, jobs, result, requests, searching, pending, owned, strays, inbox,
                   table, outbox>>

\* The first poll after the stream broke reports the error, which is logged.
StreamErrs(i) ==
    /\ NodeReady /\ streams[i] # NoStream /\ streams[i].io = "broken"
    /\ streams' = [streams EXCEPT ![i].io = "taken"]
    /\ UNCHANGED <<phase, keys, profile, chats, awaiting, nodeVars>>

\* Mutant of Stopped: the requests are left as they are.
StoppedSilently == result

\* With the profile's subscription its listener ends, and with it the task that runs the
\* node: what waits for the node is closed.
Stopped == [n \in Jobs |-> IF n \in DOMAIN jobs /\ jobs[n].kind = "request" /\ result[n] = "none"
                              THEN "closed" ELSE result[n]]

\* The poll after that drops the stream, with the channels of its subscriptions.  The requests
\* written to it stay in pending_requests.
StreamEnds(i) ==
    /\ NodeReady /\ streams[i] # NoStream /\ streams[i].io = "taken"
    /\ streams' = [streams EXCEPT ![i] = NoStream]
    /\ listening' = listening \ streams[i].subs
    /\ IF Account \in streams[i].subs
       THEN phase' = "stopped" /\ result' = Stopped
       ELSE UNCHANGED <<phase, result>>
    /\ UNCHANGED <<keys, profile, chats, awaiting, jobs, requests, searching, pending, busy,
                   owned, strays, inbox, table, outbox, left>>

-----------------------------------------------------------------------------
(* The servers, and the streams to them.                                    *)

Up(i) == streams[i] # NoStream /\ streams[i].io = "open"

\* Mutant of Entered: the server keeps the subscription it has.
EnteredFirst(i, c) == [table[i] EXCEPT ![TopicOf(c)] = IF @ = 0 THEN c.job ELSE @]

\* One subscription per stream and topic: the last one replaces the one before.
Entered(i, c) == [table[i] EXCEPT ![TopicOf(c)] = c.job]

\* A server takes what is written in order; the answer may come at any time after that, so
\* that it holds up nothing that was written after it.  Or there is no answer: the vote of
\* the replicators never ends, the answer does not fit the buffer of the stream, or the
\* request cannot be dispatched.
ServerHandles(i, k) ==
    /\ Up(i) /\ k \in DOMAIN inbox[i]
    /\ \A j \in 1 .. k - 1 : ~IsSubscribe(inbox[i][j])
    /\ inbox' = [inbox EXCEPT ![i] = RemoveAt(@, k)]
    /\ LET c == inbox[i][k]
       IN  /\ table' = IF IsSubscribe(c) THEN [table EXCEPT ![i] = Entered(i, c)] ELSE table
           /\ \/ /\ outbox' = [outbox EXCEPT ![i] = Append(@, Message(c.job, "answer"))]
                 /\ UNCHANGED left
              \/ UNCHANGED outbox /\ Uses("faults")
    /\ UNCHANGED <<bootVars, jobs, result, requests, searching, pending, busy, owned, listening,
                   strays>>

ServerPushes(i, t) ==
    /\ Up(i) /\ table[i][t] # 0 /\ Uses("events")
    /\ outbox' = [outbox EXCEPT ![i] = Append(@, Message(table[i][t], "event"))]
    /\ UNCHANGED <<bootVars, jobs, result, requests, searching, pending, busy, owned, listening,
                   strays, inbox, table>>

StreamBreaks(i) ==
    /\ Running /\ Up(i) /\ Uses("faults")
    /\ streams' = [streams EXCEPT ![i].io = "broken"]
    /\ inbox' = [inbox EXCEPT ![i] = <<>>] /\ outbox' = [outbox EXCEPT ![i] = <<>>]
    /\ table' = [table EXCEPT ![i] = [t \in Topics |-> 0]]
    /\ UNCHANGED <<phase, keys, profile, chats, awaiting, jobs, result, requests, searching,
                   pending, busy, owned, listening, strays>>

-----------------------------------------------------------------------------

Boot == BootNext /\ UNCHANGED nodeVars
Handles(i) == Respond(i) \/ StreamErrs(i) \/ StreamEnds(i)
Serve(i) == \E k \in Jobs : ServerHandles(i, k)

Next ==
    \/ Boot \/ Start
    \/ \E t \in Asked : Dispatch(t) \/ SelectChat(t)
    \/ HandleJob \/ HandleClose \/ NodePanics \/ Listen
    \/ \E i \in Paths : \/ PathOpened(i) \/ Handles(i) \/ Serve(i) \/ StreamBreaks(i)
                        \/ \E t \in Topics : ServerPushes(i, t)

\* The select of the loop takes each of its branches in turn, listeners are polled when there
\* is something for them, and the loop of a server takes what its streams bring.  Nobody
\* promises that a path is opened or that a request is answered.
Fairness ==
    /\ WF_clientVars(HandleJob \/ HandleClose) /\ WF_clientVars(Listen)
    /\ \A i \in Paths : WF_clientVars(Handles(i)) /\ WF_clientVars(Serve(i))

Spec == Init /\ [][Next]_clientVars /\ Fairness

-----------------------------------------------------------------------------

\* A job waits in front of the node, or for a path.
Waits(n) == \/ n \in JobsOf(requests, "request") \cup JobsOf(requests, "subscribe")
            \/ \E i \in Paths : n \in {c.job : c \in Range(searching[i])}

\* Jobs of a topic reach the servers in the order in which they were handed to the node:
\* while an older one waits for its path, no younger one is written to a stream, though
\* streams to replicators of the topic open and break meanwhile.
NoOvertaking ==
    Running => \A m, n \in DOMAIN jobs :
        m < n /\ jobs[m].topic = jobs[n].topic /\ Waits(m) => Waits(n)

\* The listener of the selected chat hears its messages, and no other: on a stream where its
\* subscription has reached the server, the server sends them under it and the node has its
\* channel, whatever was subscribed to before on this stream and closed in between; and a
\* subscription that has been closed gets no more messages, once the node has handled that.
\* Only those live on that were closed while they waited for a path (strays).
SelectedIsHeard ==
    Running =>
        /\ \A i \in Paths : Up(i) => \A n \in owned \cap streams[i].subs :
              \/ Command("subscribe", n) \in Range(inbox[i])
              \/ table[i][jobs[n].topic] = n
        /\ \A n \in Subscriptions \ owned :
              Subscribed(n) => n \in strays \/ n \in JobsOf(requests, "close")

\* A request waits for a path that is being opened.
AwaitsPath(n) == \E i \in Paths : awaiting[i] # NoStream /\ n \in JobsOf(searching[i], "request")

\* A request that was written and is under way nowhere: its stream broke, or the server did
\* not answer it.
Lost(n) == /\ n \in pending
           /\ \A i \in Paths : /\ n \notin {c.job : c \in Range(inbox[i])}
                               /\ Message(n, "answer") \notin Range(outbox[i])

Open(n) == /\ jobs[n].kind = "request" /\ result[n] = "none"
           /\ ~(Running /\ (AwaitsPath(n) \/ Lost(n)))

\* The client's own part in ending a request, there being finitely many: the node brings it
\* to a stream or to a path that is being opened, gives the answer that arrives to the task
\* that waits, and closes every request there is when it stops, those that wait for a path
\* or an answer too.  What ends no request while the node runs is outside: a path that is
\* not opened, a stream that breaks with the request or its answer, a server that does not
\* answer; nor does a page that died.
DispatchEnds == (\E n \in DOMAIN jobs : Open(n))
                   ~> (phase = "panicked" \/ \A n \in DOMAIN jobs : ~Open(n))
=============================================================================
