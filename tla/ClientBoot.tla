----------------------------- MODULE ClientBoot -----------------------------
(***************************************************************************)
(* How a client gets into the network (Node::new in                        *)
(* nodes/client/src/node.rs): it collects the keys of all nodes, opens an  *)
(* onion path to a replicator of its profile, fetches its vault or creates *)
(* the profile, and opens paths so that each chat of the vault is served.  *)
(*                                                                         *)
(* A path is a number, its opening is external (see Onion).  The list of   *)
(* nodes is read from the chain once and is not followed afterwards.  Of a *)
(* vault only the names of its chats matter here.  SelectAll holds the     *)
(* streams; its order changes whenever one of them yields, so that find    *)
(* may come upon any stream that fits.                                     *)
(***************************************************************************)
EXTENDS Integers, Sequences, FiniteSets, SequencesExt, FiniteSetsExt

CONSTANTS
    Peers,          \* the nodes of the list
    Topics, Me,     \* chats and profiles, and the profile of this client
    Chats,          \* the topics that are chats
    Group,          \* Group[t]: the replicators of t
    Vaults,         \* the chats a stored vault may have
    MinNodes,       \* MIN_NODES
    MaxPaths,       \* bound: paths that are opened
    NoStream        \* the value of a path that is no stream

\* What a path that is opened is for, and a stream with the subscriptions that it feeds.
PathTypes == [peer : Peers, topics : SUBSET Topics]
StreamTypes == [peer : Peers, topics : SUBSET Topics, subs : SUBSET Nat,
                io : {"open", "broken", "taken"}]

ASSUME ClientAssumption == /\ Me \in Topics \ Chats /\ Chats \subseteq Topics
                           /\ Group \in [Topics -> SUBSET Peers \ {{}}]
                           /\ Vaults \subseteq SUBSET Chats
                           /\ MaxPaths \in Nat \ {0} /\ MinNodes \in Nat
                           /\ IsFiniteSet(Peers)
                           /\ NoStream \notin PathTypes \cup StreamTypes

VARIABLES
    phase,          \* how far the client is
    keys,           \* peers whose key has been shared
    profile,        \* the profile at its replicators: "missing" or "stored"
    chats,          \* the chats of the vault
    awaiting,       \* awaiting[i]: the peer and the topics a path is opened for, or NoStream
    streams         \* streams[i]: the stream path i has become, or NoStream

bootVars == <<phase, keys, profile, chats, awaiting, streams>>

Paths == 1 .. MaxPaths
Fresh(i) == awaiting[i] = NoStream /\ streams[i] = NoStream

Stream(peer, topics) ==
    [peer |-> peer, topics |-> topics, subs |-> {}, io |-> "open"]

BootInit == /\ phase = "keys"
            /\ keys = {}
            /\ profile \in {"missing", "stored"}
            /\ chats = {}
            /\ awaiting = [i \in Paths |-> NoStream]
            /\ streams = [i \in Paths |-> NoStream]

-----------------------------------------------------------------------------

\* All keys have to come, there is no time out.  The path to the profile is the first one.
GotKey(p) ==
    /\ phase = "keys"
    /\ keys' = keys \cup {p}
    /\ phase' = IF keys' # Peers THEN "keys"
                ELSE IF Cardinality(Peers) < MinNodes THEN "failed" ELSE "profile"
    /\ \E pick \in Group[Me] :
          awaiting' = IF phase' # "profile" THEN awaiting
                      ELSE [awaiting EXCEPT ![1] = [peer |-> pick, topics |-> {Me}]]
    /\ UNCHANGED <<profile, chats, streams>>

ProfilePathOpened ==
    /\ phase = "profile"
    /\ phase' = "vault"
    /\ streams' = [streams EXCEPT ![1] = Stream(awaiting[1].peer, {Me})]
    /\ awaiting' = [awaiting EXCEPT ![1] = NoStream]
    /\ UNCHANGED <<keys, profile, chats>>

BootFails ==
    /\ phase \in {"profile", "create", "chats"}
    /\ phase' = "failed"
    /\ UNCHANGED <<keys, profile, chats, awaiting, streams>>

\* The chats p can serve by a stream of its own, profile_stream_peer needs none.
Served(p, vault) == IF p = streams[1].peer THEN {} ELSE {c \in vault : p \in Group[c]}

\* The peers with the most chats first: topology, popped from its end.  Peers with equally
\* many are in the order of a hash map.
Orders(vault) == {o \in SetToSeqs(Peers) :
    \A i, j \in DOMAIN o : i < j => Cardinality(Served(o[i], vault)) >= Cardinality(Served(o[j], vault))}

\* Mutant of Picked: the first peer is taken to serve every chat.
PickedFirst(o, vault) == [i \in DOMAIN o |-> IF i = 1 THEN vault ELSE {}]

\* to_connect: the i-th peer gets the chats that none before it has got.
Picked(o, vault) ==
    [i \in DOMAIN o |-> Served(o[i], vault) \ UNION {Served(o[j], vault) : j \in 1 .. i - 1}]

\* The paths to the peers that were picked follow that of the profile.
PathTo(picks, i) == 1 + Cardinality({j \in picks : j <= i})

\* The profile's stream gets the chats its peer replicates, without counting them as seen;
\* for the others a path is opened to each peer that was picked.  When the peers run out
\* before all chats are seen, the unwrap of topology.pop panics.
OpenChats(vault) ==
    \E o \in Orders(vault) :
        LET set == Picked(o, vault)
            picks == {i \in DOMAIN o : set[i] # {}}
        IN  /\ Cardinality(picks) < MaxPaths        \* bound
            /\ chats' = vault
            /\ phase' = IF UNION Range(set) # vault THEN "panicked"
                        ELSE IF picks = {} THEN "starting" ELSE "chats"
            /\ streams' = [streams EXCEPT ![1].topics =
                              @ \cup {c \in vault : streams[1].peer \in Group[c]}]
            /\ awaiting' = [k \in Paths |-> IF \E i \in picks : PathTo(picks, i) = k
                               THEN LET i == CHOOSE i \in picks : PathTo(picks, i) = k
                                    IN  [peer |-> o[i], topics |-> set[i]]
                               ELSE NoStream]

\* FetchVault: the vault of a profile that is stored.  Any error counts as no profile.
VaultFetched ==
    /\ phase = "vault"
    /\ \/ /\ profile = "stored"
          /\ \E vault \in Vaults : OpenChats(vault)
       \/ /\ phase' = "create"
          /\ UNCHANGED <<chats, awaiting, streams>>
    /\ UNCHANGED <<keys, profile>>

\* CreateProfile is refused when there is one: the vault of a profile that could not be
\* fetched is not replaced by an empty one.
ProfileCreated ==
    /\ phase = "create" /\ profile = "missing"
    /\ profile' = "stored"
    /\ OpenChats({})
    /\ UNCHANGED keys

ChatPathOpened(i) ==
    /\ phase = "chats" /\ awaiting[i] # NoStream
    /\ streams' = [streams EXCEPT ![i] = Stream(awaiting[i].peer, awaiting[i].topics)]
    /\ awaiting' = [awaiting EXCEPT ![i] = NoStream]
    /\ phase' = IF \A j \in Paths : awaiting'[j] = NoStream THEN "starting" ELSE "chats"
    /\ UNCHANGED <<keys, profile, chats>>

BootNext ==
    \/ \E p \in Peers : GotKey(p)
    \/ ProfilePathOpened \/ VaultFetched \/ ProfileCreated \/ BootFails
    \/ \E i \in Paths : ChatPathOpened(i)

-----------------------------------------------------------------------------

\* When a client starts to run, each chat of its vault, and its profile, is served by a
\* stream to one of the replicators of that topic, however the chats are spread over the peers
\* and the paths open: requests for them need no search.
BootCovers ==
    phase = "starting" =>
        /\ \A t \in chats \cup {Me} : \E i \in Paths :
               streams[i] # NoStream /\ t \in streams[i].topics
        /\ \A i \in Paths : streams[i] # NoStream =>
               \A t \in streams[i].topics : streams[i].peer \in Group[t]
=============================================================================
