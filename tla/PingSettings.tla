----------------------------- MODULE PingSettings -----------------------------
(***************************************************************************)
(* The interval field of the hero and the intervals of the hosts           *)
(* (ping-settings.js).  Committing the field sends the interval to every   *)
(* host that, as far as the Store knows, has another one; the Store learns *)
(* of it by messages on another connection, later.  The editor of hosts,   *)
(* other browsers and other clients write intervals as well.               *)
(***************************************************************************)
EXTENDS Integers, Sequences, FiniteSets

CONSTANTS
    IHosts,
    Low, High,      \* 0.2 and 60, the limits of the interval
    Typed,          \* what the user types
    MaxBatches,     \* bound: batches under way
    MaxLag          \* bound: messages under way for each host

ASSUME PingSettingsConstants ==
    /\ Low \in Int /\ High \in Int /\ Low <= High
    /\ Typed \subseteq Int /\ MaxBatches \in Nat /\ MaxLag \in Nat

VARIABLES
    field, disabled,    \* the input
    server,             \* interval_s of each host in the database
    known,              \* interval_s in Store.hosts
    wire,               \* host_updated messages under way
    batches,            \* Promise.all: [id, value, left, waiters, settled]
    applyingInterval,   \* the id of a batch, or 0
    committed,          \* history: the field was not typed in since the last commit
    apart,              \* history: the hosts that the last commit left out,
                        \* for the Store was wrong about them, and those
                        \* that something else has written since
    failed              \* history: a request failed, and the field was not
                        \* committed since with nothing else under way

intervalVars == <<field, disabled, server, known, wire, batches, applyingInterval,
                  committed, apart, failed>>

\* Mutant: only the lower limit is kept.
ClampNumberBelow(v) == IF v < Low THEN Low ELSE v
ClampNumber(v) == IF v < Low THEN Low ELSE IF v > High THEN High ELSE v

PingSettingsTypeOK ==
    /\ field \in Typed \cup Low .. High /\ disabled \in BOOLEAN
    /\ {server, known} \subseteq [IHosts -> Low .. High]
    /\ wire \in [IHosts -> UNION {[1..n -> Low .. High] : n \in 0..MaxLag}]
    /\ batches \subseteq [id : 1..MaxBatches, value : Low .. High, left : SUBSET IHosts,
                          waiters : {0, 1}, settled : BOOLEAN]
    /\ applyingInterval \in 0..MaxBatches
    /\ apart \subseteq IHosts /\ {committed, failed} \subseteq BOOLEAN

PingSettingsInit ==
    /\ field \in Low .. High /\ disabled = FALSE
    /\ server \in [IHosts -> Low .. High]
    /\ known = server /\ wire = [h \in IHosts |-> <<>>]
    /\ batches = {} /\ applyingInterval = 0
    /\ committed = FALSE /\ apart = {} /\ failed = FALSE

-----------------------------------------------------------------------------
\* One call of applyIntervalToHosts from where no batch is waited for, with
\* pending the batches under way and later the calls that will wait for the
\* batch it starts; trouble, whether a request failed before.
Apply(pending, later, trouble) ==
    LET value == ClampNumber(field)
        others == {h \in IHosts : known[h] # value}
        started(id) == [id |-> id, value |-> value, left |-> others,
                        waiters |-> later, settled |-> FALSE]
    IN /\ field' = value
       /\ apart' = {h \in IHosts \ others : server[h] # value}
       /\ failed' = (trouble /\ pending # {})
       /\ IF others = {}
          THEN batches' = pending /\ applyingInterval' = 0 /\ disabled' = FALSE
          ELSE \E id \in 1..MaxBatches :
                   /\ \A b \in pending : b.id # id
                   /\ batches' = pending \cup {started(id)}
                   /\ applyingInterval' = id /\ disabled' = TRUE

TypeInterval(v) ==
    /\ ~disabled /\ field' = v /\ committed' = FALSE
    /\ UNCHANGED <<disabled, server, known, wire, batches, applyingInterval, apart, failed>>

\* Leaving the field calls once, after a change twice: "change" and then
\* "blur", whose call waits for the batch of the first.
CommitInterval(calls) ==
    /\ ~disabled /\ applyingInterval = 0
    /\ Apply(batches, calls - 1, failed)
    /\ committed' = TRUE /\ UNCHANGED <<server, known, wire>>

\* A request of a batch: the database, the message, the answer.
UpdateHost(b, h) ==
    /\ h \in b.left /\ Len(wire[h]) < MaxLag
    /\ server' = [server EXCEPT ![h] = b.value]
    /\ wire' = [wire EXCEPT ![h] = Append(@, b.value)]
    /\ batches' = (batches \ {b}) \cup {[b EXCEPT !.left = @ \ {h}]}
    /\ UNCHANGED <<field, disabled, known, applyingInterval, committed, apart, failed>>

\* Mutant: a batch that fails leaves the field locked.
SettlesIfWell(b, remaining, trouble) ==
    LET rest == (batches \ {b}) \cup
                    (IF remaining = {} THEN {}
                     ELSE {[b EXCEPT !.left = remaining, !.settled = TRUE, !.waiters = 0]})
    IN IF b.waiters = 1 THEN Apply(rest, 0, trouble)
       ELSE /\ batches' = rest
            /\ IF trouble THEN UNCHANGED <<applyingInterval, disabled>>
                          ELSE applyingInterval' = 0 /\ disabled' = FALSE
            /\ failed' = trouble /\ UNCHANGED <<field, apart>>

\* The batch is over when all have answered, or one has failed with the others
\* still under way.  The call that waits for it goes on at once, with the Store
\* as it is.
Settles(b, remaining, trouble) ==
    LET rest == (batches \ {b}) \cup
                    (IF remaining = {} THEN {}
                     ELSE {[b EXCEPT !.left = remaining, !.settled = TRUE, !.waiters = 0]})
    IN IF b.waiters = 1 THEN Apply(rest, 0, trouble)
       ELSE /\ batches' = rest /\ applyingInterval' = 0 /\ disabled' = FALSE
            /\ failed' = trouble /\ UNCHANGED <<field, apart>>

BatchAnswered(b) ==
    /\ b.left = {} /\ ~b.settled /\ Settles(b, {}, failed)
    /\ UNCHANGED <<server, known, wire, committed>>

RequestFails(b, h) ==
    /\ h \in b.left
    /\ IF b.settled
       THEN /\ batches' = (batches \ {b}) \cup {[b EXCEPT !.left = @ \ {h}]}
            /\ failed' = TRUE
            /\ UNCHANGED <<field, disabled, applyingInterval, apart>>
       ELSE Settles(b, b.left \ {h}, TRUE)
    /\ UNCHANGED <<server, known, wire, committed>>

LateAnswers(b) ==
    /\ b.settled /\ b.left = {} /\ batches' = batches \ {b}
    /\ UNCHANGED <<field, disabled, server, known, wire, applyingInterval, committed,
                   apart, failed>>

\* Another request writes the interval of a host: of the editor, of another
\* browser or client.
OthersUpdateHost(h, v) ==
    /\ Len(wire[h]) < MaxLag
    /\ server' = [server EXCEPT ![h] = v]
    /\ wire' = [wire EXCEPT ![h] = Append(@, v)]
    /\ apart' = apart \cup {h}
    /\ UNCHANGED <<field, disabled, known, batches, applyingInterval, committed, failed>>

\* A page that the hub has dropped takes none in until it has a new connection.
HostUpdated(h) ==
    /\ wire[h] # <<>>
    /\ known' = [known EXCEPT ![h] = Head(wire[h])]
    /\ wire' = [wire EXCEPT ![h] = Tail(@)]
    /\ UNCHANGED <<field, disabled, server, batches, applyingInterval, committed, apart, failed>>

\* The connection was lost, and the new one begins with a snapshot.
Reconnected ==
    /\ known' = server /\ wire' = [h \in IHosts |-> <<>>]
    /\ UNCHANGED <<field, disabled, server, batches, applyingInterval, committed, apart, failed>>

PingSettingsNext ==
    \/ \E v \in Typed : TypeInterval(v)
    \/ \E calls \in {1, 2} : CommitInterval(calls)
    \/ \E b \in batches : \/ BatchAnswered(b) \/ LateAnswers(b)
                          \/ \E h \in IHosts : UpdateHost(b, h) \/ RequestFails(b, h)
    \/ \E h \in IHosts : HostUpdated(h) \/ \E v \in Low .. High : OthersUpdateHost(h, v)
    \/ Reconnected

-----------------------------------------------------------------------------
\* Once the field is committed and nothing is under way, the interval of a host
\* is that of the field, "x is the interval for each active host"
\* (README.md:37), with these exceptions: the commit took the host for done
\* because the Store was behind, something else wrote it afterwards, or a
\* request failed.  A batch under way when the field was committed is no
\* exception, nor is one host for the others.  The field is locked exactly while
\* a batch is waited for, and for no other reason.
IntervalsHold ==
    /\ batches = {} /\ committed /\ ~failed =>
           \A h \in IHosts \ apart : server[h] = field
    /\ disabled <=> applyingInterval # 0
    /\ disabled => \E b \in batches : b.id = applyingInterval /\ ~b.settled
=============================================================================
