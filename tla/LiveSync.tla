------------------------------ MODULE LiveSync ------------------------------
(***************************************************************************)
(* What one browser shows, kept in sync with the database: the requests of *)
(* api.py that commit a change, read it back and broadcast it, the hub of  *)
(* ws.py, the WebSocket endpoint of app.py with its snapshot, and the      *)
(* browser's side (ws.js, app.js, store.js): bootstrap, messages, refetch  *)
(* and reconnect.  Browsers do not see each other, so one is enough.       *)
(*                                                                         *)
(* A host is represented by its version: its n-th change leaves it at n,   *)
(* or at -n when the change deleted it; 0 is a host that never existed.    *)
(* Only the sign of a deletion is visible to the browser; its number is    *)
(* there for the properties, and 0 stands for a deletion that is announced *)
(* although it did not happen.  `home` has the group that each version of  *)
(* a host names.  A group is represented by whether it has a row, and only *)
(* on the server: no property is about the list of groups that is shown.   *)
(***************************************************************************)
EXTENDS Integers, Sequences, FiniteSets

CONSTANTS
    Hosts,      \* host ids (AUTOINCREMENT: never used again once deleted)
    Groups,     \* group names
    Requests,   \* API requests that may be in flight together
    MaxChanges, \* bound: changes requested, counted from one
    MaxFaults   \* bound: breaks, sends that time out, fetches that fail

ASSUME HostsAssumption == IsFiniteSet(Hosts)
ASSUME GroupsAssumption == Groups # {} /\ Groups \cap Hosts = {}
ASSUME BoundsAssumption == MaxChanges \in Nat \ {0} /\ MaxFaults \in Nat

Tables == {"hosts", "groups"}

VARIABLES
    db,       \* the hosts
    home,     \* host -> number of a version -> the group it names
    groups,   \* the groups that have a row
    changes,  \* changes requested so far
    req,      \* request -> "idle", "listed", "committed", "renamed", "sending"
    about,    \* request -> the host or group it changes
    outbox,   \* request -> messages it still has to broadcast
    conn,     \* browser: "boot", "down", "open"
    srv,      \* endpoint: "none", "accepted", "hub", "read", "ready"
    dropped,  \* the hub dropped a connection that is still open
    snap,     \* host rows the endpoint read for its snapshot
    chan,     \* messages sent to the browser and not yet handled
    fetch,    \* table -> "none", "asked", "answered": a GET in flight
    answer,   \* the hosts in the answer of GET hosts
    view,     \* what the browser shows
    seen,     \* the latest change of each host the browser ever showed
    unsaid,   \* the latest change of each host that is not announced to anybody,
              \* since the browser's snapshot was read
    missed,   \* a fetch failed since the connection was opened
    again,    \* the browser has been connected before
    faults

serverVars == <<db, home, groups, changes, req, about, outbox>>
linkVars == <<conn, srv, dropped, snap, again>>
fetchVars == <<fetch, answer>>
viewVars == <<view, seen, missed>>
vars == <<serverVars, linkVars, chan, fetchVars, viewVars, unsaid, faults>>

Versions == -MaxChanges..MaxChanges
Rows == [Hosts -> Versions]
Number(v) == IF v < 0 THEN -v ELSE v
Newer(v, w) == IF Number(v) > Number(w) THEN Number(v) ELSE Number(w)

Messages ==
    [type : {"host"}, host : Hosts, val : Versions]
        \cup [type : {"group_deleted"}, group : Groups]
        \cup [type : {"group_updated", "group_renamed"}]
        \cup [type : {"snapshot"}, rows : Rows]

Stages == {"idle", "listed", "committed", "renamed", "sending"}

TypeOK ==
    /\ db \in Rows
    /\ home \in [Hosts -> [0..MaxChanges -> Groups]]
    /\ groups \subseteq Groups
    /\ changes \in 0..MaxChanges
    /\ req \in [Requests -> Stages]
    /\ about \in [Requests -> Hosts \cup Groups]
    /\ outbox \in [Requests -> Seq(Messages)]
    /\ conn \in {"boot", "down", "open"}
    /\ srv \in {"none", "accepted", "hub", "read", "ready"}
    /\ dropped \in BOOLEAN
    /\ snap \in Rows
    /\ chan \in Seq(Messages)
    /\ fetch \in [Tables -> {"none", "asked", "answered"}]
    /\ answer \in Rows
    /\ view \in Rows
    /\ seen \in [Hosts -> 0..MaxChanges]
    /\ unsaid \in [Hosts -> 0..MaxChanges]
    /\ missed \in BOOLEAN
    /\ again \in BOOLEAN
    /\ faults \in 0..MaxFaults

Empty == [h \in Hosts |-> 0]
SomeGroup == CHOOSE g \in Groups : TRUE

\* The page is loaded while a group and some of its hosts exist.
Init ==
    /\ db \in [Hosts -> {0, 1}]
    /\ home = [h \in Hosts |-> [n \in 0..MaxChanges |-> SomeGroup]]
    /\ groups = {SomeGroup}
    /\ changes = 1
    /\ req = [r \in Requests |-> "idle"]
    /\ about = [r \in Requests |-> SomeGroup]
    /\ outbox = [r \in Requests |-> <<>>]
    /\ conn = "boot" /\ srv = "none" /\ dropped = FALSE /\ snap = Empty
    /\ chan = <<>>
    /\ fetch = [t \in Tables |-> IF t = "groups" THEN "asked" ELSE "none"]
    /\ answer = Empty
    /\ view = Empty /\ seen = Empty /\ missed = FALSE
    /\ unsaid = Empty
    /\ again = FALSE /\ faults = 0

-----------------------------------------------------------------------------
(* Requests.                                                               *)

Exists(o) == IF o \in Groups THEN o \in groups ELSE db[o] > 0
Next1(h) == Number(db[h]) + 1
HomeOf(h) == home[h][Number(db[h])]
Members(g) == {h \in Hosts : Exists(h) /\ HomeOf(h) = g}
Says(h, v) == [type |-> "host", host |-> h, val |-> v]

\* A request begins.
Begins(r) == req[r] = "idle" /\ changes < MaxChanges /\ changes' = changes + 1

\* A transaction writes the hosts of S and deletes those of D.
Change(S, D) ==
    db' = [h \in Hosts |-> IF h \in S THEN Next1(h)
                           ELSE IF h \in D THEN -Next1(h) ELSE db[h]]

\* The next versions of the hosts of S name group g.
MoveTo(S, g) ==
    home' = [h \in Hosts |-> [n \in 0..MaxChanges |->
                IF h \in S /\ n > Number(db[h]) THEN g ELSE home[h][n]]]

Continue(r, p, o, msgs) ==
    /\ req' = [req EXCEPT ![r] = p]
    /\ about' = [about EXCEPT ![r] = IF p = "idle" THEN SomeGroup ELSE o]
    /\ outbox' = [outbox EXCEPT ![r] = msgs]

Elsewhere == <<linkVars, chan, fetchVars, viewVars, faults>>

\* create_host: a missing group row is created with it, and not broadcast.
CreateHost(r, h, g) ==
    /\ Begins(r) /\ db[h] = 0
    /\ Change({h}, {}) /\ MoveTo({h}, g) /\ groups' = groups \cup {g}
    /\ Continue(r, "committed", h, <<>>)
    /\ UNCHANGED <<unsaid, Elsewhere>>

\* patch_host: answers 404 and changes nothing when the host is gone.  It may
\* move the host to another group, one without a row included.
UpdateHost(r, h, g) ==
    /\ Begins(r) /\ Exists(h)
    /\ Change({h}, {}) /\ MoveTo({h}, g) /\ UNCHANGED groups
    /\ Continue(r, "committed", h, <<>>)
    /\ UNCHANGED <<unsaid, Elsewhere>>

\* patch_group without a name: an upsert.
UpdateGroup(r, g) ==
    /\ Begins(r)
    /\ groups' = groups \cup {g}
    /\ Continue(r, "committed", g, <<>>)
    /\ UNCHANGED <<db, home, unsaid, Elsewhere>>

\* patch_group with a name.
RenameGroup(r, old, new) ==
    /\ Begins(r) /\ Exists(old) /\ ~Exists(new)
    /\ Change(Members(old), {}) /\ MoveTo(Members(old), new)
    /\ groups' = (groups \ {old}) \cup {new}
    /\ Continue(r, "renamed", new, <<>>)
    /\ UNCHANGED <<unsaid, Elsewhere>>

DeleteHost(r, h) ==
    /\ Begins(r) /\ Exists(h)
    /\ Change({}, {h})
    /\ Continue(r, "sending", h, <<Says(h, -Next1(h))>>)
    /\ UNCHANGED <<home, groups, unsaid, Elsewhere>>

\* delete_group selects the ids that it will announce before its first DELETE
\* opens the transaction.
ListMembers(r, g) ==
    LET ids == Members(g) IN
    /\ Begins(r) /\ Exists(g)
    /\ \E order \in {f \in [1..Cardinality(ids) -> ids] :
                        {f[i] : i \in DOMAIN f} = ids} :
          Continue(r, "listed", g, [i \in DOMAIN order |-> Says(order[i], 0)])
    /\ UNCHANGED <<db, home, groups, unsaid, Elsewhere>>

\* Its transaction deletes whatever hosts the group has by then; one message for
\* the group follows, then one for each id on the list.
DeleteGroup(r) ==
    LET gone == Members(about[r])
        listed == {outbox[r][i].host : i \in DOMAIN outbox[r]} IN
    /\ req[r] = "listed"
    /\ Change({}, gone) /\ groups' = groups \ {about[r]}
    /\ Continue(r, "sending", about[r],
                <<[type |-> "group_deleted", group |-> about[r]]>>
                   \o [i \in DOMAIN outbox[r] |->
                          LET h == outbox[r][i].host IN
                          Says(h, IF h \in gone THEN -Next1(h) ELSE 0)])
    /\ unsaid' = [h \in Hosts |-> IF h \in gone \ listed THEN Next1(h)
                                                         ELSE unsaid[h]]
    /\ UNCHANGED <<home, changes, Elsewhere>>

\* The transaction fails, and the request with it.
DeleteGroupFails(r) ==
    /\ req[r] = "listed"
    /\ Continue(r, "idle", about[r], <<>>)
    /\ UNCHANGED <<db, home, groups, changes, unsaid, Elsewhere>>

\* After its commit a request reads the record back on a connection of its own;
\* it answers with an error and broadcasts nothing when another request deleted
\* it in between.
ReadBack(r) ==
    LET o == about[r] IN
    /\ req[r] \in {"committed", "renamed"}
    /\ IF ~Exists(o) THEN Continue(r, "idle", o, <<>>)
       ELSE Continue(r, "sending", o,
                     IF o \in Hosts THEN <<Says(o, db[o])>>
                     ELSE IF req[r] = "renamed"
                     THEN <<[type |-> "group_renamed"], [type |-> "group_updated"]>>
                     ELSE <<[type |-> "group_updated"]>>)
    /\ UNCHANGED <<db, home, groups, changes, unsaid, Elsewhere>>

\* The hosts whose change request r has yet to read back.
Unread(r) ==
    {h \in Hosts : /\ Exists(h)
                   /\ about[r] = IF req[r] = "renamed" THEN HomeOf(h) ELSE h}

\* That read fails, and the request with it: what it has committed stays.
ReadBackFails(r) ==
    /\ req[r] \in {"committed", "renamed"}
    /\ Continue(r, "idle", about[r], <<>>)
    /\ unsaid' = [h \in Hosts |-> IF h \in Unread(r) THEN Number(db[h])
                                                     ELSE unsaid[h]]
    /\ UNCHANGED <<db, home, groups, changes, Elsewhere>>

\* Mutant: the endpoint joins the hub when it has sent its snapshot.
SubscribedLate == {"ready"}
\* The endpoint's states in which the hub knows the connection.
Subscribed == {"hub", "read", "ready"}
InHub == srv \in Subscribed /\ ~dropped

\* broadcast of the next message.  A send that takes longer than its timeout
\* may have been written or not; the hub drops that connection, open or not.
Broadcast(r) ==
    LET msg == Head(outbox[r])
        rest == Tail(outbox[r]) IN
    /\ req[r] = "sending"
    /\ Continue(r, IF rest = <<>> THEN "idle" ELSE "sending", about[r], rest)
    /\ \/ /\ chan' = IF InHub THEN Append(chan, msg) ELSE chan
          /\ UNCHANGED <<dropped, faults>>
       \/ /\ InHub
          /\ faults < MaxFaults /\ faults' = faults + 1
          /\ dropped' = TRUE
          /\ chan' \in {chan, Append(chan, msg)}
    /\ UNCHANGED <<db, home, groups, changes, conn, srv, snap, again, fetchVars,
                   viewVars, unsaid>>

-----------------------------------------------------------------------------
(* The connection: ws.js on one side, ws_endpoint on the other.            *)

\* loadHosts or loadGroups: a GET leaves the browser.  Bound: one of each kind
\* in flight.
Asks(T) ==
    /\ \A t \in T : fetch[t] = "none"
    /\ fetch' = [t \in Tables |-> IF t \in T THEN "asked" ELSE fetch[t]]
    /\ UNCHANGED answer

\* Mutant: only the first connection is ever opened.
ReopensNever == ~again
Reopens == TRUE

\* The handshake is accepted.  Every connection but the first refetches the
\* groups; the hosts come with the snapshot.
Open ==
    /\ conn = "down" /\ Reopens
    /\ again' = TRUE
    /\ conn' = "open" /\ srv' = "accepted"
    /\ IF again THEN Asks({"groups"}) ELSE UNCHANGED fetchVars
    /\ missed' = FALSE
    /\ UNCHANGED <<serverVars, dropped, snap, chan, view, seen, unsaid, faults>>

JoinHub ==
    /\ srv = "accepted"
    /\ srv' = "hub"
    /\ UNCHANGED <<serverVars, conn, dropped, snap, again, chan, fetchVars,
                   viewVars, unsaid, faults>>

ReadSnapshot ==
    /\ srv = "hub"
    /\ srv' = "read"
    /\ snap' = db
    /\ unsaid' = Empty
    /\ UNCHANGED <<serverVars, conn, dropped, again, chan, fetchVars,
                   viewVars, faults>>

SendSnapshot ==
    /\ srv = "read"
    /\ srv' = "ready"
    /\ chan' = Append(chan, [type |-> "snapshot", rows |-> snap])
    /\ snap' = Empty
    /\ UNCHANGED <<serverVars, conn, dropped, again, fetchVars, viewVars,
                   unsaid, faults>>

\* The connection breaks; what was under way is lost.  One that the hub has
\* dropped may break without counting as another fault.
Disconnect ==
    /\ conn = "open"
    /\ IF dropped THEN UNCHANGED faults
                  ELSE faults < MaxFaults /\ faults' = faults + 1
    /\ conn' = "down" /\ srv' = "none" /\ dropped' = FALSE
    /\ chan' = <<>> /\ snap' = Empty
    /\ UNCHANGED <<serverVars, again, fetchVars, viewVars, unsaid>>

-----------------------------------------------------------------------------
(* The browser's store.                                                    *)

Shows(rows, S) ==
    /\ view' = [h \in Hosts |-> IF h \in S THEN rows[h] ELSE view[h]]
    /\ seen' = [h \in Hosts |-> IF h \in S THEN Newer(rows[h], seen[h])
                                           ELSE seen[h]]

\* Store.deleteGroup takes every host with it that is shown in the group.
ShowsNoGroup(g) ==
    /\ view' = [h \in Hosts |-> IF home[h][Number(view[h])] = g
                                THEN -Number(view[h]) ELSE view[h]]
    /\ UNCHANGED seen

\* onWsMessage; setHosts replaces the whole map.
Deliver ==
    LET msg == Head(chan) IN
    /\ conn = "open" /\ chan # <<>>
    /\ chan' = Tail(chan)
    /\ CASE msg.type = "host" ->
              /\ Shows([h \in Hosts |-> msg.val], {msg.host})
              /\ UNCHANGED <<missed, fetchVars>>
         [] msg.type = "snapshot" ->
              /\ Shows(msg.rows, Hosts)
              /\ UNCHANGED <<missed, fetchVars>>
         [] msg.type = "group_deleted" ->
              /\ ShowsNoGroup(msg.group)
              /\ UNCHANGED <<missed, fetchVars>>
         [] msg.type = "group_renamed" ->
              /\ Asks(Tables)
              /\ UNCHANGED viewVars
         [] msg.type = "group_updated" ->
              UNCHANGED <<fetchVars, viewVars>>
    /\ UNCHANGED <<serverVars, linkVars, unsaid, faults>>

\* The server reads the rows for a GET; list_groups first inserts the rows of
\* the groups that only hosts name.
Answers(t) ==
    /\ fetch[t] = "asked"
    /\ fetch' = [fetch EXCEPT ![t] = "answered"]
    /\ IF t = "hosts"
       THEN answer' = db /\ UNCHANGED groups
       ELSE /\ groups' = groups \cup {g \in Groups : Members(g) # {}}
            /\ UNCHANGED answer
    /\ UNCHANGED <<db, home, changes, req, about, outbox, linkVars, chan,
                   viewVars, unsaid, faults>>

\* The bootstrap loads the groups, then the hosts, then connects.
FetchEnds(t) ==
    /\ fetch' = [fetch EXCEPT ![t] = "none",
                    !["hosts"] = IF conn = "boot" /\ t = "groups" THEN "asked"
                                 ELSE IF t = "hosts" THEN "none" ELSE @]
    /\ conn' = IF conn = "boot" /\ t = "hosts" THEN "down" ELSE conn
    /\ answer' = IF t = "hosts" THEN Empty ELSE answer
    /\ UNCHANGED <<serverVars, srv, dropped, snap, again, chan, unsaid>>

\* setHosts, setGroups.
FetchArrives(t) ==
    /\ fetch[t] = "answered"
    /\ IF t = "hosts" THEN Shows(answer, Hosts) ELSE UNCHANGED <<view, seen>>
    /\ FetchEnds(t)
    /\ UNCHANGED <<missed, faults>>

\* loadHosts and loadGroups log a failure and go on.
FetchFails(t) ==
    /\ fetch[t] # "none"
    /\ faults < MaxFaults /\ faults' = faults + 1
    /\ missed' = TRUE
    /\ FetchEnds(t)
    /\ UNCHANGED <<view, seen>>

-----------------------------------------------------------------------------
Request(r) ==
    \/ \E h \in Hosts, g \in Groups : CreateHost(r, h, g) \/ UpdateHost(r, h, g)
    \/ \E h \in Hosts : DeleteHost(r, h)
    \/ \E g \in Groups : UpdateGroup(r, g) \/ ListMembers(r, g)
    \/ \E old, new \in Groups : RenameGroup(r, old, new)

Deletion(r) == DeleteGroup(r) \/ DeleteGroupFails(r)

Endpoint == JoinHub \/ ReadSnapshot \/ SendSnapshot

Next ==
    \/ \E r \in Requests : \/ Request(r) \/ Deletion(r)
                          \/ ReadBack(r) \/ ReadBackFails(r) \/ Broadcast(r)
    \/ Open \/ Endpoint \/ Disconnect
    \/ Deliver
    \/ \E t \in Tables : Answers(t) \/ FetchArrives(t) \/ FetchFails(t)

Spec == Init /\ [][Next]_vars

ServerStep ==
    \/ \E r \in Requests : Deletion(r) \/ ReadBack(r) \/ Broadcast(r)
    \/ Endpoint
    \/ \E t \in Tables : Answers(t)

BrowserStep == Open \/ Deliver \/ \E t \in Tables : FetchArrives(t)

(* The server works off what it has begun, and the browser handles what it  *)
(* is sent and reconnects after every break.  Nobody has to make a request, *)
(* and no connection has to break.                                          *)
Fairness == WF_vars(ServerStep) /\ WF_vars(BrowserStep)

FairSpec == Spec /\ Fairness

-----------------------------------------------------------------------------
\* Nothing is under way between server and browser, and both sides believe in
\* the connection.
Quiescent ==
    /\ \A r \in Requests : req[r] = "idle"
    /\ conn = "open" /\ srv = "ready" /\ ~dropped
    /\ chan = <<>>
    /\ \A t \in Tables : fetch[t] = "none"

\* A connected browser has shown the latest change of every host, whatever was
\* committed while it was loading, connecting, disconnected or being sent its
\* snapshot, except a change that no request announces: the deletion, with its
\* group, of a host that joined it after delete_group had listed the ids, and a
\* change whose read-back failed.  Such a change is missed only until another
\* one of the host is announced or the browser connects again.  (What was shown
\* may be gone since: see BrowsersInSync.)
NoHostChangeMissed ==
    Quiescent /\ ~missed =>
        \A h \in Hosts : Number(db[h]) \in {seen[h], unsaid[h]}

\* api.py:3-4: "WebSocket broadcasts of CRUD events are emitted via the
\* WebSocketHub so all connected browsers stay in sync".
BrowsersInSync ==
    Quiescent /\ ~missed =>
        \A h \in Hosts : view[h] = db[h] \/ (view[h] <= 0 /\ db[h] <= 0)

\* A browser whose last connection stands catches up with the server, unless
\* the hub has dropped it.
CatchesUp == <>[](Quiescent \/ dropped)
=============================================================================
