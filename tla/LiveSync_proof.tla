--------------------------- MODULE LiveSync_proof ---------------------------
(***************************************************************************)
(* LiveSync: the types, that nothing is shown that was not committed, and  *)
(* that no announced change of a host is missed, for any hosts, groups,    *)
(* requests and bounds, and any number of messages in flight.              *)
(***************************************************************************)
EXTENDS LiveSync, SequenceTheorems, FiniteSetTheorems, TLAPS

LEMMA BoundsAreNumbers == MaxChanges \in Nat \ {0} /\ MaxFaults \in Nat
BY BoundsAssumption

LEMMA SomeGroupIsOne == SomeGroup \in Groups
BY GroupsAssumption DEF SomeGroup

LEMMA NoHostIsAGroup == \A h \in Hosts : h \notin Groups /\ (Exists(h) <=> db[h] > 0)
BY GroupsAssumption DEF Exists

LEMMA NumberTyped ==
    ASSUME NEW v \in Versions
    PROVE  /\ v \in Int /\ Number(v) \in 0..MaxChanges
           /\ -Number(v) \in Versions /\ Number(-Number(v)) = Number(v)
           /\ v >= 0 => Number(v) = v
           /\ v < 0 => Number(v) = -v
BY BoundsAreNumbers DEF Versions, Number

LEMMA NewerTyped ==
    ASSUME NEW v \in Versions, NEW w \in 0..MaxChanges
    PROVE  /\ Newer(v, w) \in 0..MaxChanges
           /\ Newer(v, w) = IF Number(v) > w THEN Number(v) ELSE w
BY BoundsAreNumbers DEF Versions, Number, Newer

LEMMA EmptyTyped ==
    /\ Empty \in Rows /\ Empty \in [Hosts -> 0..MaxChanges]
    /\ \A h \in Hosts : Empty[h] = 0 /\ Number(Empty[h]) = 0
BY BoundsAreNumbers DEF Empty, Rows, Versions, Number

LEMMA SaysTyped ==
    ASSUME NEW h \in Hosts, NEW v \in Versions
    PROVE  /\ Says(h, v) \in Messages
           /\ Says(h, v).type = "host" /\ Says(h, v).host = h
           /\ Says(h, v).val = v
BY DEF Says, Messages

LEMMA MessageParts ==
    ASSUME NEW m \in Messages
    PROVE  /\ m.type \in {"host", "group_updated", "group_deleted",
                          "group_renamed", "snapshot"}
           /\ m.type = "host" => m.host \in Hosts /\ m.val \in Versions
           /\ m.type = "group_deleted" => m.group \in Groups
           /\ m.type = "snapshot" => m.rows \in Rows
BY DEF Messages

-----------------------------------------------------------------------------
(* What a request does to the tables and leaves to be said.                 *)

\* A host cannot have changed more often than anything was requested, and while
\* a group's deletion is under way there is a change left for each live host.
Counted ==
    /\ \A h \in Hosts : Number(db[h]) <= changes
    /\ \A r \in Requests : req[r] = "listed" => \A h \in Hosts : db[h] < changes

RenamesAreGroups ==
    \A r \in Requests : req[r] \in {"renamed", "listed"} => about[r] \in Groups

\* A request that is sending has something to send.
SendersHaveMessages ==
    \A r \in Requests : req[r] = "sending" => outbox[r] # <<>>

ListsNameHosts ==
    \A r \in Requests : req[r] = "listed" =>
        \A i \in 1..Len(outbox[r]) : outbox[r][i].type = "host"

\* The parts of the state that a request may change.
RequestTyped ==
    /\ db \in Rows /\ changes \in 0..MaxChanges /\ Counted
    /\ home \in [Hosts -> [0..MaxChanges -> Groups]]
    /\ groups \subseteq Groups
    /\ req \in [Requests -> Stages]
    /\ about \in [Requests -> Hosts \cup Groups]
    /\ outbox \in [Requests -> Seq(Messages)]
    /\ RenamesAreGroups /\ SendersHaveMessages /\ ListsNameHosts

\* The rest.
BrowserTyped ==
    /\ conn \in {"boot", "down", "open"}
    /\ srv \in {"none", "accepted", "hub", "read", "ready"}
    /\ dropped \in BOOLEAN
    /\ snap \in Rows
    /\ chan \in Seq(Messages)
    /\ fetch \in [Tables -> {"none", "asked", "answered"}]
    /\ answer \in Rows
    /\ view \in Rows
    /\ seen \in [Hosts -> 0..MaxChanges]
    /\ missed \in BOOLEAN
    /\ again \in BOOLEAN
    /\ faults \in 0..MaxFaults

UnsaidTyped == unsaid \in [Hosts -> 0..MaxChanges]

Typed == RequestTyped /\ BrowserTyped /\ UnsaidTyped

\* A host changes by one version at a time, and never once it is deleted.
Steps(h) == \/ db'[h] = db[h]
            \/ db[h] >= 0 /\ Number(db'[h]) = db[h] + 1

\* The group of its present version is what it was.
Stays(h) == home'[h][Number(db[h])] = HomeOf(h)

LEMMA HostsTyped ==
    ASSUME Typed, NEW h \in Hosts
    PROVE  /\ db[h] \in Versions /\ db[h] \in Int
           /\ Number(db[h]) \in 0..MaxChanges /\ Number(db[h]) <= changes
           /\ Next1(h) = Number(db[h]) + 1 /\ HomeOf(h) \in Groups
BY NumberTyped DEF Typed, RequestTyped, Rows, Counted, Next1, HomeOf

LEMMA ChangeDoes ==
    ASSUME Typed, NEW S, NEW D, Change(S, D),
           changes' \in 0..MaxChanges, changes <= changes',
           \A h \in Hosts : h \in S => db[h] >= 0 /\ db[h] < changes',
           \A h \in Hosts : h \in D => db[h] > 0 /\ db[h] < changes'
    PROVE  /\ db' \in Rows
           /\ \A h \in Hosts :
                 /\ Number(db'[h]) <= changes' /\ Steps(h)
                 /\ h \in S => db'[h] = Next1(h) /\ db'[h] > 0
                 /\ h \notin S /\ h \in D => /\ db'[h] = -Next1(h)
                                             /\ -Next1(h) \in Versions
                                             /\ Number(db'[h]) = Next1(h)
                                             /\ Next1(h) \in 0..MaxChanges
                 /\ h \notin S /\ h \notin D => db'[h] = db[h]
<1>1. ASSUME NEW h \in Hosts
      PROVE  /\ db'[h] \in Versions
             /\ Number(db'[h]) <= changes' /\ Steps(h)
             /\ h \in S => db'[h] = Next1(h) /\ db'[h] > 0
             /\ h \notin S /\ h \in D => /\ db'[h] = -Next1(h)
                                         /\ -Next1(h) \in Versions
                                         /\ Number(db'[h]) = Next1(h)
                                         /\ Next1(h) \in 0..MaxChanges
             /\ h \notin S /\ h \notin D => db'[h] = db[h]
  <2>1. /\ db[h] \in Versions /\ db[h] \in Int /\ Number(db[h]) \in 0..MaxChanges
        /\ Number(db[h]) <= changes /\ Next1(h) = Number(db[h]) + 1
        /\ db[h] >= 0 => Number(db[h]) = db[h]
    BY HostsTyped, NumberTyped
  <2>2. db'[h] = IF h \in S THEN Next1(h)
                 ELSE IF h \in D THEN -Next1(h) ELSE db[h]
    BY DEF Change
  <2>3. CASE h \in S
    <3>1. db'[h] = db[h] + 1 /\ db'[h] \in 1..changes' /\ db[h] >= 0
      BY <2>1, <2>2, <2>3, BoundsAreNumbers
    <3>2. db'[h] \in Versions /\ Number(db'[h]) = db'[h]
      BY <3>1, BoundsAreNumbers DEF Versions, Number
    <3> QED BY <2>1, <2>2, <2>3, <3>1, <3>2, BoundsAreNumbers DEF Steps
  <2>4. CASE h \notin S /\ h \in D
    <3>1. db'[h] = -(db[h] + 1) /\ db[h] + 1 \in 1..changes' /\ db[h] >= 0
      BY <2>1, <2>2, <2>4, BoundsAreNumbers
    <3>2. db'[h] \in Versions /\ Number(db'[h]) = db[h] + 1
      BY <3>1, BoundsAreNumbers DEF Versions, Number
    <3>3. db[h] + 1 = Next1(h) /\ Next1(h) \in 0..MaxChanges
      BY <2>1, <3>1, BoundsAreNumbers
    <3> QED BY <2>2, <2>4, <3>1, <3>2, <3>3 DEF Steps
  <2>5. CASE h \notin S /\ h \notin D
    <3>1. changes \in Nat /\ changes' \in Nat /\ changes <= changes'
      BY BoundsAreNumbers DEF Typed, RequestTyped
    <3>2. db'[h] = db[h] /\ Number(db'[h]) <= changes'
      BY <2>1, <2>2, <2>5, <3>1
    <3> QED BY <2>1, <2>5, <3>2 DEF Steps
  <2> QED BY <2>3, <2>4, <2>5
<1>2. db' \in Rows
  <2>1. db' = [h \in Hosts |-> db'[h]]
    BY DEF Change
  <2> QED BY <1>1, <2>1 DEF Rows
<1> QED BY <1>1, <1>2

LEMMA MoveDoes ==
    ASSUME Typed, NEW S, NEW g \in Groups, MoveTo(S, g)
    PROVE  /\ home' \in [Hosts -> [0..MaxChanges -> Groups]]
           /\ \A h \in Hosts : Stays(h)
           /\ \A h \in Hosts : h \in S /\ Next1(h) <= MaxChanges
                                  => home'[h][Next1(h)] = g
<1>1. home \in [Hosts -> [0..MaxChanges -> Groups]]
  BY DEF Typed, RequestTyped
<1>2. home' \in [Hosts -> [0..MaxChanges -> Groups]]
  BY <1>1 DEF MoveTo
<1>3. ASSUME NEW h \in Hosts, NEW n \in 0..MaxChanges
      PROVE  home'[h][n] = IF h \in S /\ n > Number(db[h]) THEN g ELSE home[h][n]
  BY DEF MoveTo
<1>4. ASSUME NEW h \in Hosts
      PROVE  /\ Stays(h)
             /\ h \in S /\ Next1(h) <= MaxChanges => home'[h][Next1(h)] = g
  <2>1. Number(db[h]) \in 0..MaxChanges /\ Next1(h) = Number(db[h]) + 1
    BY HostsTyped
  <2>2. ~(Number(db[h]) > Number(db[h])) /\ Next1(h) > Number(db[h])
    BY <2>1
  <2>3. Next1(h) <= MaxChanges => Next1(h) \in 0..MaxChanges
    BY <2>1, BoundsAreNumbers
  <2> QED BY <1>3, <2>1, <2>2, <2>3 DEF Stays, HomeOf
<1> QED BY <1>2, <1>4

LEMMA ContinueTyped ==
    ASSUME Typed, NEW r \in Requests, NEW o \in Hosts \cup Groups,
           NEW msgs \in Seq(Messages), NEW p \in Stages,
           Continue(r, p, o, msgs)
    PROVE  /\ req' \in [Requests -> Stages]
           /\ about' \in [Requests -> Hosts \cup Groups]
           /\ outbox' \in [Requests -> Seq(Messages)]
           /\ req'[r] = p /\ outbox'[r] = msgs
           /\ p # "idle" => about'[r] = o
           /\ \A q \in Requests : q # r => /\ req'[q] = req[q]
                                           /\ about'[q] = about[q]
                                           /\ outbox'[q] = outbox[q]
BY SomeGroupIsOne DEF Typed, RequestTyped, Continue

LEMMA FewMessages ==
    ASSUME NEW m \in Messages, NEW n \in Messages
    PROVE  /\ <<>> \in Seq(Messages) /\ Len(<<>>) = 0
           /\ <<m>> \in Seq(Messages) /\ <<m, n>> \in Seq(Messages)
           /\ <<m>> # <<>> /\ <<m, n>> # <<>>
           /\ Len(<<m>>) = 1 /\ Len(<<m, n>>) = 2
           /\ <<m>>[1] = m /\ <<m, n>>[1] = m /\ <<m, n>>[2] = n
OBVIOUS

\* What is new in a message about a host, and what it brings about.
Tells(m, h) ==
    \/ m.type = "host" /\ m.host = h /\ Number(m.val) = Number(db[h])
    \/ m.type = "snapshot" /\ Number(m.rows[h]) = Number(db[h])
    \/ m.type = "group_renamed"

\* Version v of host h is no later than its latest one, and not a live one after
\* its deletion.
Was(h, v) == /\ Number(v) <= Number(db[h])
             /\ v > 0 /\ db[h] < 0 => v < Number(db[h])

\* A message never tells of a change that was not committed.
Honest(m) ==
    /\ m.type = "host" => \A h \in Hosts : m.host = h => Was(h, m.val)
    /\ m.type = "snapshot" => \A h \in Hosts : Was(h, m.rows[h])

\* Request r still has to tell the browsers of the newest change of h.
Promised(r, h) ==
    \/ req[r] = "committed" /\ about[r] = h /\ db[h] > 0
    \/ /\ req[r] = "renamed" /\ db[h] > 0
       /\ about[r] = HomeOf(h) /\ about[r] \in groups
    \/ /\ req[r] = "sending"
       /\ \E i \in 1..Len(outbox[r]) : Tells(outbox[r][i], h)

\* What any request does in one transaction: each host it changes, it takes upon
\* itself to tell of, unless nobody will; no group loses its row but with its
\* hosts.
RequestDone(r) ==
    /\ req[r] \in {"idle", "listed"}
    /\ \A q \in Requests : q # r => /\ req'[q] = req[q] /\ about'[q] = about[q]
                                    /\ outbox'[q] = outbox[q]
    /\ \A h \in Hosts :
          /\ Steps(h) /\ Stays(h)
          /\ db'[h] = db[h] \/ Promised(r, h)' \/ unsaid'[h] = Number(db'[h])
          /\ unsaid'[h] \in {unsaid[h], Number(db'[h])}
          /\ db'[h] = db[h] /\ db[h] > 0 /\ HomeOf(h) \in groups
                => HomeOf(h) \in groups'
    /\ (\A i \in 1..Len(outbox[r]) : Honest(outbox[r][i]))'
    /\ UNCHANGED Elsewhere

\* The tables keep their types and counts when a request begins.
LEMMA BeginsTyped ==
    ASSUME Typed, NEW r \in Requests, NEW o \in Hosts \cup Groups,
           NEW msgs \in Seq(Messages), NEW p \in Stages,
           Begins(r), Continue(r, p, o, msgs), unsaid' = unsaid,
           db' \in Rows, \A h \in Hosts : Steps(h),
           home' \in [Hosts -> [0..MaxChanges -> Groups]],
           groups' \subseteq Groups,
           p \in {"renamed", "listed"} => o \in Groups,
           p = "sending" => msgs # <<>>,
           p = "listed" => /\ db' = db
                           /\ \A i \in 1..Len(msgs) : msgs[i].type = "host"
    PROVE  /\ RequestTyped' /\ UnsaidTyped'
           /\ req[r] = "idle" /\ req'[r] = p /\ outbox'[r] = msgs
           /\ p # "idle" => about'[r] = o
           /\ \A q \in Requests : q # r => /\ req'[q] = req[q]
                                           /\ about'[q] = about[q]
                                           /\ outbox'[q] = outbox[q]
<1>1. changes \in 0..MaxChanges /\ changes' = changes + 1 /\ req[r] = "idle"
      /\ changes' \in 0..MaxChanges
  BY BoundsAreNumbers DEF Begins, Typed, RequestTyped
<1>2. /\ req' \in [Requests -> Stages]
      /\ about' \in [Requests -> Hosts \cup Groups]
      /\ outbox' \in [Requests -> Seq(Messages)]
      /\ req'[r] = p /\ outbox'[r] = msgs
      /\ p # "idle" => about'[r] = o
      /\ \A q \in Requests : q # r => /\ req'[q] = req[q]
                                      /\ about'[q] = about[q]
                                      /\ outbox'[q] = outbox[q]
  BY ContinueTyped
<1>3. ASSUME NEW h \in Hosts
      PROVE  Number(db'[h]) <= changes' /\ db'[h] < changes' + 1
             /\ (db[h] < changes => db'[h] < changes')
             /\ (db'[h] = db[h] => db'[h] < changes')
  <2>1. /\ db[h] \in Int /\ Number(db[h]) \in 0..MaxChanges
        /\ Number(db[h]) <= changes
        /\ db[h] >= 0 => Number(db[h]) = db[h]
        /\ db[h] < 0 => Number(db[h]) = -db[h]
    BY HostsTyped, NumberTyped
  <2>2. /\ db'[h] \in Int /\ Number(db'[h]) \in 0..MaxChanges
        /\ db'[h] >= 0 => Number(db'[h]) = db'[h]
        /\ db'[h] < 0 => Number(db'[h]) = -db'[h]
    BY NumberTyped DEF Rows
  <2>3. \/ db'[h] = db[h]
        \/ db[h] >= 0 /\ Number(db'[h]) = db[h] + 1
    BY DEF Steps
  <2>4. db'[h] <= Number(db'[h]) /\ db[h] <= Number(db[h])
    BY <2>1, <2>2
  <2>5. CASE db'[h] = db[h]
    BY <1>1, <2>1, <2>2, <2>4, <2>5, BoundsAreNumbers
  <2>6. CASE db[h] >= 0 /\ Number(db'[h]) = db[h] + 1
    BY <1>1, <2>1, <2>2, <2>4, <2>6, BoundsAreNumbers
  <2> QED BY <2>3, <2>5, <2>6
<1>4. ASSUME NEW q \in Requests, req'[q] = "listed", NEW h \in Hosts
      PROVE  db'[h] < changes'
  <2>1. CASE q = r
    BY <1>2, <1>3, <1>4, <2>1
  <2>2. CASE q # r
    BY <1>2, <1>3, <1>4, <2>2 DEF Typed, RequestTyped, Counted
  <2> QED BY <2>1, <2>2
<1>5. Counted'
  BY <1>3, <1>4 DEF Counted
<1>6. RenamesAreGroups' /\ SendersHaveMessages' /\ ListsNameHosts'
  <2>1. \A q \in Requests : req'[q] \in {"renamed", "listed"} => about'[q] \in Groups
    BY <1>2 DEF Typed, RequestTyped, RenamesAreGroups
  <2>2. \A q \in Requests : req'[q] = "sending" => outbox'[q] # <<>>
    BY <1>2 DEF Typed, RequestTyped, SendersHaveMessages
  <2>3. \A q \in Requests : req'[q] = "listed" =>
            \A i \in 1..Len(outbox'[q]) : outbox'[q][i].type = "host"
    <3>1. ASSUME NEW q \in Requests, req'[q] = "listed", q # r
          PROVE  \A i \in 1..Len(outbox'[q]) : outbox'[q][i].type = "host"
      BY <1>2, <3>1 DEF Typed, RequestTyped, ListsNameHosts
    <3>2. req'[r] = "listed" =>
              \A i \in 1..Len(outbox'[r]) : outbox'[r][i].type = "host"
      BY <1>2
    <3> QED BY <3>1, <3>2
  <2> QED BY <2>1, <2>2, <2>3
          DEF RenamesAreGroups, SendersHaveMessages, ListsNameHosts
<1>7. UnsaidTyped'
  BY DEF Typed, UnsaidTyped
<1> QED BY <1>1, <1>2, <1>5, <1>6, <1>7 DEF RequestTyped

\* A request that reads back what it changed.
LEMMA ReaderDone ==
    ASSUME Typed, NEW r \in Requests, NEW o \in Hosts \cup Groups,
           NEW S \in SUBSET Hosts, NEW p \in {"committed", "renamed"},
           NEW g \in Groups, p = "renamed" => o = g,
           Begins(r), Continue(r, p, o, <<>>), unsaid' = unsaid,
           UNCHANGED Elsewhere,
           Change(S, {}), MoveTo(S, g),
           \A h \in S : db[h] >= 0 /\ (p = "renamed" \/ h = o),
           groups' \subseteq Groups, p = "renamed" => g \in groups',
           \A x \in groups \ groups' : Members(x) \subseteq S
    PROVE  RequestTyped' /\ UnsaidTyped' /\ RequestDone(r)
<1>1. changes \in 0..MaxChanges /\ changes' = changes + 1 /\ changes' \in 0..MaxChanges
  BY BoundsAreNumbers DEF Begins, Typed, RequestTyped
<1>2. \A h \in Hosts : h \in S => db[h] >= 0 /\ db[h] < changes'
  BY <1>1, HostsTyped, NumberTyped
<1>3. /\ db' \in Rows
      /\ \A h \in Hosts : /\ Number(db'[h]) <= changes' /\ Steps(h)
                          /\ h \in S => db'[h] = Next1(h) /\ db'[h] > 0
                          /\ h \notin S => db'[h] = db[h]
  <2>1. \A h \in Hosts : h \in {} => db[h] > 0 /\ db[h] < changes'
    OBVIOUS
  <2>2. changes <= changes'
    BY <1>1
  <2> QED BY <1>1, <1>2, <2>1, <2>2, ChangeDoes
<1>4. /\ home' \in [Hosts -> [0..MaxChanges -> Groups]]
      /\ \A h \in Hosts : Stays(h)
      /\ \A h \in Hosts : h \in S /\ Next1(h) <= MaxChanges
                                  => home'[h][Next1(h)] = g
  BY MoveDoes
<1>5. p \in Stages /\ p # "idle" /\ p # "sending" /\ p # "listed"
  BY DEF Stages
<1>6. /\ RequestTyped' /\ UnsaidTyped'
      /\ req[r] = "idle" /\ req'[r] = p /\ outbox'[r] = <<>> /\ about'[r] = o
      /\ \A q \in Requests : q # r => /\ req'[q] = req[q]
                                      /\ about'[q] = about[q]
                                      /\ outbox'[q] = outbox[q]
  <2> DEFINE none == <<>>
  <2>1. none \in Seq(Messages) /\ Continue(r, p, o, none)
    OBVIOUS
  <2> HIDE DEF none
  <2>2. /\ RequestTyped' /\ UnsaidTyped'
        /\ req[r] = "idle" /\ req'[r] = p /\ outbox'[r] = none
        /\ p # "idle" => about'[r] = o
        /\ \A q \in Requests : q # r => /\ req'[q] = req[q]
                                        /\ about'[q] = about[q]
                                        /\ outbox'[q] = outbox[q]
    BY <1>3, <1>4, <1>5, <2>1, BeginsTyped
  <2> QED BY <1>5, <2>2 DEF none
<1>7. ASSUME NEW h \in Hosts
      PROVE  db'[h] = db[h] \/ Promised(r, h)'
  <2>1. ASSUME h \in S
        PROVE  Promised(r, h)'
    <3>1. db'[h] > 0 /\ db'[h] = Next1(h)
      BY <1>3, <2>1
    <3>2. CASE p = "committed"
      BY <1>6, <2>1, <3>1, <3>2 DEF Promised
    <3>3. CASE p = "renamed"
      <4>1. db'[h] \in Versions
        BY <1>3 DEF Rows
      <4>2. Number(db'[h]) = Next1(h) /\ Next1(h) <= MaxChanges
        BY <3>1, <4>1, NumberTyped, BoundsAreNumbers
      <4>3. home'[h][Number(db'[h])] = g
        BY <1>4, <2>1, <4>2
      <4>4. about'[r] = HomeOf(h)' /\ about'[r] \in groups'
        BY <1>6, <3>3, <4>3 DEF HomeOf
      <4> QED BY <1>6, <3>1, <3>3, <4>4 DEF Promised
    <3> QED BY <3>2, <3>3
  <2> QED BY <1>3, <2>1
<1>8. ASSUME NEW h \in Hosts, db'[h] = db[h], db[h] > 0, HomeOf(h) \in groups
      PROVE  HomeOf(h) \in groups'
  <2>1. h \notin S
    BY <1>3, <1>8, HostsTyped, NumberTyped
  <2>2. h \in Members(HomeOf(h))
    BY <1>8, NoHostIsAGroup DEF Members
  <2> QED BY <1>8, <2>1, <2>2
<1>9. (\A i \in 1..Len(outbox[r]) : Honest(outbox[r][i]))'
  BY <1>6
<1> QED BY <1>3, <1>4, <1>6, <1>7, <1>8, <1>9 DEF RequestDone

\* A step of request r that changes no host and no group.
LEMMA NothingDone ==
    ASSUME Typed, NEW r \in Requests, req[r] \in {"idle", "listed"},
           \A q \in Requests : q # r => /\ req'[q] = req[q] /\ about'[q] = about[q]
                                        /\ outbox'[q] = outbox[q],
           UNCHANGED <<db, home, unsaid, Elsewhere>>, groups \subseteq groups',
           \A i \in 1..Len(outbox'[r]) :
               \E h \in Hosts : outbox'[r][i] = Says(h, 0)
    PROVE  RequestDone(r)
<1>1. \A h \in Hosts : Steps(h) /\ Stays(h)
  BY DEF Steps, Stays, HomeOf
<1>2. ASSUME NEW i \in 1..Len(outbox'[r])
      PROVE  Honest(outbox[r][i])'
  <2>1. PICK h \in Hosts : outbox'[r][i] = Says(h, 0)
    BY <1>2
  <2>2. /\ outbox'[r][i].type = "host" /\ outbox'[r][i].val = 0
    BY <2>1 DEF Says
  <2>3. \A x \in Hosts : Number(0) <= Number(db[x]) /\ db' = db
    BY HostsTyped DEF Number
  <2> QED BY <2>2, <2>3 DEF Honest, Was
<1> QED BY <1>1, <1>2 DEF RequestDone

LEMMA FunctionIsSequence ==
    ASSUME NEW S, NEW n \in Nat, NEW f \in [1..n -> S]
    PROVE  f \in Seq(S) /\ Len(f) = n
OBVIOUS

LEMMA ConsProperties ==
    ASSUME NEW S, NEW e \in S, NEW s \in Seq(S), NEW n \in Nat, Len(s) = n
    PROVE  /\ <<e>> \o s \in Seq(S) /\ Len(<<e>> \o s) = n + 1
           /\ (<<e>> \o s)[1] = e
           /\ \A i \in 1..n : (<<e>> \o s)[i + 1] = s[i]
           /\ \A i \in 1..(n + 1) : i = 1 \/ \E j \in 1..n : i = j + 1
<1>1. \A i \in 1..(n + 1) : i # 1 => i - 1 \in 1..n /\ i = (i - 1) + 1
  OBVIOUS
<1> QED BY <1>1

\* The ids that delete_group lists, as the messages it will send for them.
Listing(order) == [i \in DOMAIN order |-> Says(order[i], 0)]

LEMMA ListDone ==
    ASSUME Typed, NEW r \in Requests, NEW g \in Groups, ListMembers(r, g)
    PROVE  RequestTyped' /\ UnsaidTyped' /\ RequestDone(r)
<1> DEFINE ids == Members(g)
<1>1. PICK order \in [1..Cardinality(ids) -> ids] :
          Continue(r, "listed", g, Listing(order))
  BY DEF ListMembers, Listing
<1>2. ids \subseteq Hosts /\ IsFiniteSet(ids)
  BY HostsAssumption, FS_Subset DEF Members
<1>3. Cardinality(ids) \in Nat /\ DOMAIN order = 1..Cardinality(ids)
  BY <1>1, <1>2, FS_CardinalityType
<1> DEFINE n == Cardinality(ids)
           msgs == Listing(order)
<1>4. 0 \in Versions
  BY BoundsAreNumbers DEF Versions
<1>5. ASSUME NEW i \in 1..n
      PROVE  /\ order[i] \in Hosts /\ msgs[i] = Says(order[i], 0)
             /\ msgs[i] \in Messages /\ msgs[i].type = "host"
  <2>1. order[i] \in Hosts
    BY <1>1, <1>2
  <2>2. msgs[i] = Says(order[i], 0)
    BY <1>3 DEF Listing
  <2> QED BY <1>4, <2>1, <2>2, SaysTyped
<1>6. msgs \in Seq(Messages) /\ Len(msgs) = n
  <2>1. msgs \in [1..n -> Messages]
    BY <1>3, <1>5 DEF Listing
  <2> HIDE DEF msgs
  <2> QED BY <1>3, <2>1, FunctionIsSequence
<1>7. /\ Begins(r) /\ Continue(r, "listed", g, msgs)
      /\ UNCHANGED <<db, home, groups, unsaid, Elsewhere>>
  BY <1>1 DEF ListMembers
<1>8. db' \in Rows /\ home' \in [Hosts -> [0..MaxChanges -> Groups]]
      /\ groups' \subseteq Groups /\ \A h \in Hosts : Steps(h)
  BY <1>7 DEF Typed, RequestTyped, Steps
<1> HIDE DEF ids, msgs, n
<1>9. /\ RequestTyped' /\ UnsaidTyped' /\ req[r] = "idle" /\ outbox'[r] = msgs
      /\ \A q \in Requests : q # r => /\ req'[q] = req[q]
                                      /\ about'[q] = about[q]
                                      /\ outbox'[q] = outbox[q]
  BY <1>5, <1>6, <1>7, <1>8, BeginsTyped DEF Stages
<1>10. RequestDone(r)
  BY <1>5, <1>6, <1>7, <1>9, NothingDone
<1> QED BY <1>9, <1>10

LEMMA DeleteHostDone ==
    ASSUME Typed, NEW r \in Requests, NEW d \in Hosts, DeleteHost(r, d)
    PROVE  RequestTyped' /\ UnsaidTyped' /\ RequestDone(r)
<1>1. /\ Begins(r) /\ db[d] > 0 /\ Change({}, {d})
      /\ Continue(r, "sending", d, <<Says(d, -Next1(d))>>)
      /\ UNCHANGED <<home, groups, unsaid, Elsewhere>>
  BY NoHostIsAGroup DEF DeleteHost
<1>2. changes \in 0..MaxChanges /\ changes' = changes + 1 /\ changes' \in 0..MaxChanges
  BY <1>1, BoundsAreNumbers DEF Begins, Typed, RequestTyped
<1>3. /\ db' \in Rows
      /\ \A h \in Hosts : Steps(h) /\ (h # d => db'[h] = db[h])
      /\ db'[d] = -Next1(d) /\ -Next1(d) \in Versions
  <2>1. \A h \in Hosts : h \in {} => db[h] >= 0 /\ db[h] < changes'
    OBVIOUS
  <2>2. \A h \in Hosts : h \in {d} => db[h] > 0 /\ db[h] < changes'
    BY <1>1, <1>2, HostsTyped, NumberTyped
  <2>3. changes <= changes'
    BY <1>2
  <2>4. /\ db' \in Rows
        /\ \A h \in Hosts :
              /\ Steps(h)
              /\ h \notin {} /\ h \in {d} => /\ db'[h] = -Next1(h)
                                             /\ -Next1(h) \in Versions
              /\ h \notin {} /\ h \notin {d} => db'[h] = db[h]
    BY <1>1, <1>2, <2>1, <2>2, <2>3, ChangeDoes
  <2> QED BY <2>4
<1>4. PICK m \in Messages : /\ m.type = "host" /\ m.host = d
                            /\ m.val = -Next1(d) /\ m = Says(d, -Next1(d))
  BY <1>3, SaysTyped
<1>5. <<m>> \in Seq(Messages) /\ <<m>> # <<>> /\ Len(<<m>>) = 1 /\ <<m>>[1] = m
  BY <1>4
<1>6. /\ RequestTyped' /\ UnsaidTyped' /\ req[r] = "idle"
      /\ req'[r] = "sending" /\ outbox'[r] = <<m>>
      /\ \A q \in Requests : q # r => /\ req'[q] = req[q]
                                      /\ about'[q] = about[q]
                                      /\ outbox'[q] = outbox[q]
  <2>1. home' \in [Hosts -> [0..MaxChanges -> Groups]] /\ groups' \subseteq Groups
    BY <1>1 DEF Typed, RequestTyped
  <2>2. "sending" \in Stages /\ d \in Hosts \cup Groups
    BY DEF Stages
  <2> DEFINE msgs == <<m>>
  <2>3. msgs \in Seq(Messages) /\ msgs # <<>> /\ Continue(r, "sending", d, msgs)
    BY <1>1, <1>4, <1>5
  <2> HIDE DEF msgs
  <2>4. /\ RequestTyped' /\ UnsaidTyped' /\ req[r] = "idle"
        /\ req'[r] = "sending" /\ outbox'[r] = msgs
        /\ \A q \in Requests : q # r => /\ req'[q] = req[q]
                                        /\ about'[q] = about[q]
                                        /\ outbox'[q] = outbox[q]
    BY <1>1, <1>3, <2>1, <2>2, <2>3, BeginsTyped
  <2> QED BY <2>4 DEF msgs
<1>7. Tells(m, d)'
  BY <1>3, <1>4 DEF Tells
<1>8. Promised(r, d)'
  <2>1. outbox'[r][1] = m /\ 1 \in 1..Len(outbox'[r])
    BY <1>5, <1>6
  <2>2. (outbox[r][1])' = m
    BY <2>1
  <2>3. Tells(outbox[r][1], d)'
    BY <1>7, <2>2 DEF Tells
  <2> QED BY <1>6, <2>1, <2>3 DEF Promised
<1>9. (\A i \in 1..Len(outbox[r]) : Honest(outbox[r][i]))'
  <2>1. db'[d] \in Versions /\ db'[d] <= 0
    BY <1>3, HostsTyped
  <2>2. Was(d, db[d])'
    BY <2>1, NumberTyped DEF Was
  <2>3. \A i \in 1..Len(outbox'[r]) : outbox'[r][i] = m
    BY <1>5, <1>6
  <2> QED BY <1>3, <1>4, <2>2, <2>3 DEF Honest, Was
<1>10. \A h \in Hosts : Stays(h)
  BY <1>1 DEF Stays, HomeOf
<1> QED BY <1>1, <1>3, <1>6, <1>8, <1>9, <1>10 DEF RequestDone

LEMMA DeleteGroupDone ==
    ASSUME Typed, NEW r \in Requests, DeleteGroup(r)
    PROVE  RequestTyped' /\ UnsaidTyped' /\ RequestDone(r)
<1> DEFINE gone == Members(about[r])
           listed == {outbox[r][i].host : i \in DOMAIN outbox[r]}
           Val(h) == IF h \in gone THEN -Next1(h) ELSE 0
           rest == [i \in DOMAIN outbox[r] |->
                       Says(outbox[r][i].host, Val(outbox[r][i].host))]
           first == [type |-> "group_deleted", group |-> about[r]]
<1>1. /\ req[r] = "listed" /\ Change({}, gone) /\ groups' = groups \ {about[r]}
      /\ Continue(r, "sending", about[r], <<first>> \o rest)
      /\ unsaid' = [h \in Hosts |-> IF h \in gone \ listed THEN Next1(h)
                                                           ELSE unsaid[h]]
      /\ UNCHANGED <<home, changes, Elsewhere>>
  BY DEF DeleteGroup
<1>2. \A h \in Hosts : h \in gone <=> db[h] > 0 /\ HomeOf(h) = about[r]
  BY NoHostIsAGroup DEF Members
<1>3. /\ db' \in Rows
      /\ \A h \in Hosts :
            /\ Number(db'[h]) <= changes' /\ Steps(h)
            /\ h \in gone => /\ db'[h] = -Next1(h) /\ -Next1(h) \in Versions
                             /\ Number(db'[h]) = Next1(h)
                             /\ Next1(h) \in 0..MaxChanges
            /\ h \notin gone => db'[h] = db[h]
  <2>1. \A h \in Hosts : h \in {} => db[h] >= 0 /\ db[h] < changes'
    OBVIOUS
  <2>2. \A h \in Hosts : h \in gone => db[h] > 0 /\ db[h] < changes'
    BY <1>1, <1>2 DEF Typed, RequestTyped, Counted
  <2>3. changes' \in 0..MaxChanges /\ changes <= changes'
    BY <1>1, BoundsAreNumbers DEF Typed, RequestTyped
  <2> HIDE DEF gone
  <2>4. /\ db' \in Rows
        /\ \A h \in Hosts :
              /\ Number(db'[h]) <= changes' /\ Steps(h)
              /\ h \notin {} /\ h \in gone => /\ db'[h] = -Next1(h)
                                              /\ -Next1(h) \in Versions
                                              /\ Number(db'[h]) = Next1(h)
                                              /\ Next1(h) \in 0..MaxChanges
              /\ h \notin {} /\ h \notin gone => db'[h] = db[h]
    BY <1>1, <2>1, <2>2, <2>3, ChangeDoes
  <2> QED BY <2>4
<1>4. /\ outbox[r] \in Seq(Messages) /\ about[r] \in Groups
      /\ \A i \in 1..Len(outbox[r]) : /\ outbox[r][i].type = "host"
                                      /\ outbox[r][i].host \in Hosts
  <2>1. outbox[r] \in Seq(Messages)
    BY DEF Typed, RequestTyped
  <2>2. \A i \in 1..Len(outbox[r]) : outbox[r][i] \in Messages
    BY <2>1
  <2>3. \A i \in 1..Len(outbox[r]) : outbox[r][i].type = "host"
    BY <1>1 DEF Typed, RequestTyped, ListsNameHosts
  <2> QED BY <1>1, <2>1, <2>2, <2>3, MessageParts
          DEF Typed, RequestTyped, RenamesAreGroups
<1>5. PICK n \in Nat : n = Len(outbox[r]) /\ DOMAIN outbox[r] = 1..n
  BY <1>4
<1>6. \A h \in Hosts : Val(h) \in Versions
  <2>1. 0 \in Versions
    BY BoundsAreNumbers DEF Versions
  <2> QED BY <1>3, <2>1
<1>7. ASSUME NEW i \in 1..n
      PROVE  /\ rest[i] \in Messages /\ rest[i].type = "host"
             /\ rest[i].host = outbox[r][i].host
             /\ rest[i].val = Val(outbox[r][i].host)
  <2>1. PICK h \in Hosts : h = outbox[r][i].host
    BY <1>4, <1>5
  <2>2. rest[i] = Says(h, Val(h))
    BY <1>5, <2>1
  <2> QED BY <1>6, <2>1, <2>2, SaysTyped
<1>8. rest \in Seq(Messages) /\ Len(rest) = n
  <2>1. rest \in [1..n -> Messages]
    BY <1>5, <1>7
  <2> HIDE DEF rest
  <2> QED BY <2>1, FunctionIsSequence
<1>9. PICK m \in Messages : m = first /\ m.type = "group_deleted"
  <2>1. first \in [type : {"group_deleted"}, group : Groups]
    BY <1>4
  <2>2. first \in Messages /\ first.type = "group_deleted"
    BY <2>1 DEF Messages
  <2> HIDE DEF first
  <2> QED BY <2>2
<1>10. PICK tail \in Seq(Messages) : tail = rest /\ Len(tail) = n
  BY <1>8
<1>11. PICK vals \in [Hosts -> Versions] : \A h \in Hosts : vals[h] = Val(h)
  <2>1. [h \in Hosts |-> Val(h)] \in [Hosts -> Versions]
    BY <1>6
  <2> QED BY <2>1
<1>12. \A i \in 1..n : /\ tail[i].type = "host"
                       /\ tail[i].host = outbox[r][i].host
                       /\ tail[i].host \in Hosts
                       /\ tail[i].val = vals[tail[i].host]
  BY <1>4, <1>5, <1>7, <1>10, <1>11
<1>13. \A h \in Hosts : vals[h] = IF h \in gone THEN db'[h] ELSE 0
  BY <1>3, <1>11
<1>14. PICK msgs \in Seq(Messages) :
          /\ msgs = <<m>> \o tail /\ Len(msgs) = n + 1 /\ msgs[1] = m
          /\ \A i \in 1..n : msgs[i + 1] = tail[i]
          /\ \A i \in 1..(n + 1) : i = 1 \/ \E j \in 1..n : i = j + 1
  <2> HIDE DEF gone, listed, Val, rest, first
  <2>1. /\ <<m>> \o tail \in Seq(Messages) /\ Len(<<m>> \o tail) = n + 1
        /\ (<<m>> \o tail)[1] = m
        /\ \A i \in 1..n : (<<m>> \o tail)[i + 1] = tail[i]
        /\ \A i \in 1..(n + 1) : i = 1 \/ \E j \in 1..n : i = j + 1
    BY <1>10, ConsProperties
  <2> DEFINE s == <<m>> \o tail
  <2>2. s \in Seq(Messages) /\ s = <<m>> \o tail
    BY <2>1
  <2> QED BY <2>1, <2>2
<1>15. Continue(r, "sending", about[r], msgs)
  BY <1>1, <1>9, <1>10, <1>14
<1>16. \A h \in Hosts : h \in gone /\ unsaid'[h] # Next1(h) =>
          \E i \in 1..n : tail[i].host = h
  BY <1>1, <1>5, <1>12
<1>17. \A h \in Hosts : unsaid'[h] = unsaid[h] \/ (h \in gone /\ unsaid'[h] = Next1(h))
  <2> HIDE DEF gone, listed, Val, rest, first
  <2>1. \A h \in Hosts : unsaid'[h] = IF h \in gone \ listed THEN Next1(h)
                                                           ELSE unsaid[h]
    BY <1>1
  <2> SUFFICES ASSUME NEW h \in Hosts
               PROVE  unsaid'[h] = unsaid[h] \/ (h \in gone /\ unsaid'[h] = Next1(h))
    OBVIOUS
  <2>2. CASE h \in gone \ listed
    BY <2>1, <2>2
  <2>3. CASE h \notin gone \ listed
    BY <2>1, <2>3
  <2> QED BY <2>2, <2>3
<1> HIDE DEF gone, listed, Val, rest, first
<1>18. /\ req' \in [Requests -> Stages]
       /\ about' \in [Requests -> Hosts \cup Groups]
       /\ outbox' \in [Requests -> Seq(Messages)]
       /\ req'[r] = "sending" /\ outbox'[r] = msgs
       /\ \A q \in Requests : q # r => /\ req'[q] = req[q]
                                       /\ about'[q] = about[q]
                                       /\ outbox'[q] = outbox[q]
  <2>1. "sending" \in Stages /\ about[r] \in Hosts \cup Groups
    BY <1>4 DEF Stages
  <2> QED BY <1>15, <2>1, ContinueTyped
<1>19. RequestTyped'
  <2>1. Counted'
    <3>1. ASSUME NEW q \in Requests, req'[q] = "listed", NEW h \in Hosts
          PROVE  db'[h] < changes'
      <4>1. req[q] = "listed"
        BY <1>18, <3>1
      <4>2. db[h] < changes /\ db[h] \in Int /\ changes \in Nat
        BY <4>1, HostsTyped, BoundsAreNumbers DEF Typed, RequestTyped, Counted
      <4>3. CASE h \notin gone
        BY <1>1, <1>3, <4>2, <4>3
      <4>4. CASE h \in gone
        <5>1. db'[h] < db[h]
          BY <1>2, <1>3, <4>2, <4>4, HostsTyped
        <5> QED BY <1>1, <1>3, <4>2, <4>4, <5>1, HostsTyped
      <4> QED BY <4>3, <4>4
    <3> QED BY <1>3, <3>1 DEF Counted
  <2>2. RenamesAreGroups' /\ SendersHaveMessages' /\ ListsNameHosts'
    <3>1. \A q \in Requests : req'[q] \in {"renamed", "listed"}
                                 => about'[q] \in Groups
      BY <1>18 DEF Typed, RequestTyped, RenamesAreGroups
    <3>2. msgs # <<>>
      BY <1>14
    <3>3. \A q \in Requests : req'[q] = "sending" => outbox'[q] # <<>>
      BY <1>18, <3>2 DEF Typed, RequestTyped, SendersHaveMessages
    <3>4. \A q \in Requests : req'[q] = "listed" =>
              \A i \in 1..Len(outbox'[q]) : outbox'[q][i].type = "host"
      BY <1>18 DEF Typed, RequestTyped, ListsNameHosts
    <3> QED BY <3>1, <3>3, <3>4
            DEF RenamesAreGroups, SendersHaveMessages, ListsNameHosts
  <2>3. /\ changes' \in 0..MaxChanges /\ groups' \subseteq Groups
        /\ home' \in [Hosts -> [0..MaxChanges -> Groups]]
    BY <1>1 DEF Typed, RequestTyped
  <2> QED BY <1>3, <1>18, <2>1, <2>2, <2>3 DEF RequestTyped
<1>20. UnsaidTyped'
  <2>1. unsaid' = [h \in Hosts |-> unsaid'[h]]
    BY <1>1
  <2>2. \A h \in Hosts : unsaid'[h] \in 0..MaxChanges
    BY <1>3, <1>17 DEF Typed, UnsaidTyped
  <2> QED BY <2>1, <2>2 DEF UnsaidTyped
<1>21. ASSUME NEW h \in Hosts
       PROVE  /\ db'[h] = db[h] \/ Promised(r, h)' \/ unsaid'[h] = Number(db'[h])
              /\ unsaid'[h] \in {unsaid[h], Number(db'[h])}
              /\ db'[h] = db[h] /\ db[h] > 0 /\ HomeOf(h) \in groups
                    => HomeOf(h) \in groups'
  <2>1. unsaid'[h] \in {unsaid[h], Number(db'[h])}
    BY <1>3, <1>17
  <2>2. db'[h] = db[h] /\ db[h] > 0 => HomeOf(h) # about[r]
    BY <1>2, <1>3, HostsTyped, NumberTyped
  <2>3. ASSUME h \in gone, unsaid'[h] # Next1(h)
        PROVE  Promised(r, h)'
    <3>1. PICK i \in 1..n : tail[i].host = h
      BY <1>16, <2>3
    <3>2. i + 1 \in 1..Len(outbox'[r]) /\ outbox'[r][i + 1] = tail[i]
      BY <1>14, <1>18
    <3>3. (outbox'[r][i + 1]).type = "host" /\ (outbox'[r][i + 1]).host = h
          /\ (outbox'[r][i + 1]).val = db'[h]
      BY <1>12, <1>13, <2>3, <3>1, <3>2
    <3>4. Tells(outbox[r][i + 1], h)'
      BY <3>3 DEF Tells
    <3> QED BY <1>18, <3>2, <3>4 DEF Promised
  <2> QED BY <1>1, <1>3, <2>1, <2>2, <2>3
<1>22. ASSUME NEW i \in 1..Len(outbox'[r])
       PROVE  Honest(outbox[r][i])'
  <2>1. CASE i = 1
    <3>1. (outbox'[r][i]).type = "group_deleted"
      BY <1>9, <1>14, <1>18, <2>1
    <3> QED BY <3>1 DEF Honest
  <2>2. ASSUME NEW j \in 1..n, i = j + 1
        PROVE  Honest(outbox[r][i])'
    <3>1. outbox'[r][i] = tail[j]
      BY <1>14, <1>18, <2>2
    <3>2. PICK h \in Hosts : h = tail[j].host
      BY <1>12
    <3>3. /\ (outbox'[r][i]).type = "host" /\ (outbox'[r][i]).host = h
          /\ (outbox'[r][i]).val \in {db'[h], 0}
      BY <1>12, <1>13, <3>1, <3>2
    <3>4. Was(h, db[h])' /\ Was(h, 0)'
      <4>1. db'[h] \in Versions
        BY <1>3 DEF Rows
      <4>2. db'[h] \in Int /\ Number(db'[h]) \in Nat
        BY <4>1, NumberTyped, BoundsAreNumbers
      <4>3. Number(0) = 0
        BY DEF Number
      <4> QED BY <4>2, <4>3 DEF Was
    <3>5. Was(h, outbox[r][i].val)'
      BY <3>3, <3>4 DEF Was
    <3> QED BY <3>3, <3>5 DEF Honest
  <2> QED BY <1>14, <1>18, <2>1, <2>2
<1>23. \A h \in Hosts : Stays(h)
  BY <1>1 DEF Stays, HomeOf
<1>24. /\ req[r] \in {"idle", "listed"} /\ UNCHANGED Elsewhere
       /\ \A q \in Requests : q # r => /\ req'[q] = req[q]
                                       /\ about'[q] = about[q]
                                       /\ outbox'[q] = outbox[q]
  BY <1>1, <1>18
<1>25. (\A i \in 1..Len(outbox[r]) : Honest(outbox[r][i]))'
  BY <1>22
<1> QED BY <1>3, <1>19, <1>20, <1>21, <1>23, <1>24, <1>25 DEF RequestDone

LEMMA GroupDone ==
    ASSUME Typed, NEW r \in Requests, NEW g \in Groups, UpdateGroup(r, g)
    PROVE  RequestTyped' /\ UnsaidTyped' /\ RequestDone(r)
<1> DEFINE none == <<>>
<1>1. /\ Begins(r) /\ Continue(r, "committed", g, none)
      /\ groups' = groups \cup {g}
      /\ UNCHANGED <<db, home, unsaid, Elsewhere>>
  BY DEF UpdateGroup
<1>2. db' \in Rows /\ home' \in [Hosts -> [0..MaxChanges -> Groups]]
      /\ groups' \subseteq Groups /\ \A h \in Hosts : Steps(h)
  BY <1>1 DEF Typed, RequestTyped, Steps
<1>3. none \in Seq(Messages) /\ Len(none) = 0 /\ "committed" \in Stages
  BY DEF Stages
<1> HIDE DEF none
<1>4. /\ RequestTyped' /\ UnsaidTyped' /\ req[r] = "idle" /\ outbox'[r] = none
      /\ \A q \in Requests : q # r => /\ req'[q] = req[q]
                                      /\ about'[q] = about[q]
                                      /\ outbox'[q] = outbox[q]
  BY <1>1, <1>2, <1>3, BeginsTyped
<1>5. groups \subseteq groups' /\ \A i \in 1..Len(outbox'[r]) : FALSE
  BY <1>1, <1>3, <1>4
<1>6. RequestDone(r)
  BY <1>1, <1>4, <1>5, NothingDone
<1> QED BY <1>4, <1>6

LEMMA NoDeletionDone ==
    ASSUME Typed, NEW r \in Requests, DeleteGroupFails(r)
    PROVE  RequestTyped' /\ UnsaidTyped' /\ RequestDone(r)
<1>1. PICK none \in Seq(Messages) : none = <<>> /\ Len(none) = 0
  <2> DEFINE s == <<>>
  <2>1. s \in Seq(Messages) /\ s = <<>> /\ Len(s) = 0
    OBVIOUS
  <2> HIDE DEF s
  <2> QED BY <2>1
<1>2. PICK p \in Stages : p = "idle"
  BY DEF Stages
<1>3. /\ req[r] = "listed" /\ Continue(r, p, about[r], none)
      /\ UNCHANGED <<db, home, groups, changes, unsaid, Elsewhere>>
  BY <1>1, <1>2 DEF DeleteGroupFails
<1>4. about[r] \in Hosts \cup Groups
  BY DEF Typed, RequestTyped
<1>5. /\ req' \in [Requests -> Stages]
      /\ about' \in [Requests -> Hosts \cup Groups]
      /\ outbox' \in [Requests -> Seq(Messages)]
      /\ req'[r] = p /\ outbox'[r] = none
      /\ \A q \in Requests : q # r => /\ req'[q] = req[q]
                                      /\ about'[q] = about[q]
                                      /\ outbox'[q] = outbox[q]
  BY <1>3, <1>4, ContinueTyped
<1>6. RequestTyped' /\ UnsaidTyped'
  <2>1. Counted'
    BY <1>2, <1>3, <1>5 DEF Typed, RequestTyped, Counted
  <2>2. RenamesAreGroups' /\ SendersHaveMessages' /\ ListsNameHosts'
    BY <1>2, <1>5 DEF Typed, RequestTyped, RenamesAreGroups,
                      SendersHaveMessages, ListsNameHosts
  <2> QED BY <1>3, <1>5, <2>1, <2>2 DEF Typed, RequestTyped, UnsaidTyped
<1>7. groups \subseteq groups' /\ \A i \in 1..Len(outbox'[r]) : FALSE
  BY <1>1, <1>3, <1>5
<1>8. RequestDone(r)
  BY <1>3, <1>5, <1>7, NothingDone
<1> QED BY <1>6, <1>8

LEMMA RequestDoes ==
    ASSUME Typed, NEW r \in Requests, Request(r) \/ Deletion(r)
    PROVE  RequestTyped' /\ UnsaidTyped' /\ RequestDone(r)
<1>1. ASSUME NEW h \in Hosts, NEW g \in Groups,
             CreateHost(r, h, g) \/ UpdateHost(r, h, g)
      PROVE  RequestTyped' /\ UnsaidTyped' /\ RequestDone(r)
  <2> DEFINE S == {h}
  <2>1. /\ Begins(r) /\ db[h] >= 0 /\ Change(S, {}) /\ MoveTo(S, g)
        /\ groups \subseteq groups' /\ groups' \subseteq Groups
        /\ Continue(r, "committed", h, <<>>) /\ unsaid' = unsaid
        /\ UNCHANGED Elsewhere
    <3>1. db[h] \in Int
      BY HostsTyped
    <3>2. Exists(h) => db[h] > 0
      BY NoHostIsAGroup
    <3>3. groups \subseteq Groups
      BY DEF Typed, RequestTyped
    <3>4. db[h] = 0 \/ Exists(h)
      BY <1>1 DEF CreateHost, UpdateHost
    <3>5. groups' \in {groups, groups \cup {g}}
      BY <1>1 DEF CreateHost, UpdateHost
    <3>6. db[h] >= 0
      BY <3>1, <3>2, <3>4
    <3> QED BY <1>1, <3>3, <3>5, <3>6 DEF CreateHost, UpdateHost
  <2>2. S \in SUBSET Hosts /\ \A x \in S : db[x] >= 0 /\ x = h
    BY <2>1
  <2>3. \A x \in groups \ groups' : Members(x) \subseteq S
    BY <2>1
  <2> HIDE DEF S
  <2> QED BY <2>1, <2>2, <2>3, ReaderDone
<1>2. ASSUME NEW g \in Groups, UpdateGroup(r, g)
      PROVE  RequestTyped' /\ UnsaidTyped' /\ RequestDone(r)
  BY <1>2, GroupDone
<1>3. ASSUME NEW g \in Groups, ListMembers(r, g)
      PROVE  RequestTyped' /\ UnsaidTyped' /\ RequestDone(r)
  BY <1>3, ListDone
<1>4. ASSUME NEW h \in Hosts, DeleteHost(r, h)
      PROVE  RequestTyped' /\ UnsaidTyped' /\ RequestDone(r)
  BY <1>4, DeleteHostDone
<1>5. ASSUME NEW old \in Groups, NEW new \in Groups, RenameGroup(r, old, new)
      PROVE  RequestTyped' /\ UnsaidTyped' /\ RequestDone(r)
  <2>1. /\ Begins(r) /\ Change(Members(old), {}) /\ MoveTo(Members(old), new)
        /\ groups' = (groups \ {old}) \cup {new}
        /\ Continue(r, "renamed", new, <<>>) /\ unsaid' = unsaid
        /\ UNCHANGED Elsewhere
    BY <1>5 DEF RenameGroup
  <2>2. Members(old) \in SUBSET Hosts /\ \A x \in Members(old) : db[x] >= 0
    BY NoHostIsAGroup, HostsTyped DEF Members
  <2>3. groups' \subseteq Groups /\ new \in groups'
        /\ \A x \in groups \ groups' : x = old
    BY <2>1 DEF Typed, RequestTyped
  <2>4. \A x \in groups \ groups' : Members(x) \subseteq Members(old)
    BY <2>3
  <2> QED BY <2>1, <2>2, <2>3, <2>4, ReaderDone
<1>6. CASE Deletion(r)
  BY <1>6, DeleteGroupDone, NoDeletionDone DEF Deletion
<1> QED BY <1>1, <1>2, <1>3, <1>4, <1>5, <1>6 DEF Request

LEMMA TailParts ==
    ASSUME NEW s \in Seq(Messages), s # <<>>
    PROVE  /\ Head(s) \in Messages /\ Head(s) = s[1]
           /\ Tail(s) \in Seq(Messages)
           /\ \A i \in 1..Len(Tail(s)) :
                 i + 1 \in 1..Len(s) /\ Tail(s)[i] = s[i + 1]
           /\ \A i \in 1..Len(s) :
                 i = 1 \/ \E j \in 1..Len(Tail(s)) : i = j + 1
<1>1. Len(s) \in Nat /\ Len(s) # 0
  OBVIOUS
<1>2. /\ Head(s) \in Messages /\ Tail(s) \in Seq(Messages)
      /\ Len(Tail(s)) = Len(s) - 1
      /\ \A i \in 1..Len(Tail(s)) : Tail(s)[i] = s[i + 1]
  BY HeadTailProperties
<1>3. Head(s) = s[1]
  OBVIOUS
<1>4. \A i \in 1..Len(s) : i # 1 => i - 1 \in 1..(Len(s) - 1) /\ i = (i - 1) + 1
  BY <1>1
<1> QED BY <1>1, <1>2, <1>3, <1>4

LEMMA IndexedNotEmpty ==
    ASSUME NEW s \in Seq(Messages), NEW i \in 1..Len(s)
    PROVE  s # <<>>
OBVIOUS

LEMMA AppendParts ==
    ASSUME NEW s \in Seq(Messages), NEW m \in Messages
    PROVE  /\ Append(s, m) \in Seq(Messages)
           /\ \A i \in 1..Len(Append(s, m)) :
                 \/ Append(s, m)[i] = m
                 \/ \E j \in 1..Len(s) : Append(s, m)[i] = s[j]
           /\ \A j \in 1..Len(s) :
                 \E i \in 1..Len(Append(s, m)) : Append(s, m)[i] = s[j]
           /\ \E i \in 1..Len(Append(s, m)) : Append(s, m)[i] = m
<1>1. /\ Append(s, m) \in Seq(Messages) /\ Len(Append(s, m)) = Len(s) + 1
      /\ \A i \in 1..Len(s) : Append(s, m)[i] = s[i]
      /\ Append(s, m)[Len(s) + 1] = m
  BY AppendProperties
<1>2. Len(s) \in Nat
  OBVIOUS
<1>3. \A i \in 1..(Len(s) + 1) : i \in 1..Len(s) \/ i = Len(s) + 1
  BY <1>2
<1>4. \A i \in 1..Len(s) : i \in 1..(Len(s) + 1)
  BY <1>2
<1>5. Len(s) + 1 \in 1..(Len(s) + 1)
  BY <1>2
<1> QED BY <1>1, <1>3, <1>4, <1>5

LEMMA TypedInit == Init => Typed
<1> SUFFICES ASSUME Init PROVE Typed
  OBVIOUS
<1> USE BoundsAreNumbers
<1>1. 0 \in Versions /\ 1 \in Versions /\ Number(0) = 0 /\ Number(1) = 1
  BY DEF Versions, Number
<1>2. changes = 1 /\ db \in [Hosts -> {0, 1}]
      /\ \A r \in Requests : req[r] = "idle" /\ outbox[r] = <<>>
  BY DEF Init
<1>3. db \in Rows /\ Counted
  BY <1>1, <1>2 DEF Rows, Counted
<1>4. RenamesAreGroups /\ SendersHaveMessages /\ ListsNameHosts
  BY <1>2 DEF RenamesAreGroups, SendersHaveMessages, ListsNameHosts
<1>5. /\ home \in [Hosts -> [0..MaxChanges -> Groups]] /\ groups \subseteq Groups
      /\ about \in [Requests -> Hosts \cup Groups]
  BY SomeGroupIsOne DEF Init
<1>6. /\ req \in [Requests -> Stages] /\ outbox \in [Requests -> Seq(Messages)]
  BY DEF Init, Stages
<1>7. <<>> \in Seq(Messages) /\ 0 \in 0..MaxFaults /\ 1 \in 0..MaxChanges
  OBVIOUS
<1>8. RequestTyped
  BY <1>2, <1>3, <1>4, <1>5, <1>6, <1>7 DEF RequestTyped
<1>9. BrowserTyped
  BY <1>7, EmptyTyped DEF Init, BrowserTyped
<1>10. UnsaidTyped
  BY EmptyTyped DEF Init, UnsaidTyped
<1> QED BY <1>8, <1>9, <1>10 DEF Typed

LEMMA ServerKept ==
    ASSUME RequestTyped, UNCHANGED <<db, home, changes, req, about, outbox>>,
           groups' \subseteq Groups
    PROVE  RequestTyped'
BY DEF RequestTyped, Counted, RenamesAreGroups, SendersHaveMessages,
       ListsNameHosts

LEMMA AllKept ==
    ASSUME Typed, UNCHANGED serverVars
    PROVE  RequestTyped'
BY ServerKept DEF Typed, RequestTyped, serverVars

LEMMA ShowsTyped ==
    ASSUME BrowserTyped, NEW rows \in Rows, NEW S, Shows(rows, S)
    PROVE  /\ view' \in Rows /\ seen' \in [Hosts -> 0..MaxChanges]
           /\ \A h \in Hosts :
                 /\ seen'[h] = IF h \in S /\ Number(rows[h]) > seen[h]
                               THEN Number(rows[h]) ELSE seen[h]
                 /\ view'[h] = IF h \in S THEN rows[h] ELSE view[h]
<1>1. \A h \in Hosts : /\ rows[h] \in Versions /\ view[h] \in Versions
                       /\ seen[h] \in 0..MaxChanges
  BY DEF BrowserTyped, Rows
<1>2. \A h \in Hosts : /\ Newer(rows[h], seen[h]) \in 0..MaxChanges
                       /\ Newer(rows[h], seen[h]) =
                             IF Number(rows[h]) > seen[h] THEN Number(rows[h])
                                                          ELSE seen[h]
  BY <1>1, NewerTyped
<1> QED BY <1>1, <1>2 DEF Shows, Rows

LEMMA FetchEndsTyped ==
    ASSUME BrowserTyped, NEW t \in Tables, FetchEnds(t)
    PROVE  /\ fetch' \in [Tables -> {"none", "asked", "answered"}]
           /\ answer' \in Rows
           /\ conn' \in {"boot", "down", "open"}
           /\ conn' = "open" <=> conn = "open"
           /\ conn = "open" /\ t # "hosts" => /\ fetch'["hosts"] = fetch["hosts"]
                                              /\ answer' = answer
BY EmptyTyped DEF BrowserTyped, FetchEnds, Tables

\* What ReadBack, ReadBackFails and Broadcast leave of a request.
LEMMA SenderTyped ==
    ASSUME Typed, NEW r \in Requests, NEW p \in {"idle", "sending"},
           NEW msgs \in Seq(Messages), p = "sending" => msgs # <<>>,
           Continue(r, p, about[r], msgs),
           UNCHANGED <<db, home, groups, changes>>
    PROVE  /\ RequestTyped'
           /\ req'[r] = p /\ outbox'[r] = msgs
           /\ \A q \in Requests : q # r => /\ req'[q] = req[q]
                                           /\ about'[q] = about[q]
                                           /\ outbox'[q] = outbox[q]
<1> DEFINE o == about[r]
<1>1. o \in Hosts \cup Groups /\ Continue(r, p, o, msgs) /\ p \in Stages
  BY DEF Typed, RequestTyped, Stages
<1> HIDE DEF o
<1>2. /\ req' \in [Requests -> Stages]
      /\ about' \in [Requests -> Hosts \cup Groups]
      /\ outbox' \in [Requests -> Seq(Messages)]
      /\ req'[r] = p /\ outbox'[r] = msgs
      /\ \A q \in Requests : q # r => /\ req'[q] = req[q]
                                      /\ about'[q] = about[q]
                                      /\ outbox'[q] = outbox[q]
  BY <1>1, ContinueTyped
<1>3. Counted'
  BY <1>2 DEF Typed, RequestTyped, Counted
<1>4. RenamesAreGroups'
  BY <1>2 DEF Typed, RequestTyped, RenamesAreGroups
<1>5. SendersHaveMessages'
  BY <1>2 DEF Typed, RequestTyped, SendersHaveMessages
<1>6. ListsNameHosts'
  BY <1>2 DEF Typed, RequestTyped, ListsNameHosts
<1> QED BY <1>2, <1>3, <1>4, <1>5, <1>6 DEF Typed, RequestTyped

\* What a request says when it has read back what it changed.
LEMMA ReadBackDoes ==
    ASSUME Typed, NEW r \in Requests, ReadBack(r)
    PROVE  /\ RequestTyped'
           /\ UNCHANGED <<db, home, groups, unsaid>>
           /\ \A q \in Requests : q # r => /\ req'[q] = req[q]
                                           /\ about'[q] = about[q]
                                           /\ outbox'[q] = outbox[q]
           /\ \A i \in 1..Len(outbox'[r]) :
                 \/ outbox'[r][i].type \in {"group_renamed", "group_updated"}
                 \/ /\ about[r] \in Hosts
                    /\ outbox'[r][i] = Says(about[r], db[about[r]])
           /\ Exists(about[r]) =>
                 /\ req'[r] = "sending"
                 /\ about[r] \in Hosts =>
                       /\ 1 \in 1..Len(outbox'[r])
                       /\ outbox'[r][1] = Says(about[r], db[about[r]])
                 /\ about[r] \notin Hosts /\ req[r] = "renamed" =>
                       /\ 1 \in 1..Len(outbox'[r])
                       /\ outbox'[r][1].type = "group_renamed"
<1>1. PICK o \in Hosts \cup Groups : o = about[r]
  BY DEF Typed, RequestTyped
<1>2. PICK m \in Messages : m.type = "group_renamed" /\ m = [type |-> "group_renamed"]
  BY DEF Messages
<1>3. PICK n \in Messages : n.type = "group_updated" /\ n = [type |-> "group_updated"]
  BY DEF Messages
<1>4. ASSUME o \in Hosts
      PROVE  Says(o, db[o]) \in Messages
  BY <1>4, HostsTyped, SaysTyped
<1>5. /\ \/ ~Exists(o) /\ Continue(r, "idle", about[r], <<>>)
         \/ /\ Exists(o) /\ o \in Hosts
            /\ Continue(r, "sending", about[r], <<Says(o, db[o])>>)
         \/ /\ Exists(o) /\ o \notin Hosts /\ req[r] = "renamed"
            /\ Continue(r, "sending", about[r], <<m, n>>)
         \/ /\ Exists(o) /\ o \notin Hosts /\ req[r] # "renamed"
            /\ Continue(r, "sending", about[r], <<n>>)
      /\ UNCHANGED <<db, home, groups, changes, unsaid>>
  BY <1>1, <1>2, <1>3 DEF ReadBack
<1>6. CASE ~Exists(o) /\ Continue(r, "idle", about[r], <<>>)
  <2> DEFINE none == <<>>
  <2>1. none \in Seq(Messages) /\ Len(none) = 0
        /\ Continue(r, "idle", about[r], none)
    BY <1>6
  <2> HIDE DEF none
  <2>2. /\ RequestTyped' /\ outbox'[r] = none
        /\ \A q \in Requests : q # r => /\ req'[q] = req[q]
                                        /\ about'[q] = about[q]
                                        /\ outbox'[q] = outbox[q]
    BY <1>5, <2>1, SenderTyped
  <2> QED BY <1>1, <1>5, <1>6, <2>1, <2>2
<1>7. ASSUME NEW msgs \in Seq(Messages), msgs # <<>>, Exists(o),
             Continue(r, "sending", about[r], msgs)
      PROVE  /\ RequestTyped' /\ outbox'[r] = msgs /\ req'[r] = "sending"
             /\ \A q \in Requests : q # r => /\ req'[q] = req[q]
                                             /\ about'[q] = about[q]
                                             /\ outbox'[q] = outbox[q]
  BY <1>5, <1>7, SenderTyped
<1>8. \A i \in 1..1 : i = 1
  OBVIOUS
<1>9. CASE Exists(o) /\ o \in Hosts
           /\ Continue(r, "sending", about[r], <<Says(o, db[o])>>)
  <2>1. PICK s \in Messages : s = Says(o, db[o])
    BY <1>4, <1>9
  <2>2. PICK msgs \in Seq(Messages) : /\ msgs = <<s>> /\ msgs # <<>>
                                      /\ Len(msgs) = 1 /\ msgs[1] = s
    BY FewMessages
  <2>3. Continue(r, "sending", about[r], msgs)
    BY <1>9, <2>1, <2>2
  <2>4. /\ RequestTyped' /\ outbox'[r] = msgs /\ req'[r] = "sending"
        /\ \A q \in Requests : q # r => /\ req'[q] = req[q]
                                        /\ about'[q] = about[q]
                                        /\ outbox'[q] = outbox[q]
    BY <1>7, <1>9, <2>2, <2>3
  <2>5. 1 \in 1..Len(msgs) /\ \A i \in 1..Len(msgs) : msgs[i] = s
    BY <1>8, <2>2
  <2> QED BY <1>1, <1>5, <1>9, <2>1, <2>2, <2>4, <2>5
<1>10. CASE /\ Exists(o) /\ o \notin Hosts /\ req[r] = "renamed"
            /\ Continue(r, "sending", about[r], <<m, n>>)
  <2>1. PICK msgs \in Seq(Messages) : /\ msgs = <<m, n>> /\ msgs # <<>>
                                      /\ Len(msgs) = 2
                                      /\ msgs[1] = m /\ msgs[2] = n
    BY FewMessages
  <2>2. /\ RequestTyped' /\ outbox'[r] = msgs /\ req'[r] = "sending"
        /\ \A q \in Requests : q # r => /\ req'[q] = req[q]
                                        /\ about'[q] = about[q]
                                        /\ outbox'[q] = outbox[q]
    BY <1>7, <1>10, <2>1
  <2>3. \A i \in 1..Len(msgs) : i = 1 \/ i = 2
    BY <2>1
  <2>4. 1 \in 1..Len(msgs) /\ \A i \in 1..Len(msgs) : msgs[i] = m \/ msgs[i] = n
    BY <2>1, <2>3
  <2> QED BY <1>1, <1>2, <1>3, <1>5, <1>10, <2>1, <2>2, <2>4
<1>11. CASE /\ Exists(o) /\ o \notin Hosts /\ req[r] # "renamed"
            /\ Continue(r, "sending", about[r], <<n>>)
  <2>1. PICK msgs \in Seq(Messages) : /\ msgs = <<n>> /\ msgs # <<>>
                                      /\ Len(msgs) = 1 /\ msgs[1] = n
    BY FewMessages
  <2>2. /\ RequestTyped' /\ outbox'[r] = msgs /\ req'[r] = "sending"
        /\ \A q \in Requests : q # r => /\ req'[q] = req[q]
                                        /\ about'[q] = about[q]
                                        /\ outbox'[q] = outbox[q]
    BY <1>7, <1>11, <2>1
  <2>3. \A i \in 1..Len(msgs) : msgs[i] = n
    BY <1>8, <2>1
  <2> QED BY <1>1, <1>3, <1>5, <1>11, <2>1, <2>2, <2>3
<1> QED BY <1>5, <1>6, <1>9, <1>10, <1>11

LEMMA ReadBackFailsDoes ==
    ASSUME Typed, NEW r \in Requests, ReadBackFails(r)
    PROVE  /\ RequestTyped' /\ UnsaidTyped'
           /\ UNCHANGED <<db, home, groups>>
           /\ Len(outbox'[r]) = 0
           /\ \A q \in Requests : q # r => /\ req'[q] = req[q]
                                           /\ about'[q] = about[q]
                                           /\ outbox'[q] = outbox[q]
           /\ \A h \in Hosts : unsaid'[h] = IF h \in Unread(r) THEN Number(db[h])
                                                               ELSE unsaid[h]
<1> DEFINE none == <<>>
<1>1. none \in Seq(Messages) /\ Len(none) = 0
  OBVIOUS
<1>2. /\ Continue(r, "idle", about[r], none)
      /\ UNCHANGED <<db, home, groups, changes>>
      /\ unsaid' = [h \in Hosts |-> IF h \in Unread(r) THEN Number(db[h])
                                                       ELSE unsaid[h]]
  BY DEF ReadBackFails
<1> HIDE DEF none
<1>3. /\ RequestTyped' /\ outbox'[r] = none
      /\ \A q \in Requests : q # r => /\ req'[q] = req[q]
                                      /\ about'[q] = about[q]
                                      /\ outbox'[q] = outbox[q]
  BY <1>1, <1>2, SenderTyped
<1>4. UnsaidTyped'
  BY <1>2, HostsTyped DEF Typed, UnsaidTyped
<1> QED BY <1>1, <1>2, <1>3, <1>4

LEMMA BroadcastDoes ==
    ASSUME Typed, NEW r \in Requests, Broadcast(r)
    PROVE  /\ RequestTyped' /\ UNCHANGED <<db, home, groups, unsaid>>
           /\ req[r] = "sending"
           /\ outbox[r] \in Seq(Messages) /\ outbox[r] # <<>>
           /\ outbox'[r] = Tail(outbox[r])
           /\ req'[r] = IF Tail(outbox[r]) = <<>> THEN "idle" ELSE "sending"
           /\ \A q \in Requests : q # r => /\ req'[q] = req[q]
                                           /\ about'[q] = about[q]
                                           /\ outbox'[q] = outbox[q]
           /\ chan' \in {chan, Append(chan, Head(outbox[r]))}
           /\ InHub /\ ~dropped' => chan' = Append(chan, Head(outbox[r]))
           /\ dropped => dropped'
           /\ UNCHANGED <<conn, srv, snap, again, fetchVars, viewVars>>
<1>1. outbox[r] \in Seq(Messages) /\ outbox[r] # <<>> /\ req[r] = "sending"
  BY DEF Broadcast, Typed, RequestTyped, SendersHaveMessages
<1>2. Tail(outbox[r]) \in Seq(Messages)
  BY <1>1, TailParts
<1> DEFINE rest == Tail(outbox[r])
           p == IF rest = <<>> THEN "idle" ELSE "sending"
<1>3. Continue(r, p, about[r], rest) /\ UNCHANGED <<db, home, groups, changes>>
  BY DEF Broadcast
<1>4. p \in {"idle", "sending"} /\ rest \in Seq(Messages)
      /\ (p = "sending" => rest # <<>>)
  BY <1>2
<1> HIDE DEF rest, p
<1>5. /\ RequestTyped' /\ req'[r] = p /\ outbox'[r] = rest
      /\ \A q \in Requests : q # r => /\ req'[q] = req[q]
                                      /\ about'[q] = about[q]
                                      /\ outbox'[q] = outbox[q]
  BY <1>3, <1>4, SenderTyped
<1>6. /\ UNCHANGED <<db, home, groups, unsaid>>
      /\ chan' \in {chan, Append(chan, Head(outbox[r]))}
      /\ InHub /\ ~dropped' => chan' = Append(chan, Head(outbox[r]))
      /\ dropped => dropped'
      /\ UNCHANGED <<conn, srv, snap, again, fetchVars, viewVars>>
  BY DEF Broadcast
<1> QED BY <1>1, <1>5, <1>6 DEF rest, p

LEMMA DeliverTyped ==
    ASSUME BrowserTyped, Deliver
    PROVE  BrowserTyped'
<1> DEFINE msg == Head(chan)
<1>1. msg \in Messages /\ chan' \in Seq(Messages)
  BY TailParts DEF BrowserTyped, Deliver
<1>2. UNCHANGED <<linkVars, faults>>
  BY DEF Deliver
<1>3. CASE msg.type = "group_renamed"
  BY <1>1, <1>2, <1>3
     DEF Deliver, Asks, viewVars, linkVars, BrowserTyped, Tables
<1>4. CASE msg.type = "host"
  <2>1. [h \in Hosts |-> msg.val] \in Rows
    BY <1>1, <1>4, MessageParts DEF Rows
  <2>2. Shows([h \in Hosts |-> msg.val], {msg.host})
        /\ UNCHANGED <<missed, fetchVars>>
    BY <1>4 DEF Deliver
  <2>3. view' \in Rows /\ seen' \in [Hosts -> 0..MaxChanges]
    BY <2>1, <2>2, ShowsTyped
  <2> QED BY <1>1, <1>2, <2>2, <2>3 DEF fetchVars, linkVars, BrowserTyped
<1>5. CASE msg.type = "snapshot"
  <2>1. msg.rows \in Rows
    BY <1>1, <1>5, MessageParts
  <2>2. Shows(msg.rows, Hosts) /\ UNCHANGED <<missed, fetchVars>>
    BY <1>5 DEF Deliver
  <2>3. view' \in Rows /\ seen' \in [Hosts -> 0..MaxChanges]
    BY <2>1, <2>2, ShowsTyped
  <2> QED BY <1>1, <1>2, <2>2, <2>3 DEF fetchVars, linkVars, BrowserTyped
<1>6. CASE msg.type = "group_deleted"
  <2>1. ShowsNoGroup(msg.group) /\ UNCHANGED <<missed, fetchVars>>
    BY <1>6 DEF Deliver
  <2>2. \A h \in Hosts : view[h] \in Versions /\ -Number(view[h]) \in Versions
    BY NumberTyped DEF BrowserTyped, Rows
  <2>3. view' \in Rows /\ seen' \in [Hosts -> 0..MaxChanges]
    BY <2>1, <2>2 DEF ShowsNoGroup, BrowserTyped, Rows
  <2> QED BY <1>1, <1>2, <2>1, <2>3 DEF fetchVars, linkVars, BrowserTyped
<1>7. CASE msg.type = "group_updated"
  <2>1. UNCHANGED <<fetchVars, viewVars>>
    BY <1>7 DEF Deliver
  <2> QED BY <1>1, <1>2, <2>1 DEF fetchVars, viewVars, linkVars, BrowserTyped
<1> QED BY <1>1, <1>3, <1>4, <1>5, <1>6, <1>7, MessageParts

LEMMA TypedNext ==
    ASSUME Typed, [Next]_vars
    PROVE  Typed'
<1> USE DEF Typed
<1>a. ASSUME unsaid' = unsaid
      PROVE  UnsaidTyped'
  BY <1>a DEF UnsaidTyped
<1>1. ASSUME NEW r \in Requests, Request(r) \/ Deletion(r)
      PROVE  Typed'
  <2>1. RequestTyped' /\ UnsaidTyped' /\ UNCHANGED Elsewhere
    BY <1>1, RequestDoes DEF RequestDone
  <2>2. BrowserTyped'
    BY <2>1 DEF Elsewhere, linkVars, fetchVars, viewVars, BrowserTyped
  <2> QED BY <2>1, <2>2
<1>2. ASSUME NEW r \in Requests, ReadBack(r) \/ ReadBackFails(r)
      PROVE  Typed'
  <2>1. BrowserTyped'
    BY <1>2 DEF ReadBack, ReadBackFails, Elsewhere, linkVars, fetchVars,
                viewVars, BrowserTyped
  <2> QED BY <1>2, <1>a, <2>1, ReadBackDoes, ReadBackFailsDoes
<1>3. ASSUME NEW r \in Requests, Broadcast(r)
      PROVE  Typed'
  <2>1. outbox[r] \in Seq(Messages) /\ outbox[r] # <<>>
        /\ RequestTyped' /\ unsaid' = unsaid
    BY <1>3, BroadcastDoes
  <2>2. chan' \in {chan, Append(chan, Head(outbox[r]))}
    BY <1>3 DEF Broadcast
  <2>3. chan' \in Seq(Messages)
    <3>1. Head(outbox[r]) \in Messages /\ chan \in Seq(Messages)
      BY <2>1, TailParts DEF BrowserTyped
    <3>2. Append(chan, Head(outbox[r])) \in Seq(Messages)
      BY <3>1, AppendParts
    <3> QED BY <2>2, <3>1, <3>2
  <2>4. dropped' \in BOOLEAN /\ faults' \in 0..MaxFaults
    <3>1. dropped \in BOOLEAN /\ faults \in 0..MaxFaults
      BY DEF BrowserTyped
    <3>2. \/ dropped' = dropped /\ faults' = faults
          \/ dropped' = TRUE /\ faults < MaxFaults /\ faults' = faults + 1
      BY <1>3 DEF Broadcast
    <3>3. faults' \in 0..MaxFaults
      BY <3>1, <3>2, BoundsAreNumbers
    <3>4. dropped' \in BOOLEAN
      BY <3>1, <3>2
    <3> QED BY <3>3, <3>4
  <2>5. BrowserTyped'
    BY <1>3, <2>3, <2>4
       DEF Broadcast, fetchVars, viewVars, BrowserTyped
  <2> QED BY <1>a, <2>1, <2>5
<1>4. CASE Open
  <2>1. BrowserTyped'
    BY <1>4 DEF Open, Asks, fetchVars, BrowserTyped, Tables
  <2> QED BY <1>4, <1>a, <2>1, AllKept DEF Open
<1>5. CASE JoinHub
  <2>1. BrowserTyped'
    BY <1>5 DEF JoinHub, fetchVars, viewVars, BrowserTyped
  <2> QED BY <1>5, <1>a, <2>1, AllKept DEF JoinHub
<1>6. CASE ReadSnapshot
  <2>1. BrowserTyped'
    BY <1>6 DEF ReadSnapshot, fetchVars, viewVars, BrowserTyped, RequestTyped
  <2>2. UnsaidTyped'
    BY <1>6, EmptyTyped DEF ReadSnapshot, UnsaidTyped
  <2> QED BY <1>6, <2>1, <2>2, AllKept DEF ReadSnapshot
<1>7. CASE SendSnapshot
  <2>1. [type |-> "snapshot", rows |-> snap] \in Messages
    BY DEF Messages, BrowserTyped
  <2>2. chan' \in Seq(Messages)
    BY <1>7, <2>1, AppendParts DEF SendSnapshot, BrowserTyped
  <2>3. BrowserTyped'
    BY <1>7, <2>2, EmptyTyped
       DEF SendSnapshot, fetchVars, viewVars, BrowserTyped
  <2> QED BY <1>7, <1>a, <2>3, AllKept DEF SendSnapshot
<1>8. CASE Disconnect
  <2>1. <<>> \in Seq(Messages) /\ faults' \in 0..MaxFaults
    BY <1>8, BoundsAreNumbers DEF Disconnect, BrowserTyped
  <2>2. BrowserTyped'
    BY <1>8, <2>1, EmptyTyped
       DEF Disconnect, fetchVars, viewVars, BrowserTyped
  <2> QED BY <1>8, <1>a, <2>2, AllKept DEF Disconnect
<1>9. CASE Deliver
  BY <1>9, <1>a, DeliverTyped, AllKept DEF Deliver
<1>10. ASSUME NEW t \in Tables, Answers(t)
       PROVE  Typed'
  <2>1. BrowserTyped'
    BY <1>10 DEF Answers, linkVars, viewVars, BrowserTyped, RequestTyped
  <2>2. groups' \subseteq Groups
    BY <1>10 DEF Answers, RequestTyped
  <2> QED BY <1>10, <1>a, <2>1, <2>2, ServerKept DEF Answers
<1>11. ASSUME NEW t \in Tables, FetchArrives(t)
       PROVE  Typed'
  <2>1. view' \in Rows /\ seen' \in [Hosts -> 0..MaxChanges]
    BY <1>11, ShowsTyped DEF FetchArrives, BrowserTyped
  <2>2. BrowserTyped'
    BY <1>11, <2>1, FetchEndsTyped
       DEF FetchArrives, FetchEnds, BrowserTyped
  <2> QED BY <1>11, <1>a, <2>2, AllKept DEF FetchArrives, FetchEnds
<1>12. ASSUME NEW t \in Tables, FetchFails(t)
       PROVE  Typed'
  <2>1. faults' \in 0..MaxFaults /\ missed' \in BOOLEAN
    BY <1>12, BoundsAreNumbers DEF FetchFails, BrowserTyped
  <2>2. BrowserTyped'
    BY <1>12, <2>1, FetchEndsTyped
       DEF FetchFails, FetchEnds, BrowserTyped
  <2> QED BY <1>12, <1>a, <2>2, AllKept DEF FetchFails, FetchEnds
<1>13. CASE UNCHANGED vars
  <2>1. BrowserTyped'
    BY <1>13 DEF vars, linkVars, fetchVars, viewVars, BrowserTyped
  <2> QED BY <1>13, <1>a, <2>1, AllKept DEF vars
<1> QED BY <1>1, <1>2, <1>3, <1>4, <1>5, <1>6, <1>7, <1>8, <1>9, <1>10, <1>11,
           <1>12, <1>13 DEF Next, Endpoint

LEMMA AlwaysTyped == Spec => []Typed
<1>1. Typed /\ [Next]_vars => Typed'
  BY TypedNext
<1> QED BY TypedInit, <1>1, PTL DEF Spec

\* The tables, the connection and what is under way keep their types; no host
\* is numbered beyond the changes that were requested.
THEOREM TypeCorrect == Spec => []TypeOK
<1>1. Typed => TypeOK
  BY DEF Typed, RequestTyped, BrowserTyped, UnsaidTyped, TypeOK
<1> QED BY AlwaysTyped, <1>1, PTL

-----------------------------------------------------------------------------
(* Nothing runs ahead of the tables.                                         *)

LinksMatch == conn = "open" <=> srv # "none"

NotAhead ==
    /\ LinksMatch
    /\ \A r \in Requests : \A i \in 1..Len(outbox[r]) : Honest(outbox[r][i])
    /\ \A i \in 1..Len(chan) : Honest(chan[i])
    /\ \A h \in Hosts : /\ Was(h, snap[h]) /\ Was(h, answer[h])
                        /\ Was(h, view[h]) /\ seen[h] <= Number(db[h])

LEMMA NumbersOfHosts ==
    ASSUME Typed, NEW h \in Hosts
    PROVE  /\ Number(db[h]) \in Nat /\ Number(snap[h]) \in Nat
           /\ Number(answer[h]) \in Nat /\ seen[h] \in Nat
           /\ \A m \in Messages :
                 /\ m.type = "host" => Number(m.val) \in Nat
                 /\ m.type = "snapshot" => Number(m.rows[h]) \in Nat
<1>1. \A rows \in Rows : Number(rows[h]) \in Nat
  BY NumberTyped DEF Rows
<1>2. ASSUME NEW m \in Messages
      PROVE  /\ m.type = "host" => Number(m.val) \in Nat
             /\ m.type = "snapshot" => Number(m.rows[h]) \in Nat
  BY <1>1, NumberTyped, MessageParts
<1>3. seen[h] \in Nat
  BY DEF Typed, BrowserTyped
<1> QED BY <1>1, <1>2, <1>3 DEF Typed, RequestTyped, BrowserTyped

\* What a host was, it was later too.
LEMMA WasLater ==
    ASSUME Typed, Typed', NEW h \in Hosts, NEW v \in Versions,
           Was(h, v), Steps(h)
    PROVE  Was(h, v)'
<1>1. /\ db[h] \in Versions /\ db'[h] \in Versions
  BY DEF Typed, RequestTyped, Rows
<1>2. CASE db'[h] = db[h]
  BY <1>2 DEF Was
<1>3. CASE db[h] >= 0 /\ Number(db'[h]) = db[h] + 1
  <2>1. /\ Number(v) <= Number(db[h]) /\ Number(db[h]) = db[h] /\ db[h] \in Int
        /\ v \in Int /\ Number(v) \in Int /\ (v >= 0 => Number(v) = v)
    BY <1>1, <1>3, NumberTyped DEF Was
  <2>2. Number(v) <= Number(db'[h]) /\ (v > 0 => v < Number(db'[h]))
    BY <1>3, <2>1
  <2> QED BY <2>2 DEF Was
<1> QED BY <1>2, <1>3 DEF Steps

\* What is so, was so; nothing at all was so too, and so was a host before its
\* deletion, as something gone.
LEMMA WasNow ==
    ASSUME Typed, NEW h \in Hosts
    PROVE  /\ Was(h, db[h]) /\ Was(h, 0)
           /\ \A v \in Versions : Was(h, v) => Was(h, -Number(v))
<1>1. db[h] \in Int /\ Number(db[h]) \in Nat
  BY HostsTyped, BoundsAreNumbers
<1>2. Number(0) = 0
  BY DEF Number
<1>3. ASSUME NEW v \in Versions, Was(h, v)
      PROVE  Was(h, -Number(v))
  <2>1. Number(-Number(v)) = Number(v) /\ Number(v) \in Nat
    BY NumberTyped
  <2>2. ~(-Number(v) > 0)
    BY <2>1
  <2> QED BY <1>3, <2>1, <2>2 DEF Was
<1>4. Was(h, db[h])
  BY <1>1 DEF Was
<1>5. Was(h, 0)
  BY <1>1, <1>2 DEF Was
<1> QED BY <1>3, <1>4, <1>5

\* What was honest stays honest when the tables advance.
LEMMA HonestLater ==
    ASSUME Typed, Typed', NEW m \in Messages, Honest(m),
           \A h \in Hosts : Steps(h)
    PROVE  Honest(m)'
<1>1. ASSUME m.type = "host", NEW h \in Hosts, m.host = h
      PROVE  Was(h, m.val)'
  <2>1. m.val \in Versions /\ Was(h, m.val)
    BY <1>1, MessageParts DEF Honest
  <2>2. PICK v \in Versions : v = m.val /\ Was(h, v)
    BY <2>1
  <2>3. Was(h, v)'
    BY <2>2, WasLater
  <2> QED BY <2>2, <2>3
<1>2. ASSUME m.type = "snapshot", NEW h \in Hosts
      PROVE  Was(h, m.rows[h])'
  <2>1. m.rows[h] \in Versions /\ Was(h, m.rows[h])
    BY <1>2, MessageParts DEF Honest, Rows
  <2>2. PICK v \in Versions : v = m.rows[h] /\ Was(h, v)
    BY <2>1
  <2>3. Was(h, v)'
    BY <2>2, WasLater
  <2> QED BY <2>2, <2>3
<1> QED BY <1>1, <1>2 DEF Honest

LEMMA NotAheadInit == Init => NotAhead
<1> SUFFICES ASSUME Init PROVE NotAhead
  OBVIOUS
<1>1. \A h \in Hosts : Was(h, 0) /\ Empty[h] = 0 /\ 0 <= Number(db[h])
  BY EmptyTyped DEF Init, Number, Was
<1>2. Len(<<>>) = 0
  OBVIOUS
<1>3. /\ LinksMatch /\ chan = <<>> /\ snap = Empty /\ seen = Empty
      /\ answer = Empty /\ view = Empty
      /\ \A r \in Requests : outbox[r] = <<>>
  BY DEF Init, LinksMatch
<1> QED BY <1>1, <1>2, <1>3 DEF NotAhead

LEMMA DeliverDoes ==
    ASSUME Typed, Deliver
    PROVE  /\ chan \in Seq(Messages) /\ chan # <<>> /\ chan' = Tail(chan)
           /\ Head(chan) \in Messages
           /\ UNCHANGED <<serverVars, linkVars, unsaid>>
           /\ missed' = missed /\ answer' = answer
           /\ IF Head(chan).type = "group_renamed" THEN fetch'["hosts"] = "asked"
                                                   ELSE fetch' = fetch
           /\ \A h \in Hosts :
                 /\ seen'[h] =
                       IF Head(chan).type = "host" /\ Head(chan).host = h
                              /\ Number(Head(chan).val) > seen[h]
                       THEN Number(Head(chan).val)
                       ELSE IF Head(chan).type = "snapshot"
                              /\ Number(Head(chan).rows[h]) > seen[h]
                       THEN Number(Head(chan).rows[h])
                       ELSE seen[h]
                 /\ \/ view'[h] \in {view[h], -Number(view[h])}
                    \/ /\ Head(chan).type = "host" /\ Head(chan).host = h
                       /\ view'[h] = Head(chan).val
                    \/ Head(chan).type = "snapshot" /\ view'[h] = Head(chan).rows[h]
                 /\ Head(chan).type \notin {"host", "snapshot"} =>
                       view'[h] \in {view[h], -Number(view[h])}
<1> DEFINE msg == Head(chan)
<1> USE DEF Typed
<1>1. /\ chan \in Seq(Messages) /\ chan # <<>> /\ chan' = Tail(chan)
      /\ UNCHANGED <<serverVars, linkVars, unsaid>> /\ msg \in Messages
  BY TailParts DEF BrowserTyped, Deliver
<1>2. CASE msg.type = "group_renamed"
  BY <1>1, <1>2 DEF Deliver, Asks, Tables, viewVars
<1>3. CASE msg.type = "host"
  <2>1. [h \in Hosts |-> msg.val] \in Rows
    BY <1>1, <1>3, MessageParts DEF Rows
  <2>2. Shows([h \in Hosts |-> msg.val], {msg.host})
        /\ UNCHANGED <<missed, fetchVars>>
    BY <1>3 DEF Deliver
  <2> DEFINE rows == [h \in Hosts |-> msg.val]
  <2>3. \A h \in Hosts : rows[h] = msg.val
    OBVIOUS
  <2> HIDE DEF rows
  <2>4. \A h \in Hosts :
           /\ seen'[h] = IF h \in {msg.host} /\ Number(rows[h]) > seen[h]
                         THEN Number(rows[h]) ELSE seen[h]
           /\ view'[h] = IF h \in {msg.host} THEN rows[h] ELSE view[h]
    BY <2>1, <2>2, ShowsTyped DEF rows
  <2> QED BY <1>1, <1>3, <2>2, <2>3, <2>4 DEF fetchVars
<1>4. CASE msg.type = "snapshot"
  <2>1. msg.rows \in Rows
    BY <1>1, <1>4, MessageParts
  <2>2. Shows(msg.rows, Hosts) /\ UNCHANGED <<missed, fetchVars>>
    BY <1>4 DEF Deliver
  <2>3. \A h \in Hosts :
           /\ seen'[h] = IF h \in Hosts /\ Number(msg.rows[h]) > seen[h]
                         THEN Number(msg.rows[h]) ELSE seen[h]
           /\ view'[h] = IF h \in Hosts THEN msg.rows[h] ELSE view[h]
    BY <2>1, <2>2, ShowsTyped
  <2> QED BY <1>1, <1>4, <2>2, <2>3 DEF fetchVars
<1>5. CASE msg.type = "group_deleted"
  <2>1. ShowsNoGroup(msg.group) /\ UNCHANGED <<missed, fetchVars>>
    BY <1>5 DEF Deliver
  <2>2. \A h \in Hosts : /\ seen'[h] = seen[h]
                         /\ view'[h] \in {view[h], -Number(view[h])}
    BY <2>1 DEF ShowsNoGroup, BrowserTyped
  <2> QED BY <1>1, <1>5, <2>1, <2>2 DEF fetchVars
<1>6. CASE msg.type = "group_updated"
  BY <1>1, <1>6 DEF Deliver, fetchVars, viewVars
<1> QED BY <1>1, <1>2, <1>3, <1>4, <1>5, <1>6, MessageParts

LEMMA FetchArrivesDoes ==
    ASSUME Typed, NEW t \in Tables, FetchArrives(t)
    PROVE  /\ fetch[t] = "answered" /\ missed' = missed
           /\ \A h \in Hosts :
                 /\ seen'[h] = IF t = "hosts" /\ Number(answer[h]) > seen[h]
                               THEN Number(answer[h]) ELSE seen[h]
                 /\ view'[h] \in {view[h], answer[h]}
<1>1. CASE t = "hosts"
  <2>1. answer \in Rows /\ Shows(answer, Hosts)
    BY <1>1 DEF Typed, BrowserTyped, FetchArrives
  <2>2. \A h \in Hosts :
           /\ seen'[h] = IF h \in Hosts /\ Number(answer[h]) > seen[h]
                         THEN Number(answer[h]) ELSE seen[h]
           /\ view'[h] = IF h \in Hosts THEN answer[h] ELSE view[h]
    BY <2>1, ShowsTyped DEF Typed
  <2> QED BY <1>1, <2>2 DEF FetchArrives
<1>2. CASE t # "hosts"
  BY <1>2 DEF FetchArrives
<1> QED BY <1>1, <1>2

LEMMA NotAheadNext ==
    ASSUME Typed, Typed', NotAhead, [Next]_vars
    PROVE  NotAhead'
<1> DEFINE Sent == /\ \A r \in Requests :
                         \A i \in 1..Len(outbox[r]) : Honest(outbox[r][i])
                   /\ \A i \in 1..Len(chan) : Honest(chan[i])
           Held == \A h \in Hosts :
                      /\ Was(h, snap[h]) /\ Was(h, answer[h])
                      /\ Was(h, view[h]) /\ seen[h] <= Number(db[h])
<1>0. (NotAhead <=> LinksMatch /\ Sent /\ Held)
      /\ (NotAhead' <=> LinksMatch' /\ Sent' /\ Held')
  BY DEF NotAhead
<1>1. ASSUME db' = db, NEW m, Honest(m)
      PROVE  Honest(m)'
  BY <1>1 DEF Honest, Was
<1>2. ASSUME UNCHANGED <<db, outbox, chan>>
      PROVE  Sent'
  BY <1>0, <1>1, <1>2
<1>3. ASSUME db' = db, NEW h \in Hosts, NEW v, Was(h, v)
      PROVE  Was(h, v)'
  BY <1>3 DEF Was
\* What the endpoint, an answer or the page holds comes from what was held.
<1>4. ASSUME db' = db,
             \A h \in Hosts :
                /\ Was(h, snap'[h]) /\ Was(h, answer'[h]) /\ Was(h, view'[h])
                /\ seen'[h] <= Number(db[h])
      PROVE  Held'
  <2>1. ASSUME NEW h \in Hosts
        PROVE  /\ Was(h, snap[h])' /\ Was(h, answer[h])' /\ Was(h, view[h])'
               /\ seen'[h] <= Number(db'[h])
    BY <1>4, <2>1 DEF Was
  <2> QED BY <2>1
<1>5. ASSUME UNCHANGED <<db, snap, answer, view, seen>>
      PROVE  Held'
  BY <1>0, <1>4, <1>5
<1>6. /\ chan \in Seq(Messages) /\ chan' \in Seq(Messages)
      /\ \A r \in Requests : outbox[r] \in Seq(Messages)
  BY DEF Typed, RequestTyped, BrowserTyped
<1>7. \A s \in Seq(Messages) : \A i \in 1..Len(s) : s[i] \in Messages
  OBVIOUS
<1> HIDE DEF Sent, Held
<1>8. ASSUME NEW r \in Requests, Request(r) \/ Deletion(r)
      PROVE  NotAhead'
  <2>1. RequestDone(r)
    BY <1>8, RequestDoes
  <2>2. \A h \in Hosts : Steps(h)
    BY <2>1 DEF RequestDone
  <2>3. UNCHANGED <<conn, srv, snap, chan, answer, view, seen>>
    BY <2>1 DEF RequestDone, Elsewhere, linkVars, fetchVars, viewVars
  <2>4. \A m \in Messages : Honest(m) => Honest(m)'
    BY <2>2, HonestLater
  <2>5. Sent'
    <3>1. ASSUME NEW q \in Requests, NEW i \in 1..Len(outbox'[q])
          PROVE  Honest(outbox[q][i])'
      <4>1. CASE q = r
        BY <2>1, <3>1, <4>1 DEF RequestDone
      <4>2. CASE q # r
        <5>1. outbox'[q] = outbox[q]
          BY <2>1, <4>2 DEF RequestDone
        <5>2. outbox[q][i] \in Messages /\ Honest(outbox[q][i])
          BY <1>0, <1>6, <1>7, <3>1, <5>1 DEF Sent
        <5>3. PICK m \in Messages : m = outbox[q][i] /\ Honest(m)
          BY <5>2
        <5>4. Honest(m)'
          BY <2>4, <5>3
        <5>5. outbox'[q][i] = m
          BY <5>1, <5>3
        <5> QED BY <5>4, <5>5 DEF Honest, Was
      <4> QED BY <4>1, <4>2
    <3>2. ASSUME NEW i \in 1..Len(chan')
          PROVE  Honest(chan[i])'
      <4>1. PICK m \in Messages : m = chan[i] /\ Honest(m)
        BY <1>0, <1>6, <1>7, <2>3, <3>2 DEF Sent
      <4>2. Honest(m)' /\ chan'[i] = m
        BY <2>3, <2>4, <4>1
      <4> QED BY <4>2 DEF Honest, Was
    <3> QED BY <3>1, <3>2 DEF Sent
  <2>6. Held'
    <3>1. ASSUME NEW h \in Hosts
          PROVE  /\ Was(h, snap[h])' /\ Was(h, answer[h])' /\ Was(h, view[h])'
                 /\ seen'[h] <= Number(db'[h])
      <4>1. \A v \in Versions : Was(h, v) => Was(h, v)'
        BY <2>2, WasLater
      <4>2. PICK a \in Versions, b \in Versions, c \in Versions :
               a = snap[h] /\ b = answer[h] /\ c = view[h]
        BY DEF Typed, BrowserTyped, Rows
      <4>3. Was(h, a)' /\ Was(h, b)' /\ Was(h, c)'
        BY <1>0, <4>1, <4>2 DEF Held
      <4>4. a = snap'[h] /\ b = answer'[h] /\ c = view'[h]
        BY <2>3, <4>2
      <4>5. Was(h, snap[h])' /\ Was(h, answer[h])' /\ Was(h, view[h])'
        BY <4>3, <4>4 DEF Was
      <4>6. seen[h] <= Number(db[h]) /\ seen'[h] = seen[h] /\ seen[h] \in Nat
            /\ Number(db[h]) \in Nat /\ Number(db'[h]) \in Nat
        <5>1. db'[h] \in Versions
          BY DEF Typed, RequestTyped, Rows
        <5>2. Number(db'[h]) \in Nat
          BY <5>1, NumberTyped, BoundsAreNumbers
        <5> QED BY <1>0, <2>3, <5>2, NumbersOfHosts DEF Held
      <4>7. Number(db'[h]) >= Number(db[h])
        <5>1. /\ db[h] \in Int /\ db[h] >= 0 => Number(db[h]) = db[h]
          BY HostsTyped, NumberTyped
        <5> QED BY <2>2, <4>6, <5>1, HostsTyped, NumberTyped DEF Steps
      <4> QED BY <4>5, <4>6, <4>7
    <3> QED BY <3>1 DEF Held
  <2> QED BY <1>0, <2>3, <2>5, <2>6 DEF LinksMatch
<1>9. ASSUME NEW r \in Requests, ReadBack(r) \/ ReadBackFails(r)
      PROVE  NotAhead'
  <2>1. UNCHANGED <<conn, srv, snap, chan, answer, view, seen, db>>
    BY <1>9 DEF ReadBack, ReadBackFails, Elsewhere, linkVars, fetchVars, viewVars
  <2>2. ASSUME NEW q \in Requests, NEW i \in 1..Len(outbox'[q])
        PROVE  Honest(outbox[q][i])'
    <3>1. CASE q # r
      <4>1. outbox'[q] = outbox[q]
        BY <1>9, <3>1, ReadBackDoes, ReadBackFailsDoes
      <4>2. PICK m : m = outbox[q][i] /\ Honest(m) /\ m = outbox'[q][i]
        BY <1>0, <2>2, <4>1 DEF Sent
      <4>3. Honest(m)'
        BY <1>1, <2>1, <4>2
      <4> QED BY <4>2, <4>3 DEF Honest, Was
    <3>2. CASE q = r /\ ReadBack(r)
      <4>1. \/ (outbox'[r][i]).type \in {"group_renamed", "group_updated"}
            \/ /\ about[r] \in Hosts
               /\ outbox'[r][i] = Says(about[r], db[about[r]])
        BY <2>2, <3>2, ReadBackDoes
      <4>2. CASE (outbox'[r][i]).type \in {"group_renamed", "group_updated"}
        BY <3>2, <4>2 DEF Honest
      <4>3. CASE /\ about[r] \in Hosts
                 /\ outbox'[r][i] = Says(about[r], db[about[r]])
        <5>1. PICK h \in Hosts : h = about[r] /\ Was(h, db[h])
          BY <4>3, WasNow
        <5>2. Was(h, db[h])'
          BY <2>1, <5>1 DEF Was
        <5>3. /\ (outbox'[r][i]).type = "host" /\ (outbox'[r][i]).host = h
              /\ (outbox'[r][i]).val = db'[h]
          BY <2>1, <4>3, <5>1 DEF Says
        <5>4. Was(h, outbox[r][i].val)'
          BY <5>2, <5>3 DEF Was
        <5> QED BY <3>2, <5>3, <5>4 DEF Honest
      <4> QED BY <4>1, <4>2, <4>3
    <3>3. CASE q = r /\ ReadBackFails(r)
      BY <2>2, <3>3, ReadBackFailsDoes
    <3> QED BY <1>9, <3>1, <3>2, <3>3
  <2>3. Sent'
    BY <1>0, <1>1, <2>1, <2>2 DEF Sent
  <2> QED BY <1>0, <1>5, <2>1, <2>3 DEF LinksMatch
<1>10. ASSUME NEW r \in Requests, Broadcast(r)
       PROVE  NotAhead'
  <2>1. /\ db' = db /\ outbox[r] \in Seq(Messages) /\ outbox[r] # <<>>
        /\ outbox'[r] = Tail(outbox[r])
        /\ \A q \in Requests : q # r => outbox'[q] = outbox[q]
        /\ chan' \in {chan, Append(chan, Head(outbox[r]))}
        /\ UNCHANGED <<conn, srv, snap, fetchVars, viewVars>>
    BY <1>10, BroadcastDoes
  <2>2. /\ Head(outbox[r]) \in Messages /\ Honest(Head(outbox[r]))
        /\ \A i \in 1..Len(Tail(outbox[r])) : Honest(Tail(outbox[r])[i])
    <3>1. /\ Head(outbox[r]) \in Messages /\ Head(outbox[r]) = outbox[r][1]
          /\ 1 \in 1..Len(outbox[r])
          /\ \A i \in 1..Len(Tail(outbox[r])) :
                /\ i + 1 \in 1..Len(outbox[r])
                /\ Tail(outbox[r])[i] = outbox[r][i + 1]
      BY <2>1, TailParts
    <3> QED BY <1>0, <3>1 DEF Sent
  <2>3. ASSUME NEW q \in Requests, NEW i \in 1..Len(outbox'[q])
        PROVE  Honest(outbox[q][i])'
    <3>1. PICK m : m = outbox'[q][i] /\ Honest(m)
      BY <1>0, <2>1, <2>2, <2>3 DEF Sent
    <3>2. Honest(m)'
      BY <1>1, <2>1, <3>1
    <3> QED BY <3>1, <3>2 DEF Honest, Was
  <2>4. ASSUME NEW i \in 1..Len(chan')
        PROVE  Honest(chan[i])'
    <3>1. PICK m : m = chan'[i] /\ Honest(m)
      <4>1. CASE chan' = chan
        BY <1>0, <2>4, <4>1 DEF Sent
      <4>2. CASE chan' = Append(chan, Head(outbox[r]))
        <5>1. \/ chan'[i] = Head(outbox[r])
              \/ \E j \in 1..Len(chan) : chan'[i] = chan[j]
          BY <1>6, <2>2, <2>4, <4>2, AppendParts
        <5> QED BY <1>0, <2>2, <5>1 DEF Sent
      <4> QED BY <2>1, <4>1, <4>2
    <3>2. Honest(m)'
      BY <1>1, <2>1, <3>1
    <3> QED BY <3>1, <3>2 DEF Honest, Was
  <2>5. Sent'
    BY <2>3, <2>4 DEF Sent
  <2> QED BY <1>0, <1>5, <2>1, <2>5 DEF LinksMatch, fetchVars, viewVars
<1>11. CASE Open \/ JoinHub
  <2>1. UNCHANGED <<db, outbox, chan, snap, answer, view, seen>> /\ LinksMatch'
    BY <1>0, <1>11 DEF Open, JoinHub, Asks, LinksMatch, serverVars, fetchVars,
                       viewVars
  <2> QED BY <1>0, <1>2, <1>5, <2>1
<1>12. CASE ReadSnapshot
  <2>1. UNCHANGED <<db, outbox, chan, answer, view, seen>> /\ LinksMatch'
        /\ snap' = db
    BY <1>0, <1>12 DEF ReadSnapshot, LinksMatch, serverVars, fetchVars, viewVars
  <2>2. Held'
    BY <1>0, <1>4, <2>1, WasNow DEF Held
  <2> QED BY <1>0, <1>2, <2>1, <2>2
<1>13. CASE SendSnapshot
  <2> DEFINE s == [type |-> "snapshot", rows |-> snap]
  <2>1. s \in Messages /\ Honest(s)
    BY <1>0 DEF Messages, Typed, BrowserTyped, Honest, Held
  <2>2. /\ UNCHANGED <<db, outbox, answer, view, seen>> /\ LinksMatch'
        /\ chan' = Append(chan, s) /\ snap' = Empty
    BY <1>0, <1>13 DEF SendSnapshot, LinksMatch, serverVars, fetchVars, viewVars
  <2> HIDE DEF s
  <2>3. PICK m \in Messages : chan' = Append(chan, m) /\ Honest(m)
    BY <2>1, <2>2
  <2>4. ASSUME NEW i \in 1..Len(chan')
        PROVE  Honest(chan[i])'
    <3>1. chan'[i] = m \/ \E j \in 1..Len(chan) : chan'[i] = chan[j]
      BY <1>6, <2>3, <2>4, AppendParts
    <3>2. PICK n : n = chan'[i] /\ Honest(n)
      BY <1>0, <2>3, <3>1 DEF Sent
    <3>3. Honest(n)'
      BY <1>1, <2>2, <3>2
    <3> QED BY <3>2, <3>3 DEF Honest, Was
  <2>5. ASSUME NEW r \in Requests, NEW i \in 1..Len(outbox'[r])
        PROVE  Honest(outbox[r][i])'
    <3>1. PICK n : n = outbox'[r][i] /\ Honest(n)
      BY <1>0, <2>2, <2>5 DEF Sent
    <3>2. Honest(n)'
      BY <1>1, <2>2, <3>1
    <3> QED BY <3>1, <3>2 DEF Honest, Was
  <2>6. \A h \in Hosts : Was(h, snap'[h])
    BY <2>2, EmptyTyped, WasNow
  <2>7. Held'
    BY <1>0, <1>4, <2>2, <2>6 DEF Held
  <2> QED BY <1>0, <2>2, <2>4, <2>5, <2>7 DEF Sent
<1>14. CASE Disconnect
  <2>1. /\ UNCHANGED <<db, outbox, answer, view, seen>> /\ LinksMatch'
        /\ chan' = <<>> /\ snap' = Empty
    BY <1>14 DEF Disconnect, LinksMatch, serverVars, fetchVars, viewVars
  <2>2. \A h \in Hosts : Was(h, snap'[h])
    BY <2>1, EmptyTyped, WasNow
  <2>3. Held'
    BY <1>0, <1>4, <2>1, <2>2 DEF Held
  <2>4. ASSUME NEW r \in Requests, NEW i \in 1..Len(outbox'[r])
        PROVE  Honest(outbox[r][i])'
    <3>1. PICK n : n = outbox'[r][i] /\ Honest(n)
      BY <1>0, <2>1, <2>4 DEF Sent
    <3>2. Honest(n)'
      BY <1>1, <2>1, <3>1
    <3> QED BY <3>1, <3>2 DEF Honest, Was
  <2>5. 1..Len(chan') = {}
    BY <2>1
  <2> QED BY <1>0, <2>1, <2>3, <2>4, <2>5 DEF Sent
<1>15. CASE Deliver
  <2>1. /\ chan # <<>> /\ chan' = Tail(chan) /\ answer' = answer
        /\ Head(chan) \in Messages
        /\ UNCHANGED <<db, outbox, snap, conn, srv>>
    BY <1>15, DeliverDoes DEF serverVars, linkVars
  <2>2. /\ Head(chan) = chan[1] /\ 1 \in 1..Len(chan)
        /\ \A i \in 1..Len(Tail(chan)) :
              i + 1 \in 1..Len(chan) /\ Tail(chan)[i] = chan[i + 1]
    BY <1>6, <2>1, TailParts
  <2>3. Honest(Head(chan))
    BY <1>0, <2>2 DEF Sent
  <2>4. ASSUME NEW h \in Hosts
        PROVE  seen'[h] <= Number(db[h]) /\ Was(h, view'[h])
    <3>1. seen'[h] <= Number(db[h])
      BY <1>0, <1>15, <2>3, DeliverDoes DEF Honest, Held, Was
    <3>2. Was(h, view[h]) /\ Was(h, -Number(view[h]))
      BY <1>0, WasNow DEF Held, Typed, BrowserTyped, Rows
    <3>3. \/ view'[h] \in {view[h], -Number(view[h])}
          \/ /\ Head(chan).type = "host" /\ Head(chan).host = h
             /\ view'[h] = Head(chan).val
          \/ Head(chan).type = "snapshot" /\ view'[h] = Head(chan).rows[h]
      BY <1>15, DeliverDoes
    <3>4. Was(h, view'[h])
      <4>1. CASE view'[h] \in {view[h], -Number(view[h])}
        BY <3>2, <4>1
      <4>2. CASE /\ Head(chan).type = "host" /\ Head(chan).host = h
                 /\ view'[h] = Head(chan).val
        BY <2>3, <4>2 DEF Honest
      <4>3. CASE Head(chan).type = "snapshot" /\ view'[h] = Head(chan).rows[h]
        BY <2>3, <4>3 DEF Honest
      <4> QED BY <3>3, <4>1, <4>2, <4>3
    <3> QED BY <3>1, <3>4
  <2>5. Held'
    BY <1>0, <1>4, <2>1, <2>4 DEF Held
  <2>6. ASSUME NEW i \in 1..Len(chan')
        PROVE  Honest(chan[i])'
    <3>1. PICK n : n = chan'[i] /\ Honest(n)
      BY <1>0, <2>1, <2>2, <2>6 DEF Sent
    <3>2. Honest(n)'
      BY <1>1, <2>1, <3>1
    <3> QED BY <3>1, <3>2 DEF Honest, Was
  <2>7. ASSUME NEW r \in Requests, NEW i \in 1..Len(outbox'[r])
        PROVE  Honest(outbox[r][i])'
    <3>1. PICK n : n = outbox'[r][i] /\ Honest(n)
      BY <1>0, <2>1, <2>7 DEF Sent
    <3>2. Honest(n)'
      BY <1>1, <2>1, <3>1
    <3> QED BY <3>1, <3>2 DEF Honest, Was
  <2> QED BY <1>0, <2>1, <2>5, <2>6, <2>7 DEF Sent, LinksMatch
<1>16. ASSUME NEW t \in Tables, Answers(t)
       PROVE  NotAhead'
  <2>1. UNCHANGED <<db, outbox, chan, snap, view, seen, conn, srv>>
        /\ answer' \in {db, answer}
    BY <1>16 DEF Answers, linkVars, viewVars
  <2>2. \A h \in Hosts : Was(h, answer'[h])
    BY <1>0, <2>1, WasNow DEF Held
  <2>3. Held'
    BY <1>0, <1>4, <2>1, <2>2 DEF Held
  <2> QED BY <1>0, <1>2, <2>1, <2>3 DEF LinksMatch
<1>17. ASSUME NEW t \in Tables, FetchArrives(t) \/ FetchFails(t)
       PROVE  NotAhead'
  <2>1. UNCHANGED <<db, outbox, chan, snap, srv>> /\ FetchEnds(t)
    BY <1>17 DEF FetchArrives, FetchFails, FetchEnds, serverVars
  <2>2. answer' \in {Empty, answer} /\ (conn' = "open" <=> conn = "open")
    BY <2>1, FetchEndsTyped DEF FetchEnds, Typed
  <2>3. ASSUME NEW h \in Hosts
        PROVE  /\ Was(h, answer'[h]) /\ Was(h, view'[h])
               /\ seen'[h] <= Number(db[h])
    <3>1. Was(h, Empty[h]) /\ Was(h, answer[h]) /\ Was(h, view[h])
      BY <1>0, EmptyTyped, WasNow DEF Held
    <3>2. CASE FetchArrives(t)
      BY <1>0, <2>2, <3>1, <3>2, FetchArrivesDoes DEF Held, Was
    <3>3. CASE FetchFails(t)
      BY <1>0, <2>2, <3>1, <3>3 DEF Held, FetchFails
    <3> QED BY <1>17, <3>2, <3>3
  <2>4. Held'
    BY <1>0, <1>4, <2>1, <2>3 DEF Held
  <2> QED BY <1>0, <1>2, <2>1, <2>2, <2>4 DEF LinksMatch
<1>18. CASE UNCHANGED vars
  <2>1. UNCHANGED <<db, outbox, chan, snap, answer, view, seen, conn, srv>>
    BY <1>18 DEF vars, serverVars, linkVars, fetchVars, viewVars
  <2> QED BY <1>0, <1>2, <1>5, <2>1 DEF LinksMatch
<1> QED BY <1>8, <1>9, <1>10, <1>11, <1>12, <1>13, <1>14, <1>15, <1>16, <1>17,
           <1>18 DEF Next, Endpoint

-----------------------------------------------------------------------------
(* What is shown was committed.                                               *)

\* The browser never shows more of a host than it was told, nor than was ever
\* committed, and never the host that a deletion removed as it was after it:
\* a message that arrives late, an answer that was overtaken or a snapshot read
\* before a change may take a host back, never ahead.
NothingInvented ==
    \A h \in Hosts : /\ Number(view[h]) <= seen[h] /\ seen[h] <= Number(db[h])
                     /\ view[h] > 0 /\ db[h] < 0 => view[h] < Number(db[h])

ViewSeen == \A h \in Hosts : Number(view[h]) <= seen[h]

LEMMA ViewSeenInit == Init => ViewSeen
BY EmptyTyped DEF Init, ViewSeen

LEMMA ShowsSeen ==
    ASSUME BrowserTyped, ViewSeen, NEW rows \in Rows, NEW S, Shows(rows, S)
    PROVE  ViewSeen'
<1> SUFFICES ASSUME NEW h \in Hosts PROVE Number(view'[h]) <= seen'[h]
  BY DEF ViewSeen
<1>1. rows[h] \in Versions /\ seen[h] \in 0..MaxChanges
  BY DEF BrowserTyped, Rows
<1>2. Number(rows[h]) \in Nat /\ seen[h] \in Nat
  BY <1>1, NumberTyped, BoundsAreNumbers
<1>3. /\ seen'[h] = IF h \in S /\ Number(rows[h]) > seen[h]
                    THEN Number(rows[h]) ELSE seen[h]
      /\ view'[h] = IF h \in S THEN rows[h] ELSE view[h]
  BY ShowsTyped
<1> QED BY <1>2, <1>3 DEF ViewSeen

LEMMA DeliverSeen ==
    ASSUME Typed, ViewSeen, Deliver
    PROVE  ViewSeen'
<1> DEFINE msg == Head(chan)
<1>1. msg \in Messages
  BY TailParts DEF Typed, BrowserTyped, Deliver
<1>2. CASE msg.type = "host"
  <2>1. [h \in Hosts |-> msg.val] \in Rows
    BY <1>1, <1>2, MessageParts DEF Rows
  <2>2. Shows([h \in Hosts |-> msg.val], {msg.host})
    BY <1>2 DEF Deliver
  <2> QED BY <2>1, <2>2, ShowsSeen DEF Typed
<1>3. CASE msg.type = "snapshot"
  <2>1. msg.rows \in Rows
    BY <1>1, <1>3, MessageParts
  <2>2. Shows(msg.rows, Hosts)
    BY <1>3 DEF Deliver
  <2> QED BY <2>1, <2>2, ShowsSeen DEF Typed
<1>4. CASE msg.type = "group_deleted"
  <2>1. ShowsNoGroup(msg.group)
    BY <1>4 DEF Deliver
  <2>2. ASSUME NEW h \in Hosts
        PROVE  Number(view'[h]) = Number(view[h]) /\ seen'[h] = seen[h]
    <3>1. view[h] \in Versions
      BY DEF Typed, BrowserTyped, Rows
    <3>2. view'[h] \in {view[h], -Number(view[h])} /\ seen' = seen
      BY <2>1 DEF ShowsNoGroup
    <3> QED BY <3>1, <3>2, NumberTyped
  <2> QED BY <2>2 DEF ViewSeen
<1>5. CASE msg.type \in {"group_renamed", "group_updated"}
  <2>1. view' = view /\ seen' = seen
    BY <1>5 DEF Deliver, viewVars
  <2> QED BY <2>1 DEF ViewSeen
<1> QED BY <1>1, <1>2, <1>3, <1>4, <1>5, MessageParts

LEMMA ViewSeenNext ==
    ASSUME Typed, ViewSeen, [Next]_vars
    PROVE  ViewSeen'
<1>1. ASSUME UNCHANGED <<view, seen>> PROVE ViewSeen'
  BY <1>1 DEF ViewSeen
<1>2. ASSUME NEW r \in Requests, Request(r) \/ Deletion(r)
      PROVE  ViewSeen'
  BY <1>1, <1>2, RequestDoes DEF RequestDone, Elsewhere, viewVars
<1>3. ASSUME NEW r \in Requests, ReadBack(r) \/ ReadBackFails(r) \/ Broadcast(r)
      PROVE  ViewSeen'
  BY <1>1, <1>3 DEF ReadBack, ReadBackFails, Broadcast, Elsewhere, viewVars
<1>4. CASE Open \/ Endpoint \/ Disconnect \/ UNCHANGED vars
  BY <1>1, <1>4 DEF Open, Endpoint, JoinHub, ReadSnapshot, SendSnapshot,
                    Disconnect, vars, viewVars
<1>5. ASSUME NEW t \in Tables, Answers(t) \/ FetchFails(t)
      PROVE  ViewSeen'
  BY <1>1, <1>5 DEF Answers, FetchFails, viewVars
<1>6. ASSUME NEW t \in Tables, FetchArrives(t)
      PROVE  ViewSeen'
  <2>1. CASE t = "hosts"
    BY <1>6, <2>1, ShowsSeen DEF Typed, BrowserTyped, FetchArrives
  <2>2. CASE t # "hosts"
    BY <1>1, <1>6, <2>2 DEF FetchArrives
  <2> QED BY <2>1, <2>2
<1> QED BY <1>2, <1>3, <1>4, <1>5, <1>6, DeliverSeen DEF Next

\* Nothing is shown of a host that was not committed, in whatever order
\* broadcasts, snapshots and answers reach the browser.
THEOREM ShowsWhatWas == Spec => []NothingInvented
<1>1. Typed /\ Typed' /\ NotAhead /\ [Next]_vars => NotAhead'
  BY NotAheadNext
<1>2. Typed /\ ViewSeen /\ [Next]_vars => ViewSeen'
  BY ViewSeenNext
<1>3. NotAhead /\ ViewSeen => NothingInvented
  BY DEF NotAhead, Was, ViewSeen, NothingInvented
<1> QED BY NotAheadInit, ViewSeenInit, <1>1, <1>2, <1>3, AlwaysTyped, PTL
        DEF Spec

-----------------------------------------------------------------------------
(* No announced change is missed.  Wherever the newest change of a host is,   *)
(* it is on its way to a browser that is connected and does not know of a     *)
(* failure.  While the endpoint has not read its snapshot, it will be in it.  *)

Fetched(h) ==
    \/ fetch["hosts"] = "asked"
    \/ /\ fetch["hosts"] = "answered"
       /\ Number(answer[h]) = Number(db[h])

Informed(h) ==
    \/ Number(db[h]) \in {seen[h], unsaid[h]}
    \/ \E r \in Requests : Promised(r, h)
    \/ \E i \in 1..Len(chan) : Tells(chan[i], h)
    \/ Fetched(h)
    \/ srv = "read" /\ Number(snap[h]) = Number(db[h])

Watched == ~missed /\ ~dropped /\ conn = "open" /\ srv \in {"read", "ready"}

Covered == Watched => \A h \in Hosts : Informed(h)

\* A step that hides no news: the tables, the requests, the channel and the
\* browser's fetch are as they were.
LEMMA InformedKept ==
    ASSUME NEW h \in Hosts, Informed(h),
           UNCHANGED <<db, home, req, about, outbox, chan, seen, unsaid>>,
           groups \subseteq groups',
           fetch'["hosts"] = fetch["hosts"] \/ fetch'["hosts"] = "asked",
           answer' = answer,
           srv' = srv, snap' = snap
    PROVE  Informed(h)'
BY DEF Informed, Promised, HomeOf, Tells, Fetched

LEMMA RequestInforms ==
    ASSUME Typed, Covered, NEW r \in Requests, Request(r) \/ Deletion(r)
    PROVE  Covered'
<1>1. RequestDone(r)
  BY RequestDoes
<1>2. UNCHANGED <<chan, seen, fetch, answer, srv, snap, missed, dropped, conn>>
  BY <1>1 DEF RequestDone, Elsewhere, linkVars, fetchVars, viewVars
<1>3. Watched' = Watched
  BY <1>2 DEF Watched
<1>4. ASSUME NEW h \in Hosts, Informed(h)
      PROVE  Informed(h)'
  <2>1. CASE Promised(r, h)'
    BY <2>1 DEF Informed
  <2>2. CASE unsaid'[h] = Number(db'[h])
    BY <2>2 DEF Informed
  <2>3. CASE db'[h] = db[h]
    <3>1. ASSUME NEW q \in Requests, Promised(q, h)
          PROVE  Promised(q, h)'
      <4>1. q # r
        BY <1>1, <3>1 DEF RequestDone, Promised
      <4>2. req'[q] = req[q] /\ about'[q] = about[q] /\ outbox'[q] = outbox[q]
        BY <1>1, <4>1 DEF RequestDone
      <4>3. CASE req[q] = "committed" /\ about[q] = h /\ db[h] > 0
        BY <2>3, <4>2, <4>3 DEF Promised
      <4>4. CASE /\ req[q] = "renamed" /\ db[h] > 0
                 /\ about[q] = HomeOf(h) /\ about[q] \in groups
        <5>1. HomeOf(h)' = HomeOf(h)
          BY <1>1, <2>3 DEF RequestDone, Stays, HomeOf
        <5>2. HomeOf(h) \in groups'
          BY <1>1, <2>3, <4>4 DEF RequestDone
        <5> QED BY <2>3, <4>2, <4>4, <5>1, <5>2 DEF Promised
      <4>5. CASE /\ req[q] = "sending"
                 /\ \E i \in 1..Len(outbox[q]) : Tells(outbox[q][i], h)
        BY <2>3, <4>2, <4>5 DEF Promised, Tells
      <4> QED BY <3>1, <4>3, <4>4, <4>5 DEF Promised
    <3>2. unsaid[h] = Number(db[h]) => unsaid'[h] = Number(db'[h])
      BY <1>1, <2>3 DEF RequestDone
    <3>3. CASE \E q \in Requests : Promised(q, h)
      BY <3>1, <3>3 DEF Informed
    <3>4. CASE Number(db[h]) \in {seen[h], unsaid[h]}
      BY <1>2, <2>3, <3>2, <3>4 DEF Informed
    <3>5. CASE \/ \E i \in 1..Len(chan) : Tells(chan[i], h)
               \/ Fetched(h)
               \/ srv = "read" /\ Number(snap[h]) = Number(db[h])
      BY <1>2, <2>3, <3>5 DEF Informed, Tells, Fetched
    <3> QED BY <1>4, <3>3, <3>4, <3>5 DEF Informed
  <2> QED BY <1>1, <2>1, <2>2, <2>3 DEF RequestDone
<1> QED BY <1>3, <1>4 DEF Covered

\* What a request has not read back is all that is lost with it.
LEMMA ReadBackInforms ==
    ASSUME Typed, Covered, NEW r \in Requests, ReadBack(r) \/ ReadBackFails(r)
    PROVE  Covered'
<1>1. UNCHANGED <<db, home, groups, chan, seen, fetch, answer, srv, snap, missed,
                  dropped, conn>>
  BY DEF ReadBack, ReadBackFails, Elsewhere, linkVars, fetchVars, viewVars
<1>2. \A q \in Requests : q # r => /\ req'[q] = req[q] /\ about'[q] = about[q]
                                   /\ outbox'[q] = outbox[q]
  BY ReadBackDoes, ReadBackFailsDoes
<1>3. \A h \in Hosts : unsaid'[h] \in {unsaid[h], Number(db[h])}
  BY ReadBackDoes, ReadBackFailsDoes
<1>4. ASSUME NEW h \in Hosts, Informed(h)
      PROVE  Informed(h)'
  <2>1. ASSUME NEW q \in Requests, q # r, Promised(q, h)
        PROVE  Promised(q, h)'
    BY <1>1, <1>2, <2>1 DEF Promised, HomeOf, Tells
  <2>2. CASE Promised(r, h) /\ ReadBack(r)
    <3>1. \/ req[r] = "committed" /\ about[r] = h /\ db[h] > 0
          \/ req[r] = "renamed" /\ about[r] \in groups
      BY <2>2 DEF Promised, ReadBack
    <3>2. CASE req[r] = "committed" /\ about[r] = h /\ db[h] > 0
      <4>1. /\ req'[r] = "sending" /\ 1 \in 1..Len(outbox'[r])
            /\ outbox'[r][1] = Says(h, db[h])
        BY <2>2, <3>2, NoHostIsAGroup, ReadBackDoes
      <4>2. Tells(outbox[r][1], h)'
        BY <1>1, <4>1 DEF Tells, Says
      <4> QED BY <4>1, <4>2 DEF Informed, Promised
    <3>3. CASE req[r] = "renamed" /\ about[r] \in groups
      <4>1. Exists(about[r]) /\ about[r] \notin Hosts
        BY <3>3, GroupsAssumption DEF Exists, Typed, RequestTyped
      <4>2. /\ req'[r] = "sending" /\ 1 \in 1..Len(outbox'[r])
            /\ (outbox'[r][1]).type = "group_renamed"
        BY <2>2, <3>3, <4>1, ReadBackDoes
      <4>3. Tells(outbox[r][1], h)'
        BY <4>2 DEF Tells
      <4> QED BY <4>2, <4>3 DEF Informed, Promised
    <3> QED BY <3>1, <3>2, <3>3
  <2>3. CASE Promised(r, h) /\ ReadBackFails(r)
    <3>1. h \in Unread(r)
      BY <2>3, NoHostIsAGroup DEF Promised, ReadBackFails, Unread
    <3>2. unsaid'[h] = Number(db'[h])
      BY <1>1, <2>3, <3>1, ReadBackFailsDoes
    <3> QED BY <3>2 DEF Informed
  <2>4. CASE \/ \E i \in 1..Len(chan) : Tells(chan[i], h)
             \/ Fetched(h)
             \/ srv = "read" /\ Number(snap[h]) = Number(db[h])
    BY <1>1, <2>4 DEF Informed, Tells, Fetched
  <2>5. CASE Number(db[h]) \in {seen[h], unsaid[h]}
    BY <1>1, <1>3, <2>5 DEF Informed
  <2>6. ASSUME NEW q \in Requests, q # r, Promised(q, h)
        PROVE  Informed(h)'
    BY <2>1, <2>6 DEF Informed
  <2> QED BY <1>4, <2>2, <2>3, <2>4, <2>5, <2>6 DEF Informed
<1> QED BY <1>1, <1>4 DEF Covered, Watched

LEMMA BroadcastInforms ==
    ASSUME Typed, NotAhead, Covered, NEW r \in Requests, Broadcast(r)
    PROVE  Covered'
<1>1. /\ UNCHANGED <<db, home, groups, unsaid>> /\ req[r] = "sending"
      /\ outbox[r] \in Seq(Messages) /\ outbox[r] # <<>>
      /\ outbox'[r] = Tail(outbox[r])
      /\ req'[r] = IF Tail(outbox[r]) = <<>> THEN "idle" ELSE "sending"
      /\ \A q \in Requests : q # r => /\ req'[q] = req[q]
                                      /\ about'[q] = about[q]
                                      /\ outbox'[q] = outbox[q]
      /\ chan' \in {chan, Append(chan, Head(outbox[r]))}
      /\ InHub /\ ~dropped' => chan' = Append(chan, Head(outbox[r]))
      /\ dropped => dropped'
      /\ UNCHANGED <<conn, srv, snap, fetch, answer, seen, missed>>
  BY BroadcastDoes DEF fetchVars, viewVars
<1> SUFFICES ASSUME Watched' PROVE \A h \in Hosts : Informed(h)'
  BY DEF Covered
<1>2. Watched /\ ~dropped' /\ InHub
  BY <1>1 DEF Watched, InHub, Subscribed
<1>3. /\ chan \in Seq(Messages) /\ Head(outbox[r]) \in Messages
      /\ Head(outbox[r]) = outbox[r][1]
      /\ \A i \in 1..Len(outbox[r]) :
            i = 1 \/ \E j \in 1..Len(Tail(outbox[r])) : i = j + 1
      /\ \A i \in 1..Len(Tail(outbox[r])) : Tail(outbox[r])[i] = outbox[r][i + 1]
  BY <1>1, TailParts DEF Typed, BrowserTyped
<1>4. /\ \A j \in 1..Len(chan) : \E i \in 1..Len(chan') : chan'[i] = chan[j]
      /\ \E i \in 1..Len(chan') : chan'[i] = Head(outbox[r])
  <2> DEFINE m == Head(outbox[r])
  <2>1. chan' = Append(chan, m) /\ m \in Messages /\ chan \in Seq(Messages)
    BY <1>1, <1>2, <1>3
  <2> HIDE DEF m
  <2>2. /\ \A j \in 1..Len(chan) :
              \E i \in 1..Len(Append(chan, m)) : Append(chan, m)[i] = chan[j]
        /\ \E i \in 1..Len(Append(chan, m)) : Append(chan, m)[i] = m
    BY <2>1, AppendParts
  <2>3. /\ \A j \in 1..Len(chan) : \E i \in 1..Len(chan') : chan'[i] = chan[j]
        /\ \E i \in 1..Len(chan') : chan'[i] = m
    BY <2>1, <2>2
  <2> QED BY <2>3 DEF m
<1>5. ASSUME NEW h \in Hosts, Informed(h)
      PROVE  Informed(h)'
  <2>a. ASSUME NEW m, Tells(m, h)
        PROVE  Tells(m, h)'
    BY <1>1, <2>a DEF Tells
  <2>1. ASSUME NEW q \in Requests, q # r, Promised(q, h)
        PROVE  Promised(q, h)'
    BY <1>1, <2>1 DEF Promised, HomeOf, Tells
  <2>2. ASSUME NEW m, Tells(m, h), \E i \in 1..Len(chan') : chan'[i] = m
        PROVE  Informed(h)'
    <3>1. PICK i \in 1..Len(chan') : chan'[i] = m
      BY <2>2
    <3>2. Tells(m, h)'
      BY <2>a, <2>2
    <3>3. Tells(chan[i], h)'
      BY <3>1, <3>2 DEF Tells
    <3> QED BY <3>3 DEF Informed
  <2>3. CASE Promised(r, h)
    <3>1. PICK i \in 1..Len(outbox[r]) : Tells(outbox[r][i], h)
      BY <1>1, <2>3 DEF Promised
    <3>2. CASE i = 1
      BY <1>3, <1>4, <2>2, <3>1, <3>2
    <3>3. ASSUME NEW j \in 1..Len(Tail(outbox[r])), i = j + 1
          PROVE  Informed(h)'
      <4>1. Tail(outbox[r]) # <<>>
        <5>1. Tail(outbox[r]) \in Seq(Messages)
          BY <1>1, TailParts
        <5> QED BY <3>3, <5>1, IndexedNotEmpty
      <4>2. outbox'[r][j] = outbox[r][i]
        BY <1>1, <1>3, <3>3
      <4>3. PICK m : m = outbox[r][i] /\ Tells(m, h)
        BY <3>1
      <4>4. Tells(m, h)' /\ outbox'[r][j] = m
        BY <2>a, <4>2, <4>3
      <4>5. Tells(outbox[r][j], h)'
        BY <4>4 DEF Tells
      <4> QED BY <1>1, <3>3, <4>1, <4>5 DEF Informed, Promised
    <3> QED BY <1>3, <3>2, <3>3
  <2>4. ASSUME NEW j \in 1..Len(chan), Tells(chan[j], h)
        PROVE  Informed(h)'
    <3>1. PICK m : m = chan[j] /\ Tells(m, h)
      BY <2>4
    <3> QED BY <1>4, <2>2, <3>1
  <2>5. CASE Number(db[h]) \in {seen[h], unsaid[h]} \/ Fetched(h)
                \/ (srv = "read" /\ Number(snap[h]) = Number(db[h]))
    BY <1>1, <2>5 DEF Informed, Fetched
  <2> QED BY <1>5, <2>1, <2>3, <2>4, <2>5 DEF Informed
<1> QED BY <1>2, <1>5 DEF Covered

LEMMA SnapshotInforms ==
    ASSUME Typed, Covered, ReadSnapshot \/ SendSnapshot
    PROVE  Covered'
<1>1. CASE ReadSnapshot
  <2>1. \A h \in Hosts : snap'[h] = db[h]
    BY <1>1 DEF ReadSnapshot
  <2>2. srv' = "read" /\ db' = db
    BY <1>1 DEF ReadSnapshot, serverVars
  <2> QED BY <2>1, <2>2 DEF Covered, Informed
<1>2. CASE SendSnapshot
  <2> DEFINE m == [type |-> "snapshot", rows |-> snap]
  <2>1. /\ srv = "read" /\ srv' = "ready" /\ chan' = Append(chan, m)
        /\ UNCHANGED <<db, home, groups, req, about, outbox, seen, unsaid, fetch,
                       answer, conn, dropped, missed>>
    BY <1>2 DEF SendSnapshot, serverVars, fetchVars, viewVars
  <2>2. m \in Messages /\ chan \in Seq(Messages) /\ m.type = "snapshot"
        /\ m.rows = snap
    BY DEF Messages, Typed, BrowserTyped
  <2> HIDE DEF m
  <2>3. /\ \A j \in 1..Len(chan) : \E i \in 1..Len(chan') : chan'[i] = chan[j]
        /\ \E i \in 1..Len(chan') : chan'[i] = m
    BY <2>1, <2>2, AppendParts
  <2>4. ASSUME NEW h \in Hosts, Informed(h)
        PROVE  Informed(h)'
    <3>1. ASSUME Number(snap[h]) = Number(db[h])
          PROVE  Informed(h)'
      <4>1. PICK i \in 1..Len(chan') : chan'[i] = m
        BY <2>3
      <4>2. Tells(chan[i], h)'
        BY <2>1, <2>2, <3>1, <4>1 DEF Tells
      <4> QED BY <4>2 DEF Informed
    <3>2. ASSUME NEW j \in 1..Len(chan), Tells(chan[j], h)
          PROVE  Informed(h)'
      <4>1. PICK i \in 1..Len(chan') : chan'[i] = chan[j]
        BY <2>3
      <4>2. Tells(chan[i], h)'
        BY <2>1, <3>2, <4>1 DEF Tells
      <4> QED BY <4>2 DEF Informed
    <3>3. ASSUME NEW q \in Requests, Promised(q, h)
          PROVE  Informed(h)'
      BY <2>1, <3>3 DEF Informed, Promised, HomeOf, Tells
    <3>4. CASE Number(db[h]) \in {seen[h], unsaid[h]} \/ Fetched(h)
      BY <2>1, <3>4 DEF Informed, Fetched
    <3> QED BY <2>4, <3>1, <3>2, <3>3, <3>4 DEF Informed
  <2> QED BY <2>1, <2>4 DEF Covered, Watched
<1> QED BY <1>1, <1>2

\* What tells of the newest change leaves the browser having shown it.
LEMMA DeliverInforms ==
    ASSUME Typed, NotAhead, Covered, Deliver
    PROVE  Covered'
<1>1. /\ chan \in Seq(Messages) /\ chan # <<>> /\ chan' = Tail(chan)
      /\ UNCHANGED <<db, home, groups, req, about, outbox, unsaid, conn, srv,
                     dropped, snap>>
      /\ missed' = missed /\ answer' = answer
      /\ fetch'["hosts"] = "asked" \/ fetch' = fetch
      /\ Head(chan).type = "group_renamed" => fetch'["hosts"] = "asked"
  BY DeliverDoes DEF serverVars, linkVars
<1>2. /\ Head(chan) \in Messages /\ Head(chan) = chan[1] /\ 1 \in 1..Len(chan)
      /\ \A i \in 1..Len(chan) : i = 1 \/ \E j \in 1..Len(Tail(chan)) : i = j + 1
      /\ \A i \in 1..Len(Tail(chan)) : Tail(chan)[i] = chan[i + 1]
  BY <1>1, TailParts
<1>3. Honest(Head(chan))
  BY <1>2 DEF NotAhead
<1>4. ASSUME NEW h \in Hosts, Informed(h)
      PROVE  Informed(h)'
  <2> DEFINE msg == Head(chan)
  <2>1. /\ seen[h] \in Nat /\ Number(db[h]) \in Nat /\ seen[h] <= Number(db[h])
        /\ msg.type = "host" => Number(msg.val) \in Nat
        /\ msg.type = "snapshot" => Number(msg.rows[h]) \in Nat
    BY <1>2, NumbersOfHosts DEF NotAhead
  <2>2. seen'[h] = IF msg.type = "host" /\ msg.host = h /\ Number(msg.val) > seen[h]
                   THEN Number(msg.val)
                   ELSE IF msg.type = "snapshot" /\ Number(msg.rows[h]) > seen[h]
                   THEN Number(msg.rows[h]) ELSE seen[h]
    BY DeliverDoes
  <2>3. seen[h] = Number(db[h]) => seen'[h] = Number(db[h])
    BY <1>3, <2>1, <2>2 DEF Honest, Was
  <2>4. ASSUME NEW j \in 1..Len(chan), Tells(chan[j], h)
        PROVE  Informed(h)'
    <3>1. CASE j = 1
      <4>1. Tells(msg, h)
        BY <1>2, <2>4, <3>1
      <4>2. CASE msg.type = "group_renamed"
        BY <1>1, <4>2 DEF Informed, Fetched
      <4>3. CASE msg.type # "group_renamed"
        <5>1. seen'[h] = Number(db[h])
          BY <1>3, <2>1, <2>2, <4>1, <4>3 DEF Tells, Honest, Was
        <5> QED BY <1>1, <5>1 DEF Informed
      <4> QED BY <4>2, <4>3
    <3>2. ASSUME NEW i \in 1..Len(Tail(chan)), j = i + 1
          PROVE  Informed(h)'
      <4>1. chan'[i] = chan[j] /\ i \in 1..Len(chan')
        BY <1>1, <1>2, <3>2
      <4>2. Tells(chan[i], h)'
        BY <1>1, <2>4, <4>1 DEF Tells
      <4> QED BY <4>1, <4>2 DEF Informed
    <3> QED BY <1>2, <3>1, <3>2
  <2>5. ASSUME NEW q \in Requests, Promised(q, h)
        PROVE  Informed(h)'
    BY <1>1, <2>5 DEF Informed, Promised, HomeOf, Tells
  <2>6. CASE Fetched(h) \/ (srv = "read" /\ Number(snap[h]) = Number(db[h]))
    BY <1>1, <2>6 DEF Informed, Fetched
  <2>7. CASE Number(db[h]) \in {seen[h], unsaid[h]}
    BY <1>1, <2>3, <2>7 DEF Informed
  <2> QED BY <1>4, <2>4, <2>5, <2>6, <2>7 DEF Informed
<1> QED BY <1>1, <1>4 DEF Covered, Watched

LEMMA FetchInforms ==
    ASSUME Typed, NotAhead, Covered, NEW t \in Tables,
           Answers(t) \/ FetchArrives(t) \/ FetchFails(t)
    PROVE  Covered'
<1>1. CASE Answers(t)
  <2>1. /\ UNCHANGED <<db, home, req, about, outbox, chan, seen, unsaid, conn, srv,
                       dropped, snap, missed>>
        /\ fetch[t] = "asked" /\ groups \subseteq groups'
        /\ fetch' = [fetch EXCEPT ![t] = "answered"]
        /\ answer' = IF t = "hosts" THEN db ELSE answer
    BY <1>1 DEF Answers, linkVars, viewVars
  <2>2. CASE t # "hosts"
    <3>1. fetch'["hosts"] = fetch["hosts"] /\ answer' = answer
      BY <2>1, <2>2 DEF Typed, BrowserTyped, Tables
    <3>2. Watched' = Watched
      BY <2>1 DEF Watched
    <3> QED BY <2>1, <3>1, <3>2, InformedKept DEF Covered
  <2>3. CASE t = "hosts"
    <3>1. fetch'["hosts"] = "answered" /\ answer' = db
      BY <2>1, <2>3 DEF Typed, BrowserTyped, Tables
    <3> QED BY <2>1, <3>1 DEF Covered, Informed, Fetched
  <2> QED BY <2>2, <2>3
<1>2. CASE FetchFails(t)
  BY <1>2 DEF FetchFails, Covered, Watched
<1>3. CASE FetchArrives(t)
  <2> SUFFICES ASSUME Watched' PROVE \A h \in Hosts : Informed(h)'
    BY DEF Covered
  <2>1. /\ UNCHANGED <<db, home, groups, req, about, outbox, chan, unsaid, srv,
                       dropped, snap, missed>>
        /\ FetchEnds(t)
    BY <1>3 DEF FetchArrives, FetchEnds, serverVars
  <2>2. conn = "open" /\ Watched
    BY <2>1, FetchEndsTyped DEF Watched, Typed
  <2>3. t # "hosts" => fetch'["hosts"] = fetch["hosts"] /\ answer' = answer
    BY <2>1, <2>2, FetchEndsTyped DEF Typed
  <2>4. ASSUME NEW h \in Hosts, Informed(h)
        PROVE  Informed(h)'
    <3>1. /\ fetch[t] = "answered"
          /\ seen'[h] = IF t = "hosts" /\ Number(answer[h]) > seen[h]
                        THEN Number(answer[h]) ELSE seen[h]
      BY <1>3, FetchArrivesDoes
    <3>2. /\ seen[h] \in Nat /\ Number(db[h]) \in Nat
          /\ Number(answer[h]) \in Nat /\ seen[h] <= Number(db[h])
          /\ Number(answer[h]) <= Number(db[h])
      BY NumbersOfHosts DEF NotAhead, Was
    <3>3. seen[h] = Number(db[h]) => seen'[h] = Number(db[h])
      BY <3>1, <3>2
    <3>4. CASE Fetched(h) /\ t = "hosts"
      <4>1. seen'[h] = Number(db[h])
        BY <3>1, <3>2, <3>4 DEF Fetched
      <4> QED BY <2>1, <4>1 DEF Informed
    <3>5. CASE Fetched(h) /\ t # "hosts"
      BY <2>1, <2>3, <3>5 DEF Fetched, Informed, Tables
    <3>6. ASSUME NEW q \in Requests, Promised(q, h)
          PROVE  Informed(h)'
      BY <2>1, <3>6 DEF Informed, Promised, HomeOf, Tells
    <3>7. CASE \/ \E i \in 1..Len(chan) : Tells(chan[i], h)
               \/ srv = "read" /\ Number(snap[h]) = Number(db[h])
      BY <2>1, <3>7 DEF Informed, Tells
    <3>8. CASE Number(db[h]) \in {seen[h], unsaid[h]}
      BY <2>1, <3>3, <3>8 DEF Informed
    <3> QED BY <2>4, <3>4, <3>5, <3>6, <3>7, <3>8 DEF Informed
  <2> QED BY <2>2, <2>4 DEF Covered
<1> QED BY <1>1, <1>2, <1>3

LEMMA CoveredNext ==
    ASSUME Typed, NotAhead, Covered, [Next]_vars
    PROVE  Covered'
<1>1. CASE Open \/ JoinHub \/ Disconnect
  BY <1>1 DEF Open, JoinHub, Disconnect, Covered, Watched
<1>2. CASE UNCHANGED vars
  BY <1>2 DEF vars, serverVars, linkVars, fetchVars, viewVars, Covered, Watched,
              Informed, Promised, HomeOf, Tells, Fetched
<1> QED BY <1>1, <1>2, RequestInforms, ReadBackInforms, BroadcastInforms,
           SnapshotInforms, DeliverInforms, FetchInforms DEF Next, Endpoint

\* A connected browser that knows of no failure has shown the latest announced
\* change of every host once nothing is under way, for any number of hosts, requests,
\* messages in flight, breaks and reconnects.
THEOREM NothingMissed == Spec => []NoHostChangeMissed
<1>1. Init => Covered
  BY DEF Init, Covered, Watched
<1>2. Typed /\ Typed' /\ NotAhead /\ [Next]_vars => NotAhead'
  BY NotAheadNext
<1>3. Typed /\ NotAhead /\ Covered /\ [Next]_vars => Covered'
  BY CoveredNext
<1>4. Covered => NoHostChangeMissed
  <2> SUFFICES ASSUME Covered, Quiescent, ~missed, NEW h \in Hosts
               PROVE  Number(db[h]) \in {seen[h], unsaid[h]}
    BY DEF NoHostChangeMissed
  <2>1. Informed(h)
    BY DEF Quiescent, Covered, Watched
  <2>2. Len(chan) = 0 /\ fetch["hosts"] = "none" /\ srv = "ready"
    BY DEF Quiescent, Tables
  <2>3. \A r \in Requests : ~Promised(r, h)
    BY DEF Quiescent, Promised
  <2> QED BY <2>1, <2>2, <2>3 DEF Informed, Fetched
<1> QED BY NotAheadInit, <1>1, <1>2, <1>3, <1>4, AlwaysTyped, PTL DEF Spec
=============================================================================
