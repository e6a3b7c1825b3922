----------------------- MODULE SimulationSession_proofs -----------------------
(***************************************************************************)
(* Theorems about SimulationSession for any callers, sessions, keys,       *)
(* change sets and expected versions, and any number of attempts, lost     *)
(* answers and late requests.                                              *)
(*                                                                         *)
(* CoreInv is of what lotus-core keeps: sessions and ledger tell the same  *)
(* story.  CallerInv is of one caller: what its handler, wherever it is,   *)
(* may rely on.                                                            *)
(***************************************************************************)
EXTENDS SimulationSession, TLAPS

(* Session s has the change set x. *)
Has(s, x) == Exists(s) /\ \E i \in DOMAIN sessions[s] : sessions[s][i] = x

KeysOnce(content) ==
  \A i, j \in DOMAIN content : content[i].key = content[j].key => i = j

(* Each entry of the ledger is of a change set some session has, each change
   set of a session has its entry, and no key has two. *)
CoreInv ==
  /\ \A e \in ledger : Has(e.fingerprint[1], [key |-> e.key, changes |-> e.fingerprint[2]])
  /\ \A s \in SessionIds : Exists(s) =>
       \A i \in DOMAIN sessions[s] :
         \E e \in ledger : /\ e.key = sessions[s][i].key
                           /\ e.fingerprint = <<s, sessions[s][i].changes>>
  /\ \A e, f \in ledger : e.key = f.key => e = f
  /\ \A s \in SessionIds : Exists(s) => KeysOnce(sessions[s])
  /\ \A m \in late : /\ Exists(m.session) /\ m.sent.key = m.key
                     /\ m.fingerprint = <<m.session, m.sent.changes>>

Answered(c) == reply[c] \notin {NoReply, Refused}

(* A snapshot that was taken for a caller. *)
Shown(c, content) ==
  /\ KeysOnce(content)
  /\ request[c].changes # NoChanges => \E i \in DOMAIN content : content[i] = Sent(c)
  /\ SentVersion(c) # NoVersion => SentVersion(c) = Len(content) + 1
  /\ reply[c].version # NoVersion => reply[c].version = Len(content) + 1

(* Where a handler is and what it may rely on there. *)
Progressing(c) ==
  /\ step[c] # "idle" => request[c] \in Requests
  /\ step[c] \notin {"idle", "refuse"} => Admitted(request[c])
  /\ step[c] # "idle" /\ request[c].session # NoSession => Exists(request[c].session)
  /\ step[c] \in {"apply", "change", "snapshot"} =>
       session[c].id \in SessionIds /\ Exists(session[c].id)
  /\ step[c] = "change" => request[c].changes # NoChanges
  /\ step[c] = "create" /\ Answered(c) =>
       reply[c].kind = "session" /\ reply[c].id \in SessionIds /\ Exists(reply[c].id)
  /\ step[c] = "change" /\ Answered(c) =>
       reply[c].kind = "applied" /\ Has(session[c].id, Sent(c))
  /\ step[c] = "snapshot" /\ request[c].changes # NoChanges => Has(session[c].id, Sent(c))
  /\ step[c] = "snapshot" /\ Answered(c) =>
       reply[c].kind = "snapshot" /\ Shown(c, reply[c].content)

(* What a response told its caller. *)
Told(a) ==
  /\ KeysOnce(a.content)
  /\ a.request.changes # NoChanges =>
       \E i \in DOMAIN a.content :
         a.content[i] = [key |-> a.request.key, changes |-> a.request.changes]
  /\ a.expected # NoVersion => a.expected = Len(a.content) + 1
  /\ a.request.expected = NoVersion /\ a.version # NoVersion => a.version = Len(a.content) + 1

CallerInv(c) == Progressing(c) /\ (response[c] # NoResponse => Told(response[c]))

IInv ==
  /\ TypeOK
  /\ CoreInv
  /\ RefusalsCreateNothing
  /\ \A c \in Callers : CallerInv(c)

-----------------------------------------------------------------------------
(* What lotus-core keeps. *)

(* Sessions and what they have never go. *)
Grows == \A s \in SessionIds : Exists(s) => Exists(s)' /\ \A x : Has(s, x) => Has(s, x)'

(* A request for changes is well formed and about a session there is. *)
LEMMA MessageFacts ==
  ASSUME TypeOK, NEW c \in Callers, Progressing(c), step[c] = "change"
  PROVE  /\ Message(c) \in Messages /\ Exists(session[c].id)
         /\ request[c] \in Requests /\ Sent(c) \in Entries /\ session[c].id \in SessionIds
         /\ Message(c).session = session[c].id /\ Message(c).key = Sent(c).key
         /\ Message(c).sent = Sent(c)
         /\ Message(c).fingerprint = <<session[c].id, Sent(c).changes>>
<1>1. /\ request[c] \in Requests /\ request[c].changes # NoChanges /\ request[c].key # NoKey
      /\ session[c].id \in SessionIds /\ Exists(session[c].id)
  BY DEF Progressing, Admitted
<1>2. request[c].key \in Keys /\ request[c].changes \in ChangeSets
  BY <1>1 DEF Requests
<1>3. Sent(c) \in Entries /\ Sent(c).key = request[c].key /\ Sent(c).changes = request[c].changes
  BY <1>2 DEF Sent, Entries
<1>4. Fingerprint(c) \in Fingerprints
  BY <1>1, <1>2 DEF Fingerprint, Fingerprints
<1> QED
  BY <1>1, <1>2, <1>3, <1>4 DEF Message, Messages, SentKey, Fingerprint

(* To store a fresh message appends to its session and nothing else. *)
LEMMA StoreEffect ==
  ASSUME TypeOK, NEW m \in Messages, Exists(m.session), Store(m)
  PROVE  /\ sessions[m.session] \in Contents
         /\ sessions'[m.session] = Append(sessions[m.session], m.sent)
         /\ \A s \in SessionIds \ {m.session} : sessions'[s] = sessions[s]
         /\ sessions' \in [SessionIds -> Contents \cup {NoSession}]
         /\ \A s \in SessionIds : Exists(s)' <=> Exists(s)
         /\ Grows
         /\ Has(m.session, m.sent)'
         /\ ledger' \subseteq Ledger
<1> DEFINE k == m.session
           old == sessions[k]
<1>1. k \in SessionIds /\ m.sent \in Entries /\ m.key \in Keys /\ m.fingerprint \in Fingerprints
  BY DEF Messages
<1>2. old \in Contents
  BY <1>1 DEF TypeOK, Exists
<1>3. Append(old, m.sent) \in Contents
  BY <1>1, <1>2 DEF Contents
<1>4. /\ sessions'[k] = Append(old, m.sent)
      /\ \A s \in SessionIds \ {k} : sessions'[s] = sessions[s]
      /\ sessions' \in [SessionIds -> Contents \cup {NoSession}]
  BY <1>1, <1>3 DEF Store, TypeOK
<1>5. /\ DOMAIN old = 1..Len(old) /\ Len(old) \in Nat
      /\ DOMAIN Append(old, m.sent) = 1..(Len(old) + 1)
      /\ \A i \in DOMAIN old : Append(old, m.sent)[i] = old[i]
      /\ Append(old, m.sent)[Len(old) + 1] = m.sent
  BY <1>1, <1>2 DEF Contents
<1>6. \A s \in SessionIds : Exists(s)' <=> Exists(s)
  BY <1>3, <1>4, SentinelAssumption DEF Exists
<1>7. ASSUME NEW s \in SessionIds, NEW x, Has(s, x) PROVE Has(s, x)'
  <2>1. CASE s = k
    <3>1. PICK i \in DOMAIN old : old[i] = x
      BY <1>7, <2>1 DEF Has
    <3>2. i \in DOMAIN sessions'[k] /\ sessions'[k][i] = x
      BY <1>4, <1>5, <3>1
    <3> QED
      BY <1>6, <1>7, <2>1, <3>2 DEF Has
  <2>2. CASE s # k
    BY <1>4, <1>6, <1>7, <2>2 DEF Has
  <2> QED
    BY <2>1, <2>2
<1>8. Grows
  BY <1>6, <1>7 DEF Grows
<1>9. Has(k, m.sent)'
  <2>1. Len(old) + 1 \in DOMAIN sessions'[k] /\ sessions'[k][Len(old) + 1] = m.sent
    BY <1>4, <1>5
  <2> QED
    BY <1>1, <1>6, <2>1 DEF Has
<1>10. ledger' \subseteq Ledger
  <2>1. Version(k) + 1 \in Nat \ {0}
    BY <1>5 DEF Version
  <2>2. [key |-> m.key, fingerprint |-> m.fingerprint, version |-> Version(k) + 1] \in Ledger
    BY <1>1, <2>1 DEF Ledger
  <2> QED
    BY <2>2 DEF Store, TypeOK
<1> QED
  BY <1>2, <1>4, <1>6, <1>8, <1>9, <1>10

(* What lotus-core keeps stays consistent when a fresh message is stored. *)
LEMMA StoreKeeps ==
  ASSUME TypeOK, CoreInv, NEW m \in Messages, Exists(m.session), Store(m), Seen(m) = {},
         m.sent.key = m.key, m.fingerprint = <<m.session, m.sent.changes>>,
         late' \subseteq late
  PROVE  CoreInv'
<1> DEFINE k == m.session
           old == sessions[k]
           entry == [key |-> m.key, fingerprint |-> m.fingerprint, version |-> Version(k) + 1]
<1>0. k \in SessionIds /\ m.sent \in Entries
  BY DEF Messages
<1>1. /\ old \in Contents /\ sessions'[k] = Append(old, m.sent)
      /\ \A s \in SessionIds \ {k} : sessions'[s] = sessions[s]
      /\ \A s \in SessionIds : Exists(s)' <=> Exists(s)
      /\ Grows /\ Has(k, m.sent)'
  BY StoreEffect
<1>2. ledger' = ledger \cup {entry}
  BY DEF Store
<1>3. entry.key = m.key /\ entry.fingerprint = <<k, m.sent.changes>>
  OBVIOUS
<1> HIDE DEF entry
<1>4. \A e \in ledger : e.key # m.key
  BY DEF Seen
<1>5. /\ DOMAIN old = 1..Len(old) /\ Len(old) \in Nat
      /\ DOMAIN sessions'[k] = 1..(Len(old) + 1)
      /\ \A i \in DOMAIN old : sessions'[k][i] = old[i]
      /\ sessions'[k][Len(old) + 1] = m.sent
  BY <1>0, <1>1 DEF Contents
<1>6. \A i \in DOMAIN old : old[i].key # m.key
  BY <1>0, <1>4 DEF CoreInv
<1>7. \A i \in 1..(Len(old) + 1) :
         /\ i \notin DOMAIN old => i = Len(old) + 1 /\ sessions'[k][i].key = m.key
         /\ i \in DOMAIN old => sessions'[k][i].key # m.key
  BY <1>5, <1>6
<1>8. ASSUME NEW e \in ledger'
      PROVE  Has(e.fingerprint[1], [key |-> e.key, changes |-> e.fingerprint[2]])'
  <2>1. CASE e = entry
    <3>1. [key |-> e.key, changes |-> e.fingerprint[2]] = m.sent
      BY <1>0, <1>3, <2>1 DEF Entries
    <3> QED
      BY <1>1, <1>3, <2>1, <3>1
  <2>2. CASE e \in ledger
    <3>1. Has(e.fingerprint[1], [key |-> e.key, changes |-> e.fingerprint[2]])
      BY <2>2 DEF CoreInv
    <3>2. e.fingerprint[1] \in SessionIds
      BY <2>2 DEF TypeOK, Ledger, Fingerprints
    <3> QED
      BY <1>1, <3>1, <3>2, SMTT(30) DEF Grows, Has
  <2> QED
    BY <1>2, <2>1, <2>2
<1>9. ASSUME NEW s \in SessionIds, Exists(s)', NEW i \in DOMAIN sessions'[s]
      PROVE  \E e \in ledger' : /\ e.key = sessions'[s][i].key
                                /\ e.fingerprint = <<s, sessions'[s][i].changes>>
  <2>1. CASE s = k /\ i = Len(old) + 1
    BY <1>2, <1>3, <1>5, <2>1
  <2>2. CASE s = k /\ i \in DOMAIN old
    <3>1. PICK e \in ledger : e.key = old[i].key /\ e.fingerprint = <<k, old[i].changes>>
      BY <1>0, <2>2 DEF CoreInv
    <3>2. sessions'[s][i] = old[i] /\ e \in ledger'
      BY <1>2, <1>5, <2>2
    <3> QED
      BY <2>2, <3>1, <3>2
  <2>3. CASE s # k
    <3>1. sessions'[s] = sessions[s] /\ Exists(s) /\ i \in DOMAIN sessions[s]
      BY <1>1, <1>9, <2>3
    <3>2. PICK e \in ledger : /\ e.key = sessions[s][i].key
                             /\ e.fingerprint = <<s, sessions[s][i].changes>>
      BY <3>1 DEF CoreInv
    <3> QED
      BY <1>2, <3>1, <3>2
  <2> QED
    BY <1>5, <1>9, <2>1, <2>2, <2>3
<1>10. \A e, f \in ledger' : e.key = f.key => e = f
  BY <1>2, <1>3, <1>4 DEF CoreInv
<1>11. ASSUME NEW s \in SessionIds, Exists(s)' PROVE KeysOnce(sessions'[s])
  <2>1. CASE s = k
    <3>1. \A i, j \in DOMAIN old : old[i].key = old[j].key => i = j
      BY <1>0 DEF CoreInv, KeysOnce
    <3>2. ASSUME NEW i \in 1..(Len(old) + 1), NEW j \in 1..(Len(old) + 1),
                 sessions'[k][i].key = sessions'[k][j].key
          PROVE  i = j
      <4>1. CASE i \in DOMAIN old /\ j \in DOMAIN old
        BY <1>5, <3>1, <3>2, <4>1
      <4>2. CASE i \notin DOMAIN old /\ j \in DOMAIN old
        BY <1>7, <3>2, <4>2
      <4>3. CASE i \in DOMAIN old /\ j \notin DOMAIN old
        BY <1>7, <3>2, <4>3
      <4>4. CASE i \notin DOMAIN old /\ j \notin DOMAIN old
        BY <1>7, <4>4
      <4> QED
        BY <4>1, <4>2, <4>3, <4>4
    <3> QED
      BY <1>5, <2>1, <3>2 DEF KeysOnce
  <2>2. CASE s # k
    <3>1. sessions'[s] = sessions[s] /\ Exists(s)
      BY <1>1, <1>11, <2>2
    <3> QED
      BY <3>1 DEF CoreInv
  <2> QED
    BY <2>1, <2>2
<1>12. ASSUME NEW n \in late'
       PROVE  /\ Exists(n.session)' /\ n.sent.key = n.key
              /\ n.fingerprint = <<n.session, n.sent.changes>>
  BY <1>1, <1>12 DEF CoreInv, TypeOK, Messages
<1> QED
  BY <1>8, <1>9, <1>10, <1>11, <1>12 DEF CoreInv, KeysOnce

(* A new session is empty. *)
LEMMA CreateEffect ==
  ASSUME TypeOK, CoreInv, NEW c \in Callers, CreateSession(c)
  PROVE  /\ CoreInv' /\ Grows
         /\ sessions' \in [SessionIds -> Contents \cup {NoSession}]
         /\ \E s \in SessionIds, v \in {1, NoVersion} :
              /\ Exists(s)' /\ creators' = [creators EXCEPT ![s] = Sent(c)]
              /\ \A t \in SessionIds \ {s} : sessions'[t] = sessions[t]
              /\ Reply(c, [kind |-> "session", id |-> s, version |-> v])
<1>1. PICK k \in SessionIds :
        /\ ~Exists(k) /\ sessions' = [sessions EXCEPT ![k] = <<>>]
        /\ creators' = [creators EXCEPT ![k] = Sent(c)]
        /\ \E v \in {1, NoVersion} : Reply(c, [kind |-> "session", id |-> k, version |-> v])
  BY DEF CreateSession
<1>2. <<>> \in Contents
  BY DEF Contents
<1>3. /\ sessions'[k] = <<>> /\ \A s \in SessionIds \ {k} : sessions'[s] = sessions[s]
      /\ sessions' \in [SessionIds -> Contents \cup {NoSession}]
  BY <1>1, <1>2 DEF TypeOK
<1>4. Exists(k)' /\ \A s \in SessionIds : Exists(s) => Exists(s)' /\ s # k
  BY <1>1, <1>2, <1>3, SentinelAssumption DEF Exists
<1>5. \A s \in SessionIds : \A x : Has(s, x) => Has(s, x)'
  BY <1>3, <1>4 DEF Has
<1>6. Grows
  BY <1>4, <1>5 DEF Grows
<1>7. UNCHANGED <<ledger, late>>
  BY DEF CreateSession
<1>8. ASSUME NEW e \in ledger
      PROVE  Has(e.fingerprint[1], [key |-> e.key, changes |-> e.fingerprint[2]])'
  <2>1. e.fingerprint[1] \in SessionIds
    BY DEF TypeOK, Ledger, Fingerprints
  <2> QED
    BY <1>5, <2>1 DEF CoreInv
<1>9. \A s \in SessionIds : Exists(s)' =>
        /\ \A i \in DOMAIN sessions'[s] :
             \E e \in ledger : /\ e.key = sessions'[s][i].key
                               /\ e.fingerprint = <<s, sessions'[s][i].changes>>
        /\ KeysOnce(sessions'[s])
  <2> SUFFICES ASSUME NEW s \in SessionIds, Exists(s)'
               PROVE  /\ \A i \in DOMAIN sessions'[s] :
                           \E e \in ledger : /\ e.key = sessions'[s][i].key
                                             /\ e.fingerprint = <<s, sessions'[s][i].changes>>
                      /\ KeysOnce(sessions'[s])
    OBVIOUS
  <2>1. CASE s = k
    BY <1>3, <2>1 DEF KeysOnce
  <2>2. CASE s # k
    <3>1. sessions'[s] = sessions[s] /\ Exists(s)
      BY <1>3, <2>2 DEF Exists
    <3>2. KeysOnce(sessions[s])
      BY <3>1 DEF CoreInv
    <3>3. \A i \in DOMAIN sessions[s] :
            \E e \in ledger : /\ e.key = sessions[s][i].key
                              /\ e.fingerprint = <<s, sessions[s][i].changes>>
      BY <3>1 DEF CoreInv
    <3> QED
      BY <3>1, <3>2, <3>3
  <2> QED
    BY <2>1, <2>2
<1>10. \A m \in late : Exists(m.session)'
  BY <1>4 DEF CoreInv, TypeOK, Messages
<1>11. CoreInv'
  BY <1>7, <1>8, <1>9, <1>10 DEF CoreInv, KeysOnce
<1> QED
  BY <1>1, <1>3, <1>4, <1>6, <1>11

-----------------------------------------------------------------------------
(* Callers. *)

(* A caller that is not moved may rely on what it relied on. *)
LEMMA CallerFrame ==
  ASSUME TypeOK, NEW c \in Callers, CallerInv(c), Grows,
         request'[c] = request[c], step'[c] = step[c], reply'[c] = reply[c],
         session'[c] = session[c], response'[c] = response[c]
  PROVE  CallerInv(c)'
<1>1. /\ Sent(c)' = Sent(c) /\ SentVersion(c)' = SentVersion(c)
      /\ Answered(c)' = Answered(c)
  BY DEF Sent, SentVersion, Answered
<1>2. \A content : Shown(c, content)' <=> Shown(c, content)
  BY <1>1 DEF Shown
<1>3. Admitted(request[c])' = Admitted(request[c])
  BY DEF Admitted
<1>4. ASSUME NEW s \in SessionIds, Exists(s) PROVE Exists(s)'
  BY <1>4 DEF Grows
<1>5. ASSUME NEW s \in SessionIds, Has(s, Sent(c)) PROVE Has(s, Sent(c))'
  BY <1>1, <1>5 DEF Grows, Has
<1>6. step[c] # "idle" /\ request[c].session # NoSession => request[c].session \in SessionIds
  BY DEF CallerInv, Progressing, Requests
<1>7. step[c] \in {"apply", "change", "snapshot"} => session[c].id \in SessionIds
  BY DEF CallerInv, Progressing
<1>8. /\ (step[c] # "idle" => request[c] \in Requests)'
      /\ (step[c] \notin {"idle", "refuse"} => Admitted(request[c]))'
      /\ (step[c] = "change" => request[c].changes # NoChanges)'
  BY <1>3 DEF CallerInv, Progressing
<1>9. /\ (step[c] # "idle" /\ request[c].session # NoSession => Exists(request[c].session))'
      /\ (step[c] \in {"apply", "change", "snapshot"} =>
            session[c].id \in SessionIds /\ Exists(session[c].id))'
  <2>1. ASSUME step[c] # "idle", request[c].session # NoSession
        PROVE  Exists(request[c].session)'
    <3>1. request[c].session \in SessionIds /\ Exists(request[c].session)
      BY <1>6, <2>1 DEF CallerInv, Progressing
    <3> QED
      BY <3>1, <1>4 DEF Exists
  <2>2. ASSUME step[c] \in {"apply", "change", "snapshot"}
        PROVE  session[c].id \in SessionIds /\ Exists(session[c].id)'
    <3>1. session[c].id \in SessionIds /\ Exists(session[c].id)
      BY <2>2 DEF CallerInv, Progressing
    <3> QED
      BY <3>1, <1>4 DEF Exists
  <2> QED
    BY <2>1, <2>2
<1>10. (step[c] = "create" /\ Answered(c) =>
          reply[c].kind = "session" /\ reply[c].id \in SessionIds /\ Exists(reply[c].id))'
  <2> SUFFICES ASSUME step[c] = "create", Answered(c)
               PROVE  reply[c].kind = "session" /\ reply[c].id \in SessionIds /\ Exists(reply[c].id)'
    BY <1>1
  <2>1. reply[c].kind = "session" /\ reply[c].id \in SessionIds /\ Exists(reply[c].id)
    BY DEF CallerInv, Progressing
  <2> QED
    BY <1>4, <2>1 DEF Exists
<1>11. /\ (step[c] = "change" /\ Answered(c) =>
             reply[c].kind = "applied" /\ Has(session[c].id, Sent(c)))'
       /\ (step[c] = "snapshot" /\ request[c].changes # NoChanges => Has(session[c].id, Sent(c)))'
  <2>1. ASSUME step[c] = "change", Answered(c)
        PROVE  reply[c].kind = "applied" /\ Has(session[c].id, Sent(c))'
    <3>1. reply[c].kind = "applied" /\ Has(session[c].id, Sent(c))
      BY <2>1 DEF CallerInv, Progressing
    <3> QED
      BY <1>5, <1>7, <2>1, <3>1 DEF Has, Exists
  <2>2. ASSUME step[c] = "snapshot", request[c].changes # NoChanges
        PROVE  Has(session[c].id, Sent(c))'
    <3>1. Has(session[c].id, Sent(c))
      BY <2>2 DEF CallerInv, Progressing
    <3> QED
      BY <1>5, <1>7, <2>2, <3>1 DEF Has, Exists
  <2> QED
    BY <1>1, <2>1, <2>2
<1>12. (step[c] = "snapshot" /\ Answered(c) =>
          reply[c].kind = "snapshot" /\ Shown(c, reply[c].content))'
  BY <1>1, <1>2 DEF CallerInv, Progressing
<1>13. (response[c] # NoResponse => Told(response[c]))'
  BY DEF CallerInv, Told, KeysOnce
<1> QED
  BY <1>8, <1>9, <1>10, <1>11, <1>12, <1>13 DEF CallerInv, Progressing

(* The callers a step does not move. *)
LEMMA OthersKeep ==
  ASSUME IInv, NEW c \in Callers, Grows,
         \A d \in Callers \ {c} :
           /\ request'[d] = request[d] /\ step'[d] = step[d] /\ reply'[d] = reply[d]
           /\ session'[d] = session[d] /\ response'[d] = response[d]
  PROVE  \A d \in Callers \ {c} : CallerInv(d)'
  BY CallerFrame DEF IInv

(* A step of a handler leaves lotus-core alone. *)
LEMMA CoreFrame ==
  ASSUME CoreInv, RefusalsCreateNothing, UNCHANGED <<sessions, ledger, creators>>,
         late' \subseteq late
  PROVE  CoreInv' /\ RefusalsCreateNothing' /\ Grows
<1>1. \A s : (Exists(s)' <=> Exists(s)) /\ \A x : Has(s, x)' <=> Has(s, x)
  BY DEF Exists, Has
<1>2. CoreInv'
  BY <1>1, ZenonT(60) DEF CoreInv, KeysOnce
<1>3. RefusalsCreateNothing'
  BY <1>1 DEF RefusalsCreateNothing
<1> QED
  BY <1>1, <1>2, <1>3 DEF Grows

(* An answer is one of the four kinds. *)
LEMMA ReplyFacts ==
  ASSUME TypeOK, NEW c \in Callers, Answered(c)
  PROVE  /\ reply[c] \in Replies
         /\ reply[c].kind = "session" => reply[c].version \in Versions
         /\ reply[c].kind = "applied" => reply[c].version \in Versions
         /\ reply[c].kind = "snapshot" =>
              reply[c].version \in Versions /\ reply[c].content \in Contents
  BY DEF TypeOK, Answered, Replies, Refused

LEMMA RefusedIsReply == Refused \in Replies /\ Refused # NoReply
  BY SentinelAssumption DEF Refused, Replies

(* What Reply does to its caller. *)
LEMMA ReplyEffect ==
  ASSUME TypeOK, NEW c \in Callers, NEW r \in Replies \cup {NoReply}, Reply(c, r)
  PROVE  /\ reply'[c] = r /\ \A d \in Callers \ {c} : reply'[d] = reply[d]
         /\ reply' \in [Callers -> Replies \cup {NoReply}]
  BY DEF Reply, TypeOK

-----------------------------------------------------------------------------
(* lotus-core handles a request. *)

LEMMA CreateSessionKeeps ==
  ASSUME IInv, NEW c \in Callers, CreateSession(c)
  PROVE  IInv'
<1>0. /\ TypeOK /\ CoreInv /\ CallerInv(c) /\ step[c] = "create"
      /\ UNCHANGED <<ledger, late, request, step, session, attempts, faults, response>>
  BY DEF IInv, CreateSession, Awaits, handler
<1>1. PICK s \in SessionIds, v \in {1, NoVersion} :
        /\ CoreInv' /\ Grows /\ sessions' \in [SessionIds -> Contents \cup {NoSession}]
        /\ Exists(s)' /\ creators' = [creators EXCEPT ![s] = Sent(c)]
        /\ \A t \in SessionIds \ {s} : sessions'[t] = sessions[t]
        /\ Reply(c, [kind |-> "session", id |-> s, version |-> v])
  BY <1>0, CreateEffect
<1> DEFINE answer == [kind |-> "session", id |-> s, version |-> v]
<1>2. answer \in Replies /\ answer.kind = "session" /\ answer.id = s
  BY DEF Replies, Versions
<1> HIDE DEF answer
<1>3. /\ reply'[c] = answer /\ \A d \in Callers \ {c} : reply'[d] = reply[d]
      /\ reply' \in [Callers -> Replies \cup {NoReply}]
  BY <1>0, <1>1, <1>2, ReplyEffect DEF answer
<1>4. request[c] \in Requests /\ Admitted(request[c]) /\ Sent(c) \in Creators
  BY <1>0 DEF CallerInv, Progressing, Requests, Sent, Creators
<1>5. TypeOK'
  BY <1>0, <1>1, <1>3, <1>4 DEF TypeOK
<1>6. RefusalsCreateNothing'
  <2> SUFFICES ASSUME NEW t \in SessionIds, Exists(t)', creators'[t].changes # NoChanges
               PROVE  creators'[t].key # NoKey
    BY DEF RefusalsCreateNothing, Exists
  <2>1. CASE t = s
    BY <1>0, <1>1, <1>4, <2>1 DEF TypeOK, Sent, Admitted
  <2>2. CASE t # s
    <3>1. sessions'[t] = sessions[t]
      BY <1>1, <2>2
    <3> QED
      BY <1>0, <1>1, <2>2, <3>1 DEF TypeOK, IInv, RefusalsCreateNothing, Exists
  <2> QED
    BY <2>1, <2>2
<1>7. CallerInv(c)'
  <2>1. request'[c] = request[c] /\ step'[c] = "create" /\ response'[c] = response[c]
    BY <1>0
  <2>2. request[c].session # NoSession => Exists(request[c].session)'
    BY <1>0, <1>1, <1>4 DEF CallerInv, Progressing, Requests, Grows
  <2>3. Progressing(c)'
    BY <1>1, <1>2, <1>3, <1>4, <2>1, <2>2 DEF Progressing, Admitted, Exists
  <2> QED
    BY <1>0, <2>1, <2>3 DEF CallerInv, Told, KeysOnce
<1>8. \A d \in Callers \ {c} : CallerInv(d)'
  BY <1>0, <1>1, <1>3, OthersKeep
<1> QED
  BY <1>1, <1>5, <1>6, <1>7, <1>8 DEF IInv

LEMMA AddChangesKeeps ==
  ASSUME IInv, NEW c \in Callers, AddChanges(c)
  PROVE  IInv'
<1>0. /\ TypeOK /\ CoreInv /\ CallerInv(c) /\ Progressing(c) /\ step[c] = "change"
      /\ UNCHANGED <<creators, late, request, step, session, attempts, faults, response>>
  BY DEF IInv, CallerInv, AddChanges, Awaits, handler
<1> PICK m \in Messages : m = Message(c)
  BY <1>0, MessageFacts
<1>1. /\ Exists(m.session) /\ m.session = session[c].id
      /\ m.key = m.sent.key /\ m.sent = Sent(c) /\ Sent(c) \in Entries
      /\ m.fingerprint = <<m.session, m.sent.changes>> /\ m.session \in SessionIds
      /\ request[c] \in Requests
  BY <1>0, MessageFacts
<1>2. \/ /\ Seen(m) = {} /\ Store(m)
         /\ \E v \in {Version(m.session) + 1, NoVersion} :
              Reply(c, [kind |-> "applied", version |-> v])
      \/ /\ \E e \in Seen(m) :
              IF e.fingerprint = m.fingerprint
                THEN Reply(c, [kind |-> "applied", version |-> e.version])
                ELSE Reply(c, Refused)
         /\ UNCHANGED <<sessions, ledger>>
  BY DEF AddChanges
<1>3. /\ CoreInv' /\ Grows /\ ledger' \subseteq Ledger
      /\ sessions' \in [SessionIds -> Contents \cup {NoSession}]
      /\ RefusalsCreateNothing'
  <2>1. CASE Seen(m) = {} /\ Store(m)
    <3>1. CoreInv'
      BY <1>0, <1>1, <2>1, StoreKeeps
    <3>2. /\ Grows /\ ledger' \subseteq Ledger
          /\ sessions' \in [SessionIds -> Contents \cup {NoSession}]
          /\ \A s \in SessionIds : Exists(s)' <=> Exists(s)
      BY <1>0, <1>1, <2>1, StoreEffect
    <3>3. RefusalsCreateNothing'
      BY <1>0, <3>2 DEF IInv, RefusalsCreateNothing, Exists
    <3> QED
      BY <3>1, <3>2, <3>3
  <2>2. CASE UNCHANGED <<sessions, ledger>>
    BY <1>0, <2>2, CoreFrame DEF IInv, TypeOK
  <2> QED
    BY <1>2, <2>1, <2>2
<1>4. \E r \in Replies :
        /\ Reply(c, r)
        /\ r # Refused => r.kind = "applied" /\ Has(session[c].id, Sent(c))'
  <2>1. ASSUME Seen(m) = {}, Store(m), NEW v \in {Version(m.session) + 1, NoVersion},
               Reply(c, [kind |-> "applied", version |-> v])
        PROVE  \E r \in Replies :
                 /\ Reply(c, r)
                 /\ r # Refused => r.kind = "applied" /\ Has(session[c].id, Sent(c))'
    <3>1. /\ sessions[m.session] \in Contents /\ Has(m.session, m.sent)'
      BY <1>0, <1>1, <2>1, StoreEffect
    <3>2. v \in Versions
      BY <3>1 DEF Version, Versions, Contents
    <3>3. [kind |-> "applied", version |-> v] \in Replies
      BY <3>2 DEF Replies
    <3>4. Has(session[c].id, Sent(c))'
      BY <1>0, <1>1, <3>1 DEF Has, Exists, Sent
    <3> QED
      BY <2>1, <3>3, <3>4
  <2>2. ASSUME NEW e \in Seen(m), UNCHANGED <<sessions, ledger>>,
               IF e.fingerprint = m.fingerprint
                 THEN Reply(c, [kind |-> "applied", version |-> e.version])
                 ELSE Reply(c, Refused)
        PROVE  \E r \in Replies :
                 /\ Reply(c, r)
                 /\ r # Refused => r.kind = "applied" /\ Has(session[c].id, Sent(c))'
    <3>1. e \in ledger /\ e.key = m.key /\ e.version \in Nat \ {0}
      BY <1>0 DEF Seen, TypeOK, Ledger
    <3>2. CASE e.fingerprint = m.fingerprint
      <4>1. [kind |-> "applied", version |-> e.version] \in Replies
        BY <3>1 DEF Replies, Versions
      <4>2. Has(e.fingerprint[1], [key |-> e.key, changes |-> e.fingerprint[2]])
        BY <1>0, <3>1 DEF CoreInv
      <4>3. [key |-> e.key, changes |-> e.fingerprint[2]] = Sent(c)
        BY <1>1, <3>1, <3>2 DEF Entries
      <4>4. Has(session[c].id, Sent(c))
        BY <1>1, <3>2, <4>2, <4>3
      <4>5. Has(session[c].id, Sent(c))'
        BY <1>0, <2>2, <4>4 DEF Has, Exists, Sent
      <4> QED
        BY <2>2, <3>2, <4>1, <4>5
    <3>3. CASE e.fingerprint # m.fingerprint
      BY <2>2, <3>3, RefusedIsReply
    <3> QED
      BY <3>2, <3>3
  <2> QED
    BY <1>2, <2>1, <2>2
<1>5. PICK r \in Replies :
        /\ Reply(c, r)
        /\ r # Refused => r.kind = "applied" /\ Has(session[c].id, Sent(c))'
  BY <1>4
<1>6. /\ reply'[c] = r /\ \A d \in Callers \ {c} : reply'[d] = reply[d]
      /\ reply' \in [Callers -> Replies \cup {NoReply}]
  BY <1>0, <1>5, ReplyEffect
<1>7. TypeOK'
  BY <1>0, <1>3, <1>6 DEF TypeOK
<1>8. CallerInv(c)'
  <2>1. /\ request'[c] = request[c] /\ step'[c] = "change" /\ response'[c] = response[c]
        /\ session'[c] = session[c]
    BY <1>0
  <2>2. /\ request[c].session # NoSession => Exists(request[c].session)'
        /\ Exists(session[c].id)'
    BY <1>0, <1>1, <1>3 DEF Progressing, Requests, Grows
  <2>3. /\ Admitted(request[c]) /\ request[c].changes # NoChanges
    BY <1>0 DEF Progressing
  <2>4. Answered(c)' => (reply[c].kind = "applied" /\ Has(session[c].id, Sent(c)))'
    BY <1>5, <1>6, <2>1 DEF Answered, Has, Exists, Sent
  <2>5. Progressing(c)'
    BY <1>1, <2>1, <2>2, <2>3, <2>4 DEF Progressing, Admitted, Exists
  <2> QED
    BY <1>0, <2>1, <2>5 DEF CallerInv, Told, KeysOnce
<1>9. \A d \in Callers \ {c} : CallerInv(d)'
  BY <1>0, <1>3, <1>6, OthersKeep
<1> QED
  BY <1>3, <1>7, <1>8, <1>9 DEF IInv

LEMMA AddLateChangesKeeps ==
  ASSUME IInv, NEW m \in late, AddLateChanges(m)
  PROVE  IInv'
<1>0. /\ TypeOK /\ CoreInv /\ m \in Messages
      /\ UNCHANGED <<creators, request, step, session, attempts, faults, response, reply>>
      /\ late' = late \ {m}
  BY DEF IInv, AddLateChanges, handler, TypeOK
<1>1. /\ Exists(m.session) /\ m.sent.key = m.key /\ m.fingerprint = <<m.session, m.sent.changes>>
  BY <1>0 DEF CoreInv
<1>2. /\ CoreInv' /\ Grows /\ ledger' \subseteq Ledger
      /\ sessions' \in [SessionIds -> Contents \cup {NoSession}]
      /\ RefusalsCreateNothing'
  <2>1. CASE Seen(m) = {} /\ Store(m)
    <3>1. CoreInv'
      BY <1>0, <1>1, <2>1, StoreKeeps
    <3>2. /\ Grows /\ ledger' \subseteq Ledger
          /\ sessions' \in [SessionIds -> Contents \cup {NoSession}]
          /\ \A s \in SessionIds : Exists(s)' <=> Exists(s)
      BY <1>0, <1>1, <2>1, StoreEffect
    <3>3. RefusalsCreateNothing'
      BY <1>0, <3>2 DEF IInv, RefusalsCreateNothing, Exists
    <3> QED
      BY <3>1, <3>2, <3>3
  <2>2. CASE UNCHANGED <<sessions, ledger>>
    BY <1>0, <2>2, CoreFrame DEF IInv, TypeOK
  <2> QED
    BY <2>1, <2>2 DEF AddLateChanges
<1>3. TypeOK'
  BY <1>0, <1>2 DEF TypeOK
<1>4. \A d \in Callers : CallerInv(d)'
  BY <1>0, <1>2, CallerFrame DEF IInv
<1> QED
  BY <1>2, <1>3, <1>4 DEF IInv

LEMMA TakeSnapshotKeeps ==
  ASSUME IInv, NEW c \in Callers, TakeSnapshot(c)
  PROVE  IInv'
<1> DEFINE s == session[c].id
           content == sessions[s]
<1>0. /\ TypeOK /\ CoreInv /\ CallerInv(c) /\ Progressing(c) /\ step[c] = "snapshot"
      /\ RefusalsCreateNothing
      /\ UNCHANGED <<sessions, ledger, creators, late, request, step, session, attempts, faults,
                     response>>
  BY DEF IInv, CallerInv, TakeSnapshot, Awaits, handler, core
<1>1. /\ s \in SessionIds /\ Exists(s) /\ content \in Contents
      /\ request[c].changes # NoChanges => Has(s, Sent(c))
      /\ request[c] \in Requests /\ Admitted(request[c])
      /\ request[c].session # NoSession => Exists(request[c].session)
  BY <1>0 DEF Progressing, Exists, TypeOK
<1>2. CoreInv' /\ RefusalsCreateNothing' /\ Grows
  BY <1>0, CoreFrame
<1>3. KeysOnce(content) /\ Version(s) = Len(content) + 1 /\ Version(s) \in Versions
  BY <1>0, <1>1 DEF CoreInv, Version, Versions, Contents
<1>4. \E r \in Replies :
        /\ Reply(c, r)
        /\ r # Refused =>
             /\ r.kind = "snapshot" /\ r.content = content
             /\ SentVersion(c) # NoVersion => SentVersion(c) = Len(content) + 1
             /\ r.version # NoVersion => r.version = Len(content) + 1
  <2>1. CASE ExpectedVersion(c) \in {NoVersion, Version(s)}
    <3>1. PICK v \in {Version(s), NoVersion} :
            Reply(c, [kind |-> "snapshot", version |-> v, content |-> content])
      BY <2>1 DEF TakeSnapshot
    <3>2. [kind |-> "snapshot", version |-> v, content |-> content] \in Replies
      BY <1>1, <1>3 DEF Replies, Versions
    <3>3. SentVersion(c) # NoVersion => SentVersion(c) = Len(content) + 1
      BY <1>3, <2>1 DEF ExpectedVersion
    <3> QED
      BY <1>3, <3>1, <3>2, <3>3
  <2>2. CASE ExpectedVersion(c) \notin {NoVersion, Version(s)}
    BY <2>2, RefusedIsReply DEF TakeSnapshot
  <2> QED
    BY <2>1, <2>2
<1>5. PICK r \in Replies :
        /\ Reply(c, r)
        /\ r # Refused =>
             /\ r.kind = "snapshot" /\ r.content = content
             /\ SentVersion(c) # NoVersion => SentVersion(c) = Len(content) + 1
             /\ r.version # NoVersion => r.version = Len(content) + 1
  BY <1>4
<1>6. /\ reply'[c] = r /\ \A d \in Callers \ {c} : reply'[d] = reply[d]
      /\ reply' \in [Callers -> Replies \cup {NoReply}]
  BY <1>0, <1>5, ReplyEffect
<1>7. TypeOK'
  BY <1>0, <1>6 DEF TypeOK
<1>8. CallerInv(c)'
  <2>1. Sent(c)' = Sent(c) /\ SentVersion(c)' = SentVersion(c)
    BY <1>0 DEF Sent, SentVersion
  <2>2. request[c].changes # NoChanges => \E i \in DOMAIN content : content[i] = Sent(c)
    BY <1>1 DEF Has
  <2>3. Answered(c)' => (reply[c].kind = "snapshot" /\ Shown(c, reply[c].content))'
    <3> SUFFICES ASSUME r # Refused
                 PROVE  (reply[c].kind = "snapshot" /\ Shown(c, reply[c].content))'
      BY <1>6 DEF Answered, Refused
    <3> QED
      BY <1>0, <1>3, <1>5, <1>6, <2>1, <2>2 DEF Shown, KeysOnce
  <2>4. (request[c].changes # NoChanges => Has(session[c].id, Sent(c)))'
    BY <1>0, <1>1, <2>1 DEF Has, Exists
  <2>5. Progressing(c)'
    BY <1>0, <1>1, <2>3, <2>4 DEF Progressing, Admitted, Exists
  <2> QED
    BY <1>0, <2>5 DEF CallerInv, Told, KeysOnce
<1>9. \A d \in Callers \ {c} : CallerInv(d)'
  BY <1>0, <1>2, <1>6, OthersKeep
<1> QED
  BY <1>2, <1>7, <1>8, <1>9 DEF IInv

(* An answer that is lost is a refusal, and the message may be on its way. *)
LEMMA LoseAnswerKeeps ==
  ASSUME IInv, NEW c \in Callers, LoseAnswer(c)
  PROVE  IInv'
<1>0. /\ TypeOK /\ CoreInv /\ CallerInv(c) /\ Progressing(c)
      /\ RefusalsCreateNothing
      /\ UNCHANGED <<sessions, ledger, creators, request, step, session, attempts, response>>
      /\ faults' = faults + 1 /\ faults < MaxFaults /\ Reply(c, Refused)
      /\ late' = late \/ (step[c] = "change" /\ late' = late \cup {Message(c)})
  BY DEF IInv, CallerInv, LoseAnswer, Awaits, handler
<1>1. step[c] = "change" =>
        /\ Message(c) \in Messages /\ Exists(Message(c).session)
        /\ Message(c).sent.key = Message(c).key
        /\ Message(c).fingerprint = <<Message(c).session, Message(c).sent.changes>>
  BY <1>0, MessageFacts
<1>2. \A s : (Exists(s)' <=> Exists(s)) /\ \A x : Has(s, x)' <=> Has(s, x)
  BY <1>0 DEF Exists, Has
<1>3. CoreInv' /\ RefusalsCreateNothing' /\ Grows
  <2>1. \A n \in late' : /\ Exists(n.session) /\ n.sent.key = n.key
                         /\ n.fingerprint = <<n.session, n.sent.changes>>
    BY <1>0, <1>1 DEF CoreInv
  <2>2. CoreInv'
    BY <1>0, <1>2, <2>1, ZenonT(60) DEF CoreInv, KeysOnce
  <2> QED
    BY <1>0, <1>2, <2>2 DEF RefusalsCreateNothing, Grows
<1>4. /\ reply'[c] = Refused /\ \A d \in Callers \ {c} : reply'[d] = reply[d]
      /\ reply' \in [Callers -> Replies \cup {NoReply}]
  BY <1>0, RefusedIsReply, ReplyEffect
<1>5. TypeOK'
  <2>1. faults' \in 0..MaxFaults /\ late' \subseteq Messages
    BY <1>0, <1>1, BoundsAssumption DEF TypeOK
  <2> QED
    BY <1>0, <1>4, <2>1 DEF TypeOK
<1>6. CallerInv(c)'
  <2>1. ~Answered(c)' /\ Sent(c)' = Sent(c)
    BY <1>0, <1>4 DEF Answered, Refused, Sent
  <2>2. (step[c] = "snapshot" /\ request[c].changes # NoChanges => Has(session[c].id, Sent(c)))'
    BY <1>0, <1>2, <2>1 DEF Progressing, Has, Exists
  <2>3. Progressing(c)'
    BY <1>0, <1>2, <2>1, <2>2 DEF Progressing, Admitted, Exists
  <2> QED
    BY <1>0, <2>3 DEF CallerInv, Told, KeysOnce
<1>7. \A d \in Callers \ {c} : CallerInv(d)'
  BY <1>0, <1>3, <1>4, OthersKeep
<1> QED
  BY <1>3, <1>5, <1>6, <1>7 DEF IInv

-----------------------------------------------------------------------------
(* The handler resumes. *)

Steps == {"idle", "refuse", "resolve", "create", "apply", "change", "snapshot"}

(* A handler that awaits lotus-core, or goes on, has no answer yet. *)
LEMMA AwaitEffect ==
  ASSUME TypeOK, NEW c \in Callers, NEW s \in Steps, Await(c, s)
  PROVE  /\ step'[c] = s /\ reply'[c] = NoReply /\ ~Answered(c)'
         /\ \A d \in Callers \ {c} : step'[d] = step[d] /\ reply'[d] = reply[d]
         /\ step' \in [Callers -> Steps] /\ reply' \in [Callers -> Replies \cup {NoReply}]
  BY DEF Await, Reply, TypeOK, Steps, Answered

(* The end of a request. *)
LEMMA FinishKeeps ==
  ASSUME IInv, NEW c \in Callers, NEW a \in Responses \cup {NoResponse}, Finish(c, a),
         UNCHANGED <<core, attempts, faults>>,
         a # NoResponse => Told(a)
  PROVE  IInv'
<1>0. /\ TypeOK /\ CoreInv /\ RefusalsCreateNothing
      /\ UNCHANGED <<sessions, ledger, creators, late, attempts, faults>>
  BY DEF IInv, core
<1>1. /\ request' = [request EXCEPT ![c] = NoRequest]
      /\ session' = [session EXCEPT ![c] = Unresolved]
      /\ response' = [response EXCEPT ![c] = a]
      /\ Await(c, "idle")
  BY DEF Finish
<1>2. /\ step'[c] = "idle" /\ ~Answered(c)'
      /\ \A d \in Callers \ {c} : step'[d] = step[d] /\ reply'[d] = reply[d]
      /\ step' \in [Callers -> Steps] /\ reply' \in [Callers -> Replies \cup {NoReply}]
  BY <1>0, <1>1, AwaitEffect DEF Steps
<1>3. Unresolved \in Handles
  BY DEF Unresolved, Handles, Versions
<1>4. TypeOK'
  BY <1>0, <1>1, <1>2, <1>3 DEF TypeOK, Steps
<1>5. CoreInv' /\ RefusalsCreateNothing' /\ Grows
  BY <1>0, CoreFrame
<1>6. CallerInv(c)'
  <2>1. response'[c] = a
    BY <1>0, <1>1 DEF TypeOK
  <2>2. Progressing(c)'
    BY <1>2 DEF Progressing
  <2> QED
    BY <2>1, <2>2 DEF CallerInv, Told, KeysOnce
<1>7. \A d \in Callers \ {c} : CallerInv(d)'
  BY <1>0, <1>1, <1>2, <1>5, OthersKeep DEF TypeOK
<1> QED
  BY <1>4, <1>5, <1>6, <1>7 DEF IInv

LEMMA FailKeeps ==
  ASSUME IInv, NEW c \in Callers, Fail(c)
  PROVE  IInv'
  BY FinishKeeps DEF Fail

LEMMA AskKeeps ==
  ASSUME IInv, NEW c \in Callers, Ask(c)
  PROVE  IInv'
<1>0. /\ TypeOK /\ CoreInv /\ RefusalsCreateNothing
      /\ UNCHANGED <<sessions, ledger, creators, late, session, faults>>
      /\ attempts[c] < MaxAttempts /\ attempts' = [attempts EXCEPT ![c] = @ + 1]
      /\ response' = [response EXCEPT ![c] = NoResponse]
  BY DEF IInv, Ask, core
<1>1. PICK r \in Requests :
        /\ r.session # NoSession => Exists(r.session)
        /\ request' = [request EXCEPT ![c] = r]
        /\ Await(c, IF Admitted(r) THEN "resolve" ELSE "refuse")
  BY DEF Ask
<1>2. /\ step'[c] = IF Admitted(r) THEN "resolve" ELSE "refuse"
      /\ ~Answered(c)'
      /\ \A d \in Callers \ {c} : step'[d] = step[d] /\ reply'[d] = reply[d]
      /\ step' \in [Callers -> Steps] /\ reply' \in [Callers -> Replies \cup {NoReply}]
  BY <1>0, <1>1, AwaitEffect DEF Steps
<1>3. TypeOK'
  <2>1. attempts' \in [Callers -> 0..MaxAttempts]
    BY <1>0, BoundsAssumption DEF TypeOK
  <2> QED
    BY <1>0, <1>1, <1>2, <2>1 DEF TypeOK, Steps
<1>4. CoreInv' /\ RefusalsCreateNothing' /\ Grows
  BY <1>0, CoreFrame
<1>5. CallerInv(c)'
  <2>1. request'[c] = r /\ response'[c] = NoResponse
    BY <1>0, <1>1 DEF TypeOK
  <2>2. r.session # NoSession => Exists(r.session)'
    BY <1>0, <1>1 DEF Exists
  <2>3. Progressing(c)'
    BY <1>1, <1>2, <2>1, <2>2 DEF Progressing, Admitted, Exists
  <2> QED
    BY <2>1, <2>3 DEF CallerInv
<1>6. \A d \in Callers \ {c} : CallerInv(d)'
  BY <1>0, <1>1, <1>2, <1>4, OthersKeep DEF TypeOK
<1> QED
  BY <1>3, <1>4, <1>5, <1>6 DEF IInv

(* A step of a handler within its request. *)
LEMMA GoOnKeeps ==
  ASSUME IInv, NEW c \in Callers, NEW s \in {"create", "apply", "change", "snapshot"},
         Await(c, s), NEW h \in Handles, session' = [session EXCEPT ![c] = h],
         UNCHANGED <<core, request, attempts, faults, response>>,
         step[c] \in {"resolve", "create", "apply", "change"},
         s # "create" => h.id \in SessionIds /\ Exists(h.id),
         s = "change" => request[c].changes # NoChanges,
         s = "snapshot" /\ request[c].changes # NoChanges => Has(h.id, Sent(c))
  PROVE  IInv'
<1>0. /\ TypeOK /\ CoreInv /\ RefusalsCreateNothing /\ CallerInv(c) /\ Progressing(c)
      /\ UNCHANGED <<sessions, ledger, creators, late, request, attempts, faults, response>>
  BY DEF IInv, core, CallerInv
<1>1. /\ step'[c] = s /\ ~Answered(c)' /\ session'[c] = h
      /\ \A d \in Callers \ {c} : step'[d] = step[d] /\ reply'[d] = reply[d]
                                  /\ session'[d] = session[d]
      /\ step' \in [Callers -> Steps] /\ reply' \in [Callers -> Replies \cup {NoReply}]
      /\ session' \in [Callers -> Handles]
  BY <1>0, AwaitEffect DEF Steps, TypeOK
<1>2. TypeOK'
  BY <1>0, <1>1 DEF TypeOK, Steps
<1>3. CoreInv' /\ RefusalsCreateNothing' /\ Grows
  BY <1>0, CoreFrame
<1>4. CallerInv(c)'
  <2>1. /\ request[c] \in Requests /\ Admitted(request[c])
        /\ request[c].session # NoSession => Exists(request[c].session)
    BY <1>0 DEF Progressing
  <2>2. Sent(c)' = Sent(c) /\ (\A t : Exists(t)' <=> Exists(t)) /\ \A t, x : Has(t, x)' <=> Has(t, x)
    BY <1>0 DEF Sent, Exists, Has
  <2>3. (step[c] = "snapshot" /\ request[c].changes # NoChanges => Has(session[c].id, Sent(c)))'
    BY <1>0, <1>1, <2>2 DEF Has, Exists, Sent
  <2>4. Progressing(c)'
    BY <1>0, <1>1, <2>1, <2>3 DEF Progressing, Admitted, Exists
  <2> QED
    BY <1>0, <2>4 DEF CallerInv, Told, KeysOnce
<1>5. \A d \in Callers \ {c} : CallerInv(d)'
  BY <1>0, <1>1, <1>3, OthersKeep
<1> QED
  BY <1>2, <1>3, <1>4, <1>5 DEF IInv

LEMMA ResolveKeeps ==
  ASSUME IInv, NEW c \in Callers, Resolve(c)
  PROVE  IInv'
<1>0. TypeOK /\ Progressing(c) /\ session[c] \in Handles
  BY DEF IInv, CallerInv, TypeOK
<1>1. CASE step[c] = "resolve" /\ UNCHANGED <<core, request, attempts, faults, response>>
           /\ Await(c, "create") /\ UNCHANGED session
  <2>1. session' = [session EXCEPT ![c] = session[c]]
    BY <1>0, <1>1 DEF TypeOK
  <2> QED
    BY <1>0, <1>1, <2>1, GoOnKeeps
<1>2. CASE /\ step[c] = "resolve" /\ UNCHANGED <<core, request, attempts, faults, response>>
           /\ request[c].session # NoSession /\ Await(c, "apply")
           /\ session' = [session EXCEPT ![c] =
                [id |-> request[c].session, version |-> NoVersion]]
  <2> DEFINE h == [id |-> request[c].session, version |-> NoVersion]
  <2>1. request[c].session \in SessionIds /\ Exists(request[c].session)
    BY <1>0, <1>2 DEF Progressing, Requests
  <2>2. h \in Handles /\ h.id = request[c].session
    BY <2>1 DEF Handles, Versions
  <2>3. h.id \in SessionIds /\ Exists(h.id)
    BY <2>1, <2>2
  <2>4. session' = [session EXCEPT ![c] = h]
    BY <1>2
  <2> HIDE DEF h
  <2> QED
    BY <1>2, <2>2, <2>3, <2>4, GoOnKeeps
<1>3. CASE /\ step[c] = "create" /\ Answered(c) /\ Await(c, "apply")
           /\ session' = [session EXCEPT ![c] = CreatedSession(c)]
           /\ UNCHANGED <<core, request, attempts, faults, response>>
  <2>1. /\ reply[c].kind = "session" /\ reply[c].id \in SessionIds /\ Exists(reply[c].id)
        /\ reply[c].version \in Versions
    BY <1>0, <1>3, ReplyFacts DEF Progressing
  <2>2. CreatedSession(c) \in Handles /\ CreatedSession(c).id = reply[c].id
    BY <2>1 DEF CreatedSession, Handles
  <2>3. CreatedSession(c).id \in SessionIds /\ Exists(CreatedSession(c).id)
    BY <2>1, <2>2
  <2> QED
    BY <1>3, <2>2, <2>3, GoOnKeeps
<1> QED
  BY <1>1, <1>2, <1>3 DEF Resolve, Answered

LEMMA ApplyKeeps ==
  ASSUME IInv, NEW c \in Callers, Apply(c)
  PROVE  IInv'
<1>0. /\ TypeOK /\ Progressing(c) /\ session[c] \in Handles
      /\ step[c] \in {"apply", "change"}
      /\ session[c].id \in SessionIds /\ Exists(session[c].id)
      /\ UNCHANGED <<core, request, attempts, faults, response>>
  BY DEF IInv, CallerInv, TypeOK, Progressing, Apply
<1>1. CASE UNCHANGED session /\ Await(c, "snapshot") /\ request[c].changes = NoChanges
  <2>1. session' = [session EXCEPT ![c] = session[c]]
    BY <1>0, <1>1 DEF TypeOK
  <2> QED
    BY <1>0, <1>1, <2>1, GoOnKeeps
<1>2. CASE UNCHANGED session /\ Await(c, "change") /\ request[c].changes # NoChanges
  <2>1. session' = [session EXCEPT ![c] = session[c]]
    BY <1>0, <1>2 DEF TypeOK
  <2> QED
    BY <1>0, <1>2, <2>1, GoOnKeeps
<1>3. CASE /\ step[c] = "change" /\ Answered(c) /\ Await(c, "snapshot")
           /\ session' = [session EXCEPT ![c].version =
                            IF reply[c].version # NoVersion THEN reply[c].version ELSE @]
  <2> DEFINE h == [session[c] EXCEPT !.version =
                     IF reply[c].version # NoVersion THEN reply[c].version
                                                     ELSE session[c].version]
  <2>1. reply[c].version \in Versions /\ Has(session[c].id, Sent(c))
    BY <1>0, <1>3, ReplyFacts DEF Progressing
  <2>2. h \in Handles /\ h.id = session[c].id
    BY <1>0, <2>1 DEF Handles
  <2>3. session' = [session EXCEPT ![c] = h]
    BY <1>0, <1>3 DEF TypeOK
  <2> HIDE DEF h
  <2> QED
    BY <1>0, <1>3, <2>1, <2>2, <2>3, GoOnKeeps
<1> QED
  BY <1>1, <1>2, <1>3 DEF Apply, Answered

LEMMA RespondKeeps ==
  ASSUME IInv, NEW c \in Callers, Respond(c)
  PROVE  IInv'
<1> DEFINE a == [request |-> request[c], expected |-> SentVersion(c),
                 version |-> IF reply[c].version # NoVersion THEN reply[c].version
                                                            ELSE session[c].version,
                 content |-> reply[c].content]
<1>0. /\ TypeOK /\ Progressing(c) /\ session[c] \in Handles
      /\ step[c] = "snapshot" /\ Answered(c) /\ Finish(c, a)
      /\ UNCHANGED <<core, attempts, faults>>
  BY DEF IInv, CallerInv, TypeOK, Respond, Answered
<1>1. /\ request[c] \in Requests /\ reply[c].kind = "snapshot" /\ Shown(c, reply[c].content)
      /\ reply[c].version \in Versions /\ reply[c].content \in Contents
      /\ session[c].version \in Versions
  BY <1>0, ReplyFacts DEF Progressing, Handles
<1>2. SentVersion(c) \in ExpectedVersions \cup Versions
  BY <1>1 DEF SentVersion, Requests
<1>3. a \in Responses
  BY <1>1, <1>2 DEF Responses
<1>4. /\ a.request = request[c] /\ a.expected = SentVersion(c) /\ a.content = reply[c].content
      /\ a.version = IF reply[c].version # NoVersion THEN reply[c].version ELSE session[c].version
  OBVIOUS
<1> HIDE DEF a
<1>5. Told(a)
  <2>1. KeysOnce(a.content)
    BY <1>1, <1>4 DEF Shown
  <2>2. a.request.changes # NoChanges =>
          \E i \in DOMAIN a.content :
            a.content[i] = [key |-> a.request.key, changes |-> a.request.changes]
    BY <1>1, <1>4 DEF Shown, Sent
  <2>3. a.expected # NoVersion => a.expected = Len(a.content) + 1
    BY <1>1, <1>4 DEF Shown
  <2>4. a.request.expected = NoVersion /\ a.version # NoVersion => a.version = Len(a.content) + 1
    BY <1>1, <1>4 DEF Shown, SentVersion
  <2> QED
    BY <2>1, <2>2, <2>3, <2>4 DEF Told
<1> QED
  BY <1>0, <1>3, <1>5, FinishKeeps

-----------------------------------------------------------------------------
(* The invariant holds throughout. *)

LEMMA InitHolds == Init => IInv
<1> SUFFICES ASSUME Init PROVE IInv
  OBVIOUS
<1>1. \A s \in SessionIds : ~Exists(s)
  BY DEF Init, Exists
<1>2. TypeOK
  BY BoundsAssumption DEF Init, TypeOK, Unresolved, Handles, Versions
<1>3. CoreInv
  BY <1>1 DEF Init, CoreInv
<1>4. RefusalsCreateNothing
  BY <1>1 DEF RefusalsCreateNothing
<1>5. ASSUME NEW c \in Callers PROVE CallerInv(c)
  <2>1. step[c] = "idle" /\ response[c] = NoResponse
    BY DEF Init
  <2> QED
    BY <2>1 DEF CallerInv, Progressing
<1> QED
  BY <1>2, <1>3, <1>4, <1>5 DEF IInv

LEMMA NextKeeps == IInv /\ [Next]_vars => IInv'
<1> SUFFICES ASSUME IInv, [Next]_vars PROVE IInv'
  OBVIOUS
<1>1. ASSUME NEW c \in Callers, CoreHandles(c) PROVE IInv'
  BY <1>1, CreateSessionKeeps, AddChangesKeeps, TakeSnapshotKeeps DEF CoreHandles
<1>2. ASSUME NEW c \in Callers, Resume(c) PROVE IInv'
  BY <1>2, ResolveKeeps, ApplyKeeps, RespondKeeps, FailKeeps DEF Resume
<1>3. CASE UNCHANGED vars
  <2>1. UNCHANGED <<sessions, ledger, creators>> /\ late' \subseteq late
    BY <1>3 DEF vars
  <2>2. CoreInv' /\ RefusalsCreateNothing' /\ Grows
    BY <2>1, CoreFrame DEF IInv
  <2>3. \A c \in Callers : CallerInv(c)'
    BY <1>3, <2>2, CallerFrame DEF IInv, vars
  <2>4. TypeOK'
    BY <1>3 DEF IInv, TypeOK, vars
  <2> QED
    BY <2>2, <2>3, <2>4 DEF IInv
<1> QED
  BY <1>1, <1>2, <1>3, AskKeeps, LoseAnswerKeeps, AddLateChangesKeeps DEF Next

THEOREM Invariance == Spec => []IInv
  BY InitHolds, NextKeeps, PTL DEF Spec

-----------------------------------------------------------------------------
(* Every variable holds what handlers and lotus-core can hold. *)
THEOREM TypeCorrect == Spec => []TypeOK
<1>1. IInv => TypeOK
  BY DEF IInv
<1> QED
  BY <1>1, Invariance, PTL

(* No session has a change set twice under one key, whatever is lost, repeated
   or asked at the same time. *)
THEOREM ChangesGoInOnce == Spec => []ChangesAreAppliedOnce
<1>1. IInv => ChangesAreAppliedOnce
  BY DEF IInv, CoreInv, KeysOnce, ChangesAreAppliedOnce
<1> QED
  BY <1>1, Invariance, PTL

(* What a response shows is the session at the version it names, with the
   caller's own changes in it once (resolve_simulation). *)
THEOREM AnswersAreOfOneVersion == Spec => []AnswersTellOneVersion
<1>1. IInv => AnswersTellOneVersion
  <2> SUFFICES ASSUME IInv PROVE AnswersTellOneVersion
    OBVIOUS
  <2>1. \A c \in Callers : response[c] # NoResponse => Told(response[c])
    BY DEF IInv, CallerInv
  <2>2. AnswersShowOwnChanges
    <3> SUFFICES ASSUME NEW c \in Callers, response[c] # NoResponse,
                        response[c].request.changes # NoChanges
                 PROVE  \E i \in DOMAIN response[c].content :
                          /\ response[c].content[i] =
                               [key |-> response[c].request.key,
                                changes |-> response[c].request.changes]
                          /\ \A j \in DOMAIN response[c].content :
                               response[c].content[j].key = response[c].request.key => i = j
      BY DEF AnswersShowOwnChanges
    <3>1. PICK i \in DOMAIN response[c].content :
            response[c].content[i] = [key |-> response[c].request.key,
                                      changes |-> response[c].request.changes]
      BY <2>1 DEF Told
    <3>2. response[c].content[i].key = response[c].request.key
      BY <3>1
    <3>3. KeysOnce(response[c].content)
      BY <2>1 DEF Told
    <3> QED
      BY <3>1, <3>2, <3>3 DEF KeysOnce
  <2>3. AnswersAreAtTheirVersion
    BY <2>1 DEF Told, AnswersAreAtTheirVersion
  <2> QED
    BY <2>2, <2>3 DEF AnswersTellOneVersion
<1> QED
  BY <1>1, Invariance, PTL

(* A request that its own validation refuses has created no session
   (_resolve_applied_simulation_session). *)
THEOREM RefusedBeforeTheWrite == Spec => []RefusalsCreateNothing
<1>1. IInv => RefusalsCreateNothing
  BY DEF IInv
<1> QED
  BY <1>1, Invariance, PTL

(* Nobody but lotus-core, or the loss of its answer, refuses a request for
   changes. *)
LEMMA WhoRefuses ==
  ASSUME IInv, [Next]_vars, NEW c \in Callers,
         Awaits(c, "change"), reply'[c] = Refused, faults' = faults
  PROVE  AddChanges(c)
<1>0. /\ TypeOK /\ step[c] = "change" /\ reply[c] = NoReply /\ Refused # NoReply
      /\ faults \in Nat
  BY RefusedIsReply, BoundsAssumption DEF IInv, Awaits, TypeOK
<1>1. \A d \in Callers \ {c} : \A r \in Replies \cup {NoReply} :
        Reply(d, r) => reply'[c] = NoReply
  BY <1>0 DEF Reply, TypeOK
<1>2. \A d \in Callers : \A s : Await(d, s) => reply'[c] = NoReply
  BY <1>0 DEF Await, Reply, TypeOK
<1>3. ASSUME NEW d \in Callers, Ask(d) \/ Resume(d) PROVE FALSE
  <2>1. \E s : Await(d, s)
    BY <1>3 DEF Ask, Resume, Resolve, Apply, Respond, Fail, Finish
  <2> QED
    BY <1>0, <1>2, <2>1
<1>4. ASSUME NEW d \in Callers, LoseAnswer(d) PROVE FALSE
  BY <1>0, <1>4 DEF LoseAnswer
<1>5. ASSUME NEW d \in Callers, CoreHandles(d), d # c PROVE FALSE
  <2>1. \E r : reply' = [reply EXCEPT ![d] = r]
    BY <1>5 DEF CoreHandles, CreateSession, AddChanges, TakeSnapshot, Reply
  <2> QED
    BY <1>0, <1>5, <2>1 DEF TypeOK
<1>6. ASSUME CoreHandles(c) PROVE AddChanges(c)
  BY <1>0, <1>6 DEF CoreHandles, CreateSession, TakeSnapshot, Awaits
<1>7. ASSUME NEW m \in late, AddLateChanges(m) PROVE FALSE
  BY <1>0, <1>7 DEF AddLateChanges
<1>8. ASSUME UNCHANGED vars PROVE FALSE
  BY <1>0, <1>8 DEF vars
<1> QED
  BY <1>3, <1>4, <1>5, <1>6, <1>7, <1>8 DEF Next

(* A step that refuses a request for changes refuses none its session has. *)
ReplayStep ==
  \A c \in Callers :
    /\ Awaits(c, "change") /\ reply'[c] = Refused /\ faults' = faults
    => \A i \in DOMAIN sessions[session[c].id] : sessions[session[c].id][i] # Sent(c)

(* A change set sent again to the session that has it is never refused as a
   conflict: the ledger's entry of its key has the fingerprint it is sent with,
   also when the first attempt created the session (_change_set_fingerprint). *)
THEOREM ReplaysAreServed == Spec => RepeatsAreReplayed
<1>1. ASSUME IInv, [Next]_vars, NEW c \in Callers,
             Awaits(c, "change"), reply'[c] = Refused, faults' = faults,
             NEW i \in DOMAIN sessions[session[c].id], sessions[session[c].id][i] = Sent(c)
      PROVE  FALSE
  <2>0. TypeOK /\ CoreInv /\ Progressing(c) /\ step[c] = "change"
    BY <1>1 DEF IInv, CallerInv, Awaits
  <2>1. /\ Message(c) \in Messages /\ Exists(session[c].id) /\ session[c].id \in SessionIds
        /\ Message(c).key = Sent(c).key
        /\ Message(c).fingerprint = <<session[c].id, Sent(c).changes>>
    BY <2>0, MessageFacts
  <2>2. PICK f \in ledger : /\ f.key = Sent(c).key
                            /\ f.fingerprint = <<session[c].id, Sent(c).changes>>
    <3>1. PICK f \in ledger :
            /\ f.key = sessions[session[c].id][i].key
            /\ f.fingerprint = <<session[c].id, sessions[session[c].id][i].changes>>
      BY <2>0, <2>1 DEF CoreInv
    <3> QED
      BY <1>1, <3>1
  <2>3. f \in Seen(Message(c)) /\ \A e \in Seen(Message(c)) : e = f
    BY <2>0, <2>1, <2>2 DEF Seen, CoreInv
  <2>4. PICK v : Reply(c, [kind |-> "applied", version |-> v])
    BY <1>1, <2>1, <2>2, <2>3, WhoRefuses DEF AddChanges
  <2>5. reply'[c] = [kind |-> "applied", version |-> v]
    BY <2>0, <2>4 DEF Reply, TypeOK
  <2> QED
    BY <1>1, <2>5 DEF Refused
<1>2. IInv /\ [Next]_vars => ReplayStep
  BY <1>1 DEF ReplayStep
<1> QED
  BY <1>2, Invariance, PTL DEF Spec, RepeatsAreReplayed, ReplayStep
===============================================================================
