--------------------------- MODULE RevisionProofs ---------------------------
(***************************************************************************)
(* What holds of a pipeline's revision history for any number of requests, *)
(* replicas, parts and items, and however the requests and their           *)
(* transactions overlap or fail.                                           *)
(***************************************************************************)
EXTENDS Revisions, FiniteSetTheorems, FunctionTheorems, TLAPS

-----------------------------------------------------------------------------
(* The inductive invariant. *)

Revision == [snap : Configs, deployed : BOOLEAN, by : Ops]
Storing == {"probe", "max", "force", "insert"}
Locked == {"max", "insert"}

\* A rollback or deploy writes all parts of a revision.
Restores(t) ==
    t.kind # "edit" => t.n \in DOMAIN revs /\ t.parts = Parts /\ t.want = revs[t.n].snap

RestoresAll == \A c \in Conns : tx[c] # None => Restores(tx[c])

\* Types; requests that have not committed have done nothing.
Typed ==
    /\ TypeOK
    /\ live \in Configs /\ live \in wasLive
    /\ \A p \in Parts : IsFiniteSet(rows[p])
    /\ RestoresAll
    /\ conflicts \subseteq Ops \X Ops
    /\ \A o \in Ops : pc[o] = "idle" <=> o > last
    /\ \A o \in Ops : o <= last => home[o] \in Replicas
    /\ \A n \in DOMAIN revs : revs[n].by <= last
    /\ \A c \in conflicts : c[1] <= last /\ c[2] <= last

\* A request's locals: the parts read so far, the whole snapshot to be stored,
\* the number of a revision that is there.
LocalsTyped(o) ==
    /\ pc[o] = "idle" => snap[o] = <<>>
    /\ pc[o] = "read" => Len(snap[o]) < NumParts
    /\ pc[o] \in Storing => snap[o] \in Configs
    /\ pc[o] = "insert" => num[o] >= 1
    /\ pc[o] = "mark" => num[o] \in DOMAIN revs

\* The mutex is held from the probe or ForceMax to the INSERT, by a request
\* of its own process.
MutexHeld ==
    /\ \A r \in Replicas : mu[r] # None =>
         mu[r] <= last /\ home[mu[r]] = r /\ pc[mu[r]] \in Locked
    /\ \A o \in Ops : pc[o] \in Locked => mu[home[o]] = o

\* What the last request has read or is about to store is what is live, unless
\* live has drifted away from it.
LastCarriesLive ==
    last # 0 /\ ~drift =>
        /\ pc[last] = "read" => \A i \in 1 .. Len(snap[last]) : snap[last][i] = live[i]
        /\ pc[last] \in Storing => snap[last] = live
        /\ pc[last] = "mark" => revs[num[last]].snap = live
        /\ pc[last] = "done" => \E n \in DOMAIN revs : revs[n].deployed /\ revs[n].snap = live

\* If nobody stored out of order, the last request's revision is the newest.
LastIsNewest ==
    last # 0 /\ ~drift /\ ~inverted /\ ~promoted =>
        /\ pc[last] = "mark" => num[last] = Len(revs)
        /\ pc[last] = "done" => /\ Len(revs) > 0
                                /\ revs[Len(revs)].deployed
                                /\ revs[Len(revs)].snap = live

\* An undisturbed request has read what is live; what it stores was live.
ReadsWereLive ==
    \A o \in Ops \ torn :
        /\ pc[o] = "read" => \A i \in 1 .. Len(snap[o]) : snap[o][i] = live[i]
        /\ pc[o] \in Storing => snap[o] \in wasLive

\* While a request holds the mutex with a number in hand, only requests of
\* other replicas store a revision from that number on.
NumbersTaken ==
    \A o \in Ops : pc[o] = "insert" =>
        \A n \in DOMAIN revs : n >= num[o] => home[revs[n].by] # home[o]

-----------------------------------------------------------------------------
LEMMA Constants ==
  /\ Ops \subseteq Nat \ {0} /\ None \notin Ops
  /\ Parts = 1 .. NumParts /\ NumParts \in Nat \ {0} /\ 1 \in Parts
  /\ Blank \in Contents
  BY OpsAssumption, PartsAssumption DEF Ops, Parts, Blank, Contents

-----------------------------------------------------------------------------
(* Items and contents. *)

\* The items of one kind that a request writes.
OfKind(o, k, n) == {<<o, k, i>> : i \in 1 .. n}

\* They are as many as it should write.
LEMMA WrittenOfKind ==
  ASSUME NEW o, NEW k, NEW n \in Nat
  PROVE  IsFiniteSet(OfKind(o, k, n)) /\ Cardinality(OfKind(o, k, n)) = n
<1> DEFINE S == {<<o, k, i>> : i \in 1 .. n}
           f == [i \in 1 .. n |-> <<o, k, i>>]
<1>1. IsFiniteSet(1 .. n) /\ Cardinality(1 .. n) = n
  <2>1. 1 \in Int /\ n \in Int /\ (1 > n <=> n = 0) /\ n - 1 + 1 = n
    OBVIOUS
  <2> QED
    BY <2>1, FS_Interval
<1>2. f \in Bijection(1 .. n, S)
  <2>1. f \in [1 .. n -> S]
    OBVIOUS
  <2>2. \A i, j \in 1 .. n : f[i] = f[j] => i = j
    OBVIOUS
  <2>3. \A x \in S : \E i \in 1 .. n : f[i] = x
    OBVIOUS
  <2> QED
    BY <2>1, <2>2, <2>3, Fun_IsBij
<1>3. ExistsBijection(1 .. n, S)
  BY <1>2 DEF ExistsBijection
<1> HIDE DEF S, f
<1>4. IsFiniteSet(S) /\ Cardinality(S) = n
  BY <1>1, <1>3, FS_Bijection
<1> QED
  BY <1>4 DEF S, OfKind

\* A request's items have the content it wrote.
LEMMA ContentWritten ==
  ASSUME NEW o \in Nat, NEW content \in Contents
  PROVE  /\ Written(o, content) \subseteq Item /\ IsFiniteSet(Written(o, content))
         /\ Content(Written(o, content)) = content
<1> DEFINE W(k) == OfKind(o, k, content[k])
           Ws == {W(k) : k \in Kinds}
<1>1. \A k \in Kinds : content[k] \in Nat
  BY DEF Contents
<1>2. Written(o, content) = UNION Ws
  BY DEF Written, OfKind
<1>3. \A k \in Kinds : W(k) \subseteq Item
  BY <1>1 DEF Item, OfKind
<1>4. ASSUME NEW k \in Kinds PROVE IsFiniteSet(W(k)) /\ Cardinality(W(k)) = content[k]
  <2>1. content[k] \in Nat
    BY <1>1
  <2> QED
    BY <2>1, WrittenOfKind
<1>5. \A k \in Kinds : {x \in UNION Ws : x[2] = k} = W(k)
  BY DEF OfKind
<1>6. IsFiniteSet(Ws)
  <2> DEFINE f == [k \in Kinds |-> W(k)]
  <2>1. f \in [Kinds -> Ws] /\ \A T \in Ws : \E k \in Kinds : f[k] = T
    OBVIOUS
  <2>2. f \in Surjection(Kinds, Ws)
    BY <2>1 DEF Surjection
  <2> HIDE DEF f, Ws
  <2> QED
    BY <2>2, PartsAssumption, FS_Surjection
<1>7. IsFiniteSet(UNION Ws)
  BY <1>4, <1>6, FS_UNION
<1>8. Content(UNION Ws) = [k \in Kinds |-> content[k]]
  BY <1>4, <1>5 DEF Content
<1>9. content = [k \in Kinds |-> content[k]]
  BY DEF Contents
<1> QED
  BY <1>2, <1>3, <1>7, <1>8, <1>9

\* Finite sets of items have a content.
LEMMA ContentTyped ==
  ASSUME NEW S, IsFiniteSet(S)
  PROVE  Content(S) \in Contents
<1>1. \A k \in Kinds : Cardinality({x \in S : x[2] = k}) \in Nat
  <2> SUFFICES ASSUME NEW k \in Kinds PROVE Cardinality({x \in S : x[2] = k}) \in Nat
    OBVIOUS
  <2>1. {x \in S : x[2] = k} \subseteq S
    OBVIOUS
  <2> QED
    BY <2>1, FS_Subset, FS_CardinalityType
<1> QED
  BY <1>1 DEF Content, Contents

-----------------------------------------------------------------------------
(* Types. *)

AllTyped == Typed /\ \A o \in Ops : LocalsTyped(o)

LEMMA TypedInit == Init => AllTyped
<1> SUFFICES ASSUME Init PROVE AllTyped
  OBVIOUS
<1>1. \A p \in Parts : rows[p] = {} /\ IsFiniteSet(rows[p])
  BY FS_EmptySet DEF Init
<1>2. live \in Configs
  BY <1>1, ContentTyped DEF live, Configs
<1>3. rows \in [Parts -> SUBSET Item] /\ tx \in [Conns -> Tx \cup {None}] /\ \A c \in Conns : tx[c] = None
  BY DEF Init
<1>4. TypeOK
  <2>1. /\ pc \in [Ops -> InFlight \cup {"idle", "done", "cut"}] /\ home \in [Ops -> Replicas \cup {None}]
        /\ num \in [Ops -> Nat] /\ mu \in [Replicas -> Ops \cup {None}]
    BY DEF Init
  <2>2. snap \in [Ops -> Seq(Contents)] /\ revs \in Seq([snap : Configs, deployed : BOOLEAN, by : Ops])
    BY DEF Init
  <2>3. last \in 0 .. NumOps /\ unlinked \in Nat
    BY OpsAssumption DEF Init
  <2>4. wasLive \subseteq Configs /\ drift \in BOOLEAN
    BY <1>2 DEF Init
  <2> QED
    BY <1>3, <2>1, <2>2, <2>3, <2>4 DEF TypeOK
<1> QED
  BY <1>1, <1>2, <1>3, <1>4, Constants DEF Init, AllTyped, Typed, RestoresAll, LocalsTyped, Storing

LEMMA SnapTypes ==
  ASSUME AllTyped
  PROVE  /\ \A n \in DOMAIN revs : revs[n].snap \in Configs /\ revs[n].by \in Ops /\ revs[n].deployed \in BOOLEAN
         /\ DOMAIN revs = 1 .. Len(revs) /\ Len(revs) \in Nat
<1>1. revs \in Seq(Revision)
  BY DEF AllTyped, Typed, TypeOK, Revision
<1>2. DOMAIN revs = 1 .. Len(revs) /\ Len(revs) \in Nat /\ \A n \in DOMAIN revs : revs[n] \in Revision
  BY <1>1
<1> QED
  BY <1>2 DEF Revision

\* A statement leaves what its transaction is to write.
LEMMA ReplacesFacts ==
  ASSUME AllTyped, NEW t \in Tx, NEW p \in Parts
  PROVE  /\ Replaces(t, p) \in Tx
         /\ Replaces(t, p).kind = t.kind /\ Replaces(t, p).n = t.n
         /\ Replaces(t, p).parts = t.parts /\ Replaces(t, p).want = t.want
<1>1. rows[p] \in SUBSET Item /\ Open \subseteq Conns
  BY DEF AllTyped, Typed, TypeOK, Open
<1> DEFINE W == {d \in Open : p # 1 /\ p \in tx[d].done /\ tx[d].seen[p] \cap rows[p] # {}}
<1>2. W \in SUBSET Conns
  BY <1>1
<1>3. Replaces(t, p) = [t EXCEPT !.done = t.done \cup {p}, !.seen = [t.seen EXCEPT ![p] = rows[p]], !.waits = W]
  BY DEF Replaces, Tx
<1> HIDE DEF W
<1>4. [t.seen EXCEPT ![p] = rows[p]] \in [Parts -> SUBSET Item] /\ t.done \cup {p} \in SUBSET Parts
  BY <1>1 DEF Tx
<1> QED
  BY <1>2, <1>3, <1>4 DEF Tx

\* A statement changes one transaction and nothing else.
Stated(c) ==
    /\ \E t \in Tx : tx' = [tx EXCEPT ![c] = t] /\ Restores(t)
    /\ UNCHANGED <<rows, home, last, unlinked, wasLive, torn, drift>>
    /\ UNCHANGED <<revs, pc, snap, num, mu, faults, inverted, promoted, conflicts>>

LEMMA BeginFacts ==
  ASSUME AllTyped, NEW c \in Conns, NEW t \in Tx, NEW p \in Parts, Restores(t), Begin(c, t, p)
  PROVE  Stated(c)
<1>1. tx' = [tx EXCEPT ![c] = Replaces(t, p)]
  BY DEF Begin
<1>2. Replaces(t, p) \in Tx /\ Restores(Replaces(t, p))
  BY ReplacesFacts DEF Restores
<1> QED
  BY <1>1, <1>2 DEF Begin, Stated

LEMMA RequestFacts ==
  ASSUME AllTyped, NEW c \in Conns, Request(c)
  PROVE  Stated(c)
<1>1. ASSUME NEW p \in Parts, NEW content \in [Kinds -> 0 .. MaxItems], Edit(c, p, content)
      PROVE  Stated(c)
  <2> DEFINE t == [kind |-> "edit", n |-> 0, parts |-> {p},
                   want |-> [q \in Parts |-> IF q = p THEN content ELSE Blank],
                   done |-> {}, seen |-> [q \in Parts |-> {}], waits |-> {}]
  <2>1. content \in Contents
    BY PartsAssumption DEF Contents
  <2>2. [q \in Parts |-> IF q = p THEN content ELSE Blank] \in Configs
    BY <2>1, Constants DEF Configs
  <2>3. t \in Tx /\ t.kind = "edit"
    BY <2>2 DEF Tx
  <2>4. Begin(c, t, p)
    BY <1>1 DEF Edit
  <2> HIDE DEF t
  <2> QED
    BY <2>3, <2>4, BeginFacts DEF Restores
<1>2. ASSUME NEW n \in DOMAIN revs, NEW kind \in {"rollback", "deploy"}, Restore(c, n, kind)
      PROVE  Stated(c)
  <2> DEFINE t == [kind |-> kind, n |-> n, parts |-> Parts, want |-> revs[n].snap,
                   done |-> {}, seen |-> [q \in Parts |-> {}], waits |-> {}]
  <2>1. n \in Nat /\ revs[n].snap \in Configs
    BY SnapTypes
  <2>2. t \in Tx /\ t.n = n /\ t.parts = Parts /\ t.want = revs[n].snap
    BY <2>1 DEF Tx
  <2>3. Begin(c, t, 1)
    BY <1>2 DEF Restore
  <2> HIDE DEF t
  <2> QED
    BY <2>2, <2>3, BeginFacts, Constants DEF Restores
<1> QED
  BY <1>1, <1>2 DEF Request

LEMMA StatementFacts ==
  ASSUME AllTyped, NEW c \in Conns, NEW p \in Parts, Statement(c, p)
  PROVE  Stated(c)
<1>1. tx[c] \in Tx /\ Restores(tx[c])
  BY DEF Statement, AllTyped, Typed, TypeOK, RestoresAll
<1>2. tx' = [tx EXCEPT ![c] = Replaces(tx[c], p)]
  BY DEF Statement
<1>3. Replaces(tx[c], p) \in Tx /\ Restores(Replaces(tx[c], p))
  BY <1>1, ReplacesFacts DEF Restores
<1> QED
  BY <1>2, <1>3 DEF Statement, Stated

LEMMA StatedTyped ==
  ASSUME AllTyped, NEW c \in Conns, Stated(c)
  PROVE  AllTyped'
<1>1. live' = live
  BY DEF Stated, live
<1>2. PICK t \in Tx : tx' = [tx EXCEPT ![c] = t] /\ Restores(t)
  BY DEF Stated
<1>3. tx \in [Conns -> Tx \cup {None}] /\ \A d \in Conns : tx[d] # None => Restores(tx[d])
  BY DEF AllTyped, Typed, TypeOK, RestoresAll
<1>4. revs' = revs
  BY DEF Stated
<1>5. tx' \in [Conns -> Tx \cup {None}] /\ RestoresAll'
  <2>1. tx' \in [Conns -> Tx \cup {None}]
    BY <1>2, <1>3
  <2>2. ASSUME NEW d \in Conns, tx'[d] # None PROVE Restores(tx'[d])
    BY <1>2, <1>3, <2>2
  <2>3. RestoresAll'
    BY <1>4, <2>2 DEF RestoresAll, Restores
  <2> QED
    BY <2>1, <2>3
<1>6. TypeOK'
  BY <1>5 DEF Stated, AllTyped, Typed, TypeOK
<1> QED
  BY <1>1, <1>5, <1>6 DEF Stated, AllTyped, Typed, LocalsTyped

\* What a commit does: the request is the next one, idle so far.
Committed(o, c) ==
    /\ pc[o] = "idle" /\ snap[o] = <<>> /\ last' = o /\ o = last + 1 /\ last' \in 0 .. NumOps
    /\ live' \in Configs /\ live' \in wasLive' /\ wasLive \subseteq wasLive' /\ wasLive' \subseteq Configs
    /\ rows' \in [Parts -> SUBSET Item] /\ \A p \in Parts : IsFiniteSet(rows'[p])
    /\ tx' \in [Conns -> Tx \cup {None}] /\ \A d \in Conns : tx'[d] # None => Restores(tx'[d])
    /\ home' \in [Ops -> Replicas \cup {None}] /\ home'[o] = c[1] /\ c[1] \in Replicas
    /\ \A q \in Ops : q # o => home'[q] = home[q]
    /\ torn \subseteq torn' /\ \A q \in Ops : pc[q] = "read" /\ snap[q] # <<>> => q \in torn'
    /\ drift' \in BOOLEAN

\* The transactions that stay open when one closes.
LEMMA CloseFacts ==
  ASSUME AllTyped, NEW c \in Conns, Close(c)
  PROVE  tx' \in [Conns -> Tx \cup {None}] /\ \A d \in Conns : tx'[d] # None => Restores(tx'[d])
<1>1. ASSUME NEW d \in Conns, tx'[d] # None PROVE tx'[d] \in Tx /\ Restores(tx'[d])
  <2>1. tx'[d] = [tx[d] EXCEPT !.waits = @ \ {c}] /\ tx[d] # None
    BY <1>1 DEF Close
  <2>2. tx[d] \in Tx /\ Restores(tx[d])
    BY <2>1 DEF AllTyped, Typed, TypeOK, RestoresAll
  <2>3. tx'[d] \in Tx /\ tx'[d].kind = tx[d].kind /\ tx'[d].n = tx[d].n
        /\ tx'[d].parts = tx[d].parts /\ tx'[d].want = tx[d].want
    BY <2>1, <2>2 DEF Tx
  <2> QED
    BY <2>2, <2>3 DEF Restores
<1>2. tx' = [d \in Conns |-> tx'[d]]
  BY DEF Close
<1> QED
  BY <1>1, <1>2

LEMMA CommitFacts ==
  ASSUME AllTyped, NEW o \in Ops, NEW c \in Conns, Commit(o, c)
  PROVE  /\ Committed(o, c) /\ tx[c] \in Tx /\ Restores(tx[c])
         /\ tx[c].kind # "edit" /\ ~drift' => live' = tx[c].want
         /\ tx[c].kind = "rollback" /\ revs[tx[c].n].by \in torn => o \in torn'
<1> DEFINE t == tx[c]
<1>0. t \in Tx /\ Restores(t) /\ t.want \in Configs
  BY DEF Commit, AllTyped, Typed, TypeOK, RestoresAll, Tx
<1>1. o = last + 1 /\ last' = o /\ last \in Nat /\ o \in 0 .. NumOps /\ o \in Nat
  BY OpsAssumption DEF AllTyped, Typed, TypeOK, Commit, Ops
<1>2. pc[o] = "idle" /\ snap[o] = <<>>
  BY <1>1 DEF AllTyped, Typed, LocalsTyped
<1>3. rows' = [p \in Parts |-> IF p \in t.parts
                               THEN (rows[p] \ t.seen[p]) \cup Written(o, t.want[p])
                               ELSE rows[p]]
  BY DEF Commit
<1>4. ASSUME NEW p \in Parts
      PROVE  /\ rows'[p] \in SUBSET Item /\ IsFiniteSet(rows'[p]) /\ Content(rows'[p]) \in Contents
             /\ Content(Written(o, t.want[p])) = t.want[p]
  <2>1. t.want[p] \in Contents
    BY <1>0 DEF Configs
  <2>2. /\ Written(o, t.want[p]) \subseteq Item /\ IsFiniteSet(Written(o, t.want[p]))
        /\ Content(Written(o, t.want[p])) = t.want[p]
    BY <1>1, <2>1, ContentWritten
  <2>3. rows[p] \subseteq Item /\ IsFiniteSet(rows[p])
    BY DEF AllTyped, Typed, TypeOK
  <2>4. IsFiniteSet(rows[p] \ t.seen[p])
    BY <2>3, FS_Difference
  <2>5. IsFiniteSet((rows[p] \ t.seen[p]) \cup Written(o, t.want[p]))
    BY <2>2, <2>4, FS_Union
  <2>6. IsFiniteSet(rows'[p])
    BY <1>3, <2>3, <2>5
  <2>7. rows'[p] \subseteq Item
    BY <1>3, <2>2, <2>3
  <2> QED
    BY <2>2, <2>6, <2>7, ContentTyped
<1>5. live' = [p \in Parts |-> Content(rows'[p])]
  BY DEF live
<1>6. live' \in Configs
  BY <1>4, <1>5 DEF Configs
<1>7. rows' \in [Parts -> SUBSET Item]
  BY <1>3, <1>4
<1>8. live' \in wasLive' /\ wasLive \subseteq wasLive' /\ wasLive' \subseteq Configs
  BY <1>6 DEF AllTyped, Typed, TypeOK, Commit, Changed
<1>9. c[1] \in Replicas
  BY DEF Conns
<1>10. /\ home' \in [Ops -> Replicas \cup {None}] /\ home'[o] = c[1]
       /\ \A q \in Ops : q # o => home'[q] = home[q]
  BY <1>9 DEF AllTyped, Typed, TypeOK, Commit
<1>11. /\ torn \subseteq torn' /\ \A q \in Ops : pc[q] = "read" /\ snap[q] # <<>> => q \in torn'
       /\ t.kind = "rollback" /\ revs[t.n].by \in torn => o \in torn'
  BY DEF Commit, Changed
<1>12. ASSUME t.kind # "edit", ~drift' PROVE live' = t.want
  <2>1. \A p \in Parts : rows[p] \ t.seen[p] = {}
    BY <1>12 DEF Commit
  <2>2. t.parts = Parts
    BY <1>0, <1>12 DEF Restores
  <2>3. \A p \in Parts : rows'[p] = Written(o, t.want[p])
    BY <1>3, <2>1, <2>2
  <2>4. \A p \in Parts : Content(rows'[p]) = t.want[p]
    BY <1>4, <2>3
  <2>5. t.want = [p \in Parts |-> t.want[p]]
    BY <1>0 DEF Configs
  <2> QED
    BY <1>5, <2>4, <2>5
<1>13. drift' \in BOOLEAN
  BY DEF Commit
<1>14. tx' \in [Conns -> Tx \cup {None}] /\ \A d \in Conns : tx'[d] # None => Restores(tx'[d])
  BY CloseFacts DEF Commit
<1> QED
  BY <1>0, <1>1, <1>2, <1>4, <1>6, <1>7, <1>8, <1>9, <1>10, <1>11, <1>12, <1>13, <1>14 DEF Committed

\* The conjuncts of Typed beside TypeOK, when request o commits.
LEMMA CommitTyped ==
  ASSUME AllTyped, NEW o \in Ops, NEW c \in Conns, Committed(o, c),
         NEW label, label # "idle", pc' = [pc EXCEPT ![o] = label],
         TypeOK', UNCHANGED <<revs, conflicts>>
  PROVE  Typed'
<1>1. o \in Nat /\ last \in Nat /\ last' = last + 1 /\ o = last + 1
  BY Constants, OpsAssumption DEF AllTyped, Typed, TypeOK, Committed
<1>2. \A q \in Ops : q \in Nat /\ (q > last' <=> q > last /\ q # o)
  BY <1>1, Constants
<1>3. pc \in [Ops -> InFlight \cup {"idle", "done", "cut"}]
  BY DEF AllTyped, Typed, TypeOK
<1>4. \A q \in Ops : pc'[q] = "idle" <=> q > last'
  BY <1>2, <1>3 DEF AllTyped, Typed
<1>5. \A q \in Ops : q <= last' => home'[q] \in Replicas
  BY <1>1, <1>2 DEF AllTyped, Typed, Committed
<1>6. \A n \in DOMAIN revs : revs[n].by <= last'
  <2> SUFFICES ASSUME NEW n \in DOMAIN revs PROVE revs[n].by <= last'
    OBVIOUS
  <2>1. revs[n].by \in Ops /\ revs[n].by <= last
    BY SnapTypes DEF AllTyped, Typed
  <2>2. revs[n].by \in Nat
    BY <2>1, Constants
  <2> QED
    BY <1>1, <2>1, <2>2
<1>7. \A d \in conflicts : d[1] <= last' /\ d[2] <= last'
  <2> SUFFICES ASSUME NEW d \in conflicts PROVE d[1] <= last' /\ d[2] <= last'
    OBVIOUS
  <2>1. d[1] \in Ops /\ d[2] \in Ops /\ d[1] <= last /\ d[2] <= last
    BY DEF AllTyped, Typed
  <2>2. d[1] \in Nat /\ d[2] \in Nat
    BY <2>1, Constants
  <2> QED
    BY <1>1, <2>1, <2>2
<1>8. RestoresAll'
  BY DEF Committed, RestoresAll, Restores
<1> QED
  BY <1>4, <1>5, <1>6, <1>7, <1>8 DEF AllTyped, Typed, Committed

LEMMA EffectTyped ==
  ASSUME AllTyped, NEW o \in Ops, NEW c \in Conns, Effect(o, c)
  PROVE  AllTyped'
<1>0. /\ pc \in [Ops -> InFlight \cup {"idle", "done", "cut"}] /\ snap \in [Ops -> Seq(Contents)]
      /\ num \in [Ops -> Nat]
  BY DEF AllTyped, Typed, TypeOK
<1>1. CASE Saved(o, c)
  <2>1. Committed(o, c)
    BY <1>1, CommitFacts DEF Saved
  <2>2. TypeOK'
    BY <1>1, <2>1 DEF Saved, Committed, AllTyped, Typed, TypeOK, InFlight
  <2>3. Typed'
    BY <1>1, <2>1, <2>2, CommitTyped DEF Saved
  <2>4. \A q \in Ops : LocalsTyped(q)'
    BY <1>0, <1>1, <2>1, PartsAssumption DEF Saved, Committed, AllTyped, LocalsTyped, Storing
  <2> QED
    BY <2>3, <2>4 DEF AllTyped
<1>2. CASE RolledBack(o, c)
  <2>1. Committed(o, c)
    BY <1>2, CommitFacts DEF RolledBack
  <2>2. tx[c].want \in Configs /\ tx[c].want \in Seq(Contents)
    <3>1. tx[c].want \in Configs
      BY <1>2, CommitFacts DEF RolledBack, Tx
    <3> QED
      BY <3>1, Constants DEF Configs
  <2>3. TypeOK'
    BY <1>2, <2>1, <2>2 DEF RolledBack, Committed, AllTyped, Typed, TypeOK, InFlight
  <2>4. Typed'
    BY <1>2, <2>1, <2>3, CommitTyped DEF RolledBack
  <2>5. \A q \in Ops : LocalsTyped(q)'
    BY <1>0, <1>2, <2>1, <2>2 DEF RolledBack, Committed, AllTyped, LocalsTyped, Storing
  <2> QED
    BY <2>4, <2>5 DEF AllTyped
<1>3. CASE Deployed(o, c)
  <2>1. Committed(o, c)
    BY <1>3, CommitFacts DEF Deployed
  <2>2. tx[c].n \in DOMAIN revs /\ tx[c].n \in Nat
    BY <1>3, CommitFacts DEF Deployed, Restores, Tx
  <2>3. TypeOK'
    BY <1>3, <2>1, <2>2 DEF Deployed, Committed, AllTyped, Typed, TypeOK, InFlight
  <2>4. Typed'
    BY <1>3, <2>1, <2>3, CommitTyped DEF Deployed
  <2>5. \A q \in Ops : LocalsTyped(q)'
    BY <1>0, <1>3, <2>1, <2>2 DEF Deployed, Committed, AllTyped, LocalsTyped, Storing
  <2> QED
    BY <2>4, <2>5 DEF AllTyped
<1> QED
  BY <1>1, <1>2, <1>3 DEF Effect

\* A reference is taken away.
LEMMA UnlinkFacts ==
  ASSUME AllTyped, NEW x \in rows[1], Unlink(x)
  PROVE  /\ rows' \in [Parts -> SUBSET Item] /\ \A p \in Parts : IsFiniteSet(rows'[p])
         /\ live' \in Configs /\ live' \in wasLive' /\ wasLive \subseteq wasLive' /\ wasLive' \subseteq Configs
         /\ torn \subseteq torn' /\ \A q \in Ops : pc[q] = "read" /\ snap[q] # <<>> => q \in torn'
<1>1. rows \in [Parts -> SUBSET Item] /\ rows' = [rows EXCEPT ![1] = @ \ {x}]
  BY DEF Unlink, AllTyped, Typed, TypeOK
<1>2. \A p \in Parts : rows'[p] \subseteq rows[p] /\ rows'[p] \in SUBSET Item
  BY <1>1
<1>3. \A p \in Parts : IsFiniteSet(rows'[p])
  BY <1>2, FS_Subset DEF AllTyped, Typed
<1>4. live' = [p \in Parts |-> Content(rows'[p])]
  BY DEF live
<1>5. live' \in Configs
  BY <1>3, <1>4, ContentTyped DEF Configs
<1>6. live' \in wasLive' /\ wasLive \subseteq wasLive' /\ wasLive' \subseteq Configs
  BY <1>5 DEF AllTyped, Typed, TypeOK, Unlink, Changed
<1>7. torn \subseteq torn' /\ \A q \in Ops : pc[q] = "read" /\ snap[q] # <<>> => q \in torn'
  BY DEF Unlink, Changed
<1> QED
  BY <1>1, <1>2, <1>3, <1>5, <1>6, <1>7

LEMMA UnlinkTyped ==
  ASSUME AllTyped, NEW x \in rows[1], Unlink(x)
  PROVE  AllTyped'
<1>0. unlinked' \in Nat /\ drift' \in BOOLEAN
  BY DEF Unlink, AllTyped, Typed, TypeOK
<1>1. TypeOK'
  BY <1>0, UnlinkFacts DEF Unlink, AllTyped, Typed, TypeOK
<1>2. revs' = revs /\ tx' = tx
  BY DEF Unlink
<1>3. RestoresAll'
  BY <1>2 DEF AllTyped, Typed, RestoresAll, Restores
<1>4. Typed'
  BY <1>1, <1>3, UnlinkFacts DEF Unlink, AllTyped, Typed
<1> QED
  BY <1>4 DEF Unlink, AllTyped, LocalsTyped

LEMMA SameConfig ==
  ASSUME NEW f \in Configs, NEW g \in Configs, \A i \in 1 .. NumParts : f[i] = g[i]
  PROVE  f = g
<1>1. f = [i \in Parts |-> f[i]] /\ g = [i \in Parts |-> g[i]]
  BY DEF Configs
<1>2. \A i \in Parts : f[i] = g[i]
  BY DEF Parts
<1> QED
  BY <1>1, <1>2, Zenon

\* One more part is read.
LEMMA ReadFacts ==
  ASSUME AllTyped, NEW o \in Ops, ReadPart(o)
  PROVE  LET k == Len(snap[o]) + 1
         IN  /\ k \in 1 .. NumParts /\ live[k] \in Contents
             /\ snap' = [snap EXCEPT ![o] = Append(snap[o], live[k])]
             /\ snap'[o] \in Seq(Contents) /\ Len(snap'[o]) = k
             /\ \A i \in 1 .. k - 1 : snap'[o][i] = snap[o][i]
             /\ snap'[o][k] = live[k]
             /\ k = NumParts => snap'[o] \in Configs
<1> DEFINE k == Len(snap[o]) + 1
<1>1. snap[o] \in Seq(Contents) /\ snap \in [Ops -> Seq(Contents)] /\ live \in [1 .. NumParts -> Contents]
  BY Constants DEF AllTyped, Typed, TypeOK, Configs
<1>2. k \in 1 .. NumParts /\ live[k] \in Contents
  BY <1>1, Constants DEF ReadPart, AllTyped, LocalsTyped
<1>3. snap' = [snap EXCEPT ![o] = Append(snap[o], live[k])] /\ snap'[o] = Append(snap[o], live[k])
  BY <1>1 DEF ReadPart
<1>4. /\ snap'[o] \in Seq(Contents) /\ Len(snap'[o]) = k
      /\ \A i \in 1 .. k - 1 : snap'[o][i] = snap[o][i]
      /\ snap'[o][k] = live[k]
  BY <1>1, <1>2, <1>3
<1>5. k = NumParts => snap'[o] \in Configs
  BY <1>4, Constants DEF Configs
<1> QED
  BY <1>2, <1>3, <1>4, <1>5

\* The stamp leaves everything else in the history as it was.
LEMMA MarkFacts ==
  ASSUME AllTyped, NEW o \in Ops, MarkDeployed(o)
  PROVE  /\ num[o] \in DOMAIN revs
         /\ revs' \in Seq(Revision) /\ Len(revs') = Len(revs) /\ DOMAIN revs' = DOMAIN revs
         /\ \A n \in DOMAIN revs : revs'[n].snap = revs[n].snap /\ revs'[n].by = revs[n].by
         /\ \A n \in DOMAIN revs : revs[n].deployed => revs'[n].deployed
         /\ revs'[num[o]].deployed
<1>1. num[o] \in DOMAIN revs
  BY DEF MarkDeployed, AllTyped, LocalsTyped
<1>2. revs \in Seq(Revision)
  BY DEF AllTyped, Typed, TypeOK, Revision
<1>3. revs' = [revs EXCEPT ![num[o]] = [revs[num[o]] EXCEPT !.deployed = TRUE]]
  BY DEF MarkDeployed
<1>4. revs[num[o]] \in Revision
  BY <1>1, <1>2
<1> DEFINE new == [revs[num[o]] EXCEPT !.deployed = TRUE]
<1>5. new \in Revision /\ new.snap = revs[num[o]].snap /\ new.by = revs[num[o]].by /\ new.deployed
  BY <1>4 DEF Revision
<1> HIDE DEF new
<1>6. revs' = [revs EXCEPT ![num[o]] = new]
  BY <1>3 DEF new
<1>7. revs' \in Seq(Revision) /\ Len(revs') = Len(revs) /\ DOMAIN revs' = DOMAIN revs
  BY <1>1, <1>2, <1>5, <1>6
<1>8. \A n \in DOMAIN revs : revs'[n] = IF n = num[o] THEN new ELSE revs[n]
  BY <1>1, <1>2, <1>6
<1> QED
  BY <1>1, <1>5, <1>7, <1>8

\* An INSERT appends.
LEMMA InsertFacts ==
  ASSUME AllTyped, NEW o \in Ops, Insert(o)
  PROVE  /\ revs' \in Seq(Revision) /\ Len(revs') = Len(revs) + 1
         /\ DOMAIN revs' = 1 .. Len(revs) + 1 /\ DOMAIN revs = 1 .. Len(revs) /\ Len(revs) \in Nat
         /\ \A n \in 1 .. Len(revs) : revs'[n] = revs[n]
         /\ revs'[Len(revs) + 1].snap = snap[o] /\ revs'[Len(revs) + 1].by = o
<1> DEFINE new == [snap |-> snap[o], deployed |-> FALSE, by |-> o]
<1>1. new \in Revision /\ revs \in Seq(Revision)
  BY DEF Insert, AllTyped, Typed, TypeOK, LocalsTyped, Storing, Revision
<1>2. revs' = Append(revs, new) /\ new.snap = snap[o] /\ new.by = o
  BY DEF Insert
<1> HIDE DEF new
<1> QED
  BY <1>1, <1>2

LEMMA AdvanceTyped ==
  ASSUME AllTyped, NEW o \in Ops, Advance(o) \/ CutShort(o)
  PROVE  AllTyped'
<1>0. /\ pc \in [Ops -> InFlight \cup {"idle", "done", "cut"}] /\ snap \in [Ops -> Seq(Contents)]
      /\ num \in [Ops -> Nat] /\ home \in [Ops -> Replicas \cup {None}]
      /\ mu \in [Replicas -> Ops \cup {None}] /\ revs \in Seq(Revision)
  BY DEF AllTyped, Typed, TypeOK, Revision
<1>1. DOMAIN revs = 1 .. Len(revs) /\ Len(revs) \in Nat
  BY SnapTypes
<1>2. ASSUME NEW label \in InFlight \cup {"done", "cut"}, pc' = [pc EXCEPT ![o] = label], pc[o] # "idle"
      PROVE  /\ pc' \in [Ops -> InFlight \cup {"idle", "done", "cut"}]
             /\ \A q \in Ops : pc'[q] = "idle" <=> pc[q] = "idle"
  BY <1>0, <1>2 DEF InFlight
<1>c. UNCHANGED configVars /\ live' = live
  BY DEF Advance, CutShort, ReadPart, ProbeHit, ProbeMiss, SelectMax, ForceMax, Insert,
         InsertConflict, MarkDeployed, configVars, live
<1>d. DOMAIN revs \subseteq DOMAIN revs' /\ \A n \in DOMAIN revs : revs'[n].snap = revs[n].snap
  <2>1. CASE revs' = revs
    BY <2>1
  <2>2. CASE Insert(o)
    BY <1>1, <2>2, InsertFacts
  <2>3. CASE MarkDeployed(o)
    BY <2>3, MarkFacts
  <2> QED
    BY <2>1, <2>2, <2>3
    DEF Advance, CutShort, ReadPart, ProbeHit, ProbeMiss, SelectMax, ForceMax, InsertConflict
<1>e. RestoresAll' /\ \A p \in Parts : IsFiniteSet(rows'[p])
  BY <1>c, <1>d DEF configVars, AllTyped, Typed, RestoresAll, Restores
<1>3. CASE ReadPart(o)
  <2>0. snap' \in [Ops -> Seq(Contents)] /\ pc' \in [Ops -> InFlight \cup {"idle", "done", "cut"}]
        /\ \A q \in Ops : pc'[q] = "idle" <=> pc[q] = "idle"
    <3>1. snap' \in [Ops -> Seq(Contents)]
      BY <1>0, <1>3, ReadFacts
    <3> QED
      BY <1>2, <1>3, <3>1 DEF ReadPart, InFlight
  <2>a. TypeOK'
    BY <1>c, <1>3, <2>0 DEF configVars, ReadPart, AllTyped, Typed, TypeOK
  <2>1. Typed'
    BY <1>c, <1>e, <1>3, <2>0, <2>a DEF configVars, ReadPart, AllTyped, Typed
  <2>2. pc[o] = "read" /\ UNCHANGED <<revs, num>>
        /\ pc' = [pc EXCEPT ![o] = IF Len(snap[o]) + 1 = NumParts THEN "probe" ELSE "read"]
    BY <1>3 DEF ReadPart
  <2>3. LocalsTyped(o)'
    <3>1. CASE Len(snap[o]) + 1 = NumParts
      <4>1. pc'[o] = "probe" /\ snap'[o] \in Configs
        BY <1>0, <1>3, <2>2, <3>1, ReadFacts
      <4> QED
        BY <4>1 DEF LocalsTyped
    <3>2. CASE Len(snap[o]) + 1 # NumParts
      <4>1. pc'[o] = "read"
        BY <1>0, <2>2, <3>2
      <4>2. Len(snap'[o]) < NumParts
        <5>1. Len(snap[o]) + 1 \in 1 .. NumParts /\ Len(snap'[o]) = Len(snap[o]) + 1
          BY <1>3, ReadFacts
        <5> QED
          BY <3>2, <5>1, Constants
      <4> QED
        BY <4>1, <4>2 DEF LocalsTyped, Storing
    <3> QED
      BY <3>1, <3>2
  <2>4. ASSUME NEW q \in Ops, q # o PROVE LocalsTyped(q)'
    <3>1. pc'[q] = pc[q] /\ snap'[q] = snap[q]
      BY <1>0, <1>3, <2>2, <2>4, ReadFacts
    <3> QED
      BY <2>2, <3>1 DEF AllTyped, LocalsTyped
  <2> QED
    BY <2>1, <2>3, <2>4 DEF AllTyped
<1>4. CASE ProbeHit(o)
  <2>1. Len(revs) \in DOMAIN revs
    BY <1>1, <1>4 DEF ProbeHit, Duplicates
  <2>2. Typed'
    BY <1>c, <1>e, <1>0, <1>1, <1>2, <1>4 DEF configVars, ProbeHit, AllTyped, Typed, TypeOK, InFlight
  <2>3. \A q \in Ops : LocalsTyped(q)'
    BY <1>0, <1>4, <2>1 DEF ProbeHit, AllTyped, LocalsTyped, Storing
  <2> QED
    BY <2>2, <2>3 DEF AllTyped
<1>5. CASE ProbeMiss(o)
  <2>1. mu' \in [Replicas -> Ops \cup {None}]
    BY <1>0, <1>5 DEF ProbeMiss, Acquire
  <2>2. Typed'
    BY <1>c, <1>e, <1>0, <1>2, <1>5, <2>1 DEF configVars, ProbeMiss, AllTyped, Typed, TypeOK, InFlight
  <2>3. \A q \in Ops : LocalsTyped(q)'
    BY <1>0, <1>5 DEF ProbeMiss, AllTyped, LocalsTyped, Storing
  <2> QED
    BY <2>2, <2>3 DEF AllTyped
<1>6. CASE SelectMax(o)
  <2>1. Typed'
    BY <1>c, <1>e, <1>0, <1>1, <1>2, <1>6 DEF configVars, SelectMax, AllTyped, Typed, TypeOK, InFlight
  <2>2. \A q \in Ops : LocalsTyped(q)'
    BY <1>0, <1>1, <1>6 DEF SelectMax, AllTyped, LocalsTyped, Storing
  <2> QED
    BY <2>1, <2>2 DEF AllTyped
<1>7. CASE ForceMax(o)
  <2>1. mu' \in [Replicas -> Ops \cup {None}]
    BY <1>0, <1>7 DEF ForceMax, Acquire
  <2>2. Typed'
    BY <1>c, <1>e, <1>0, <1>1, <1>2, <1>7, <2>1 DEF configVars, ForceMax, AllTyped, Typed, TypeOK, InFlight
  <2>3. \A q \in Ops : LocalsTyped(q)'
    BY <1>0, <1>1, <1>7 DEF ForceMax, AllTyped, LocalsTyped, Storing
  <2> QED
    BY <2>2, <2>3 DEF AllTyped
<1>8. CASE Insert(o)
  <2>2. /\ revs' \in Seq(Revision) /\ Len(revs') = Len(revs) + 1
        /\ DOMAIN revs' = 1 .. Len(revs) + 1
        /\ \A n \in 1 .. Len(revs) : revs'[n] = revs[n]
        /\ revs'[Len(revs) + 1].by = o
    BY <1>8, InsertFacts
  <2>3. mu' \in [Replicas -> Ops \cup {None}]
    BY <1>0, <1>8 DEF Insert, Release
  <2>4. TypeOK'
    BY <1>c, <1>e, <1>0, <1>2, <1>8, <2>2, <2>3 DEF configVars, Insert, AllTyped, Typed, TypeOK, InFlight, Revision
  <2>5. o <= last
    <3>1. ~(o > last) /\ o \in Nat /\ last \in Nat
      BY <1>8, Constants, OpsAssumption DEF Insert, AllTyped, Typed, TypeOK
    <3> QED
      BY <3>1
  <2>6. \A n \in DOMAIN revs' : revs'[n].by <= last
    BY <1>1, <2>2, <2>5 DEF AllTyped, Typed
  <2>7. Typed'
    BY <1>c, <1>e, <1>0, <1>2, <1>8, <2>4, <2>6 DEF configVars, Insert, AllTyped, Typed, InFlight
  <2>8. \A q \in Ops : LocalsTyped(q)'
    BY <1>0, <1>1, <1>8, <2>2 DEF Insert, AllTyped, LocalsTyped, Storing
  <2> QED
    BY <2>7, <2>8 DEF AllTyped
<1>9. CASE InsertConflict(o)
  <2>1. mu' \in [Replicas -> Ops \cup {None}] /\ <<>> \in Seq(Contents)
    BY <1>0, <1>9 DEF InsertConflict, Release
  <2>2. num[o] \in DOMAIN revs
    BY <1>0, <1>1, <1>9 DEF InsertConflict, AllTyped, LocalsTyped
  <2>3. TypeOK'
    BY <1>c, <1>e, <1>0, <1>2, <1>9, <2>1 DEF configVars, InsertConflict, End, AllTyped, Typed, TypeOK
  <2>4. revs[num[o]].by \in Ops /\ revs[num[o]].by <= last /\ o <= last
    <3>1. revs[num[o]].by \in Ops /\ revs[num[o]].by <= last
      BY <2>2, SnapTypes DEF AllTyped, Typed
    <3>2. ~(o > last) /\ o \in Nat /\ last \in Nat
      BY <1>9, Constants, OpsAssumption DEF InsertConflict, AllTyped, Typed, TypeOK
    <3> QED
      BY <3>1, <3>2
  <2>5. /\ conflicts' \subseteq Ops \X Ops
        /\ \A c \in conflicts' : c[1] <= last' /\ c[2] <= last'
    <3>1. conflicts' = conflicts \cup {<<o, revs[num[o]].by>>} /\ last' = last
      BY <1>9 DEF InsertConflict, configVars
    <3>2. conflicts \subseteq Ops \X Ops /\ \A c \in conflicts : c[1] <= last /\ c[2] <= last
      BY DEF AllTyped, Typed
    <3> QED
      BY <2>4, <3>1, <3>2
  <2>6. Typed'
    BY <1>c, <1>e, <1>0, <1>2, <1>9, <2>3, <2>5 DEF configVars, InsertConflict, End, AllTyped, Typed
  <2>7. \A q \in Ops : LocalsTyped(q)'
    BY <1>0, <1>9 DEF InsertConflict, End, AllTyped, LocalsTyped, Storing
  <2> QED
    BY <2>6, <2>7 DEF AllTyped
<1>10. CASE MarkDeployed(o)
  <2>1. num[o] \in DOMAIN revs /\ <<>> \in Seq(Contents)
    BY <1>10 DEF MarkDeployed, AllTyped, LocalsTyped
  <2>2. /\ revs' \in Seq(Revision) /\ Len(revs') = Len(revs) /\ DOMAIN revs' = DOMAIN revs
        /\ \A n \in DOMAIN revs : revs'[n].snap = revs[n].snap /\ revs'[n].by = revs[n].by
    BY <1>10, MarkFacts
  <2>3. TypeOK'
    BY <1>c, <1>e, <1>0, <1>2, <1>10, <2>1, <2>2 DEF configVars, MarkDeployed, End, AllTyped, Typed, TypeOK, Revision
  <2>4. Typed'
    BY <1>c, <1>e, <1>0, <1>2, <1>10, <2>2, <2>3 DEF configVars, MarkDeployed, End, AllTyped, Typed
  <2>5. \A q \in Ops : LocalsTyped(q)'
    BY <1>0, <1>10, <2>2 DEF MarkDeployed, End, AllTyped, LocalsTyped, Storing
  <2> QED
    BY <2>4, <2>5 DEF AllTyped
<1>11. CASE CutShort(o)
  <2>1. mu' \in [Replicas -> Ops \cup {None}] /\ <<>> \in Seq(Contents)
    BY <1>0, <1>11 DEF CutShort, Release
  <2>2. pc[o] # "idle"
    BY <1>11 DEF CutShort, InFlight
  <2>3. Typed'
    BY <1>c, <1>e, <1>0, <1>2, <1>11, <2>1, <2>2 DEF configVars, CutShort, End, AllTyped, Typed, TypeOK
  <2>4. \A q \in Ops : LocalsTyped(q)'
    BY <1>0, <1>11 DEF CutShort, End, AllTyped, LocalsTyped, Storing
  <2> QED
    BY <2>3, <2>4 DEF AllTyped
<1> QED
  BY <1>3, <1>4, <1>5, <1>6, <1>7, <1>8, <1>9, <1>10, <1>11 DEF Advance

LEMMA TypedStep == AllTyped /\ [Next]_vars => AllTyped'
<1> SUFFICES ASSUME AllTyped, [Next]_vars PROVE AllTyped'
  OBVIOUS
<1>1. CASE UNCHANGED vars
  <2>1. live' = live
    BY <1>1 DEF vars, configVars, live
  <2> QED
    BY <1>1, <2>1 DEF vars, configVars, AllTyped, Typed, TypeOK, LocalsTyped, RestoresAll, Restores
<1>2. ASSUME NEW o \in Ops, Advance(o) \/ CutShort(o) PROVE AllTyped'
  BY <1>2, AdvanceTyped
<1>3. ASSUME NEW c \in Conns, Request(c) PROVE AllTyped'
  BY <1>3, RequestFacts, StatedTyped
<1>4. ASSUME NEW c \in Conns, NEW p \in Parts, Statement(c, p) PROVE AllTyped'
  BY <1>4, StatementFacts, StatedTyped
<1>5. ASSUME NEW c \in Conns, NEW o \in Ops, Effect(o, c) PROVE AllTyped'
  BY <1>5, EffectTyped
<1>6. ASSUME NEW x \in rows[1], Unlink(x) PROVE AllTyped'
  BY <1>6, UnlinkTyped
<1> QED
  BY <1>1, <1>2, <1>3, <1>4, <1>5, <1>6 DEF Next, Proceed

\* The steps of the specification: transactions, commits, deletions, requests.
LEMMA Steps ==
  ASSUME AllTyped, [Next]_vars
  PROVE  \/ UNCHANGED vars
         \/ \E o \in Ops : Advance(o) \/ CutShort(o)
         \/ \E c \in Conns : Stated(c)
         \/ \E o \in Ops, c \in Conns : Effect(o, c)
         \/ \E x \in rows[1] : Unlink(x)
  BY RequestFacts, StatementFacts DEF Next, Proceed

\* The type invariant of the revision history.
THEOREM RevisionsTyped == Spec => []TypeOK
<1>1. AllTyped => TypeOK
  BY DEF AllTyped, Typed
<1> QED
  BY <1>1, TypedInit, TypedStep, PTL DEF Spec

-----------------------------------------------------------------------------
(* Steps of a request after its commit. *)

\* The request has committed, nothing but its own locals and the history
\* changes, and the history only grows.
LEMMA AdvanceFacts ==
  ASSUME AllTyped, NEW o \in Ops, Advance(o) \/ CutShort(o)
  PROVE  /\ pc[o] \in InFlight /\ pc[o] # "idle" /\ last # 0 /\ o <= last
         /\ UNCHANGED <<rows, live, tx, last, home, wasLive, torn, drift, promoted>>
         /\ \A q \in Ops : q # o => pc'[q] = pc[q] /\ snap'[q] = snap[q] /\ num'[q] = num[q]
         /\ Len(revs') >= Len(revs) /\ DOMAIN revs' = 1 .. Len(revs') /\ Len(revs') \in Nat
         /\ \A n \in DOMAIN revs : /\ n \in DOMAIN revs'
                                   /\ revs'[n].snap = revs[n].snap /\ revs'[n].by = revs[n].by
                                   /\ revs[n].deployed => revs'[n].deployed
<1>0. /\ pc \in [Ops -> InFlight \cup {"idle", "done", "cut"}] /\ snap \in [Ops -> Seq(Contents)]
      /\ num \in [Ops -> Nat] /\ revs \in Seq(Revision)
  BY DEF AllTyped, Typed, TypeOK, Revision
<1>1. DOMAIN revs = 1 .. Len(revs) /\ Len(revs) \in Nat
  BY SnapTypes
<1>2. pc[o] \in InFlight
  BY DEF Advance, CutShort, ReadPart, ProbeHit, ProbeMiss, SelectMax, ForceMax, Insert,
         InsertConflict, MarkDeployed, InFlight
<1>3. pc[o] # "idle" /\ ~(o > last)
  BY <1>2 DEF InFlight, AllTyped, Typed
<1>4. o <= last /\ last # 0
  <2>1. o \in Nat \ {0} /\ last \in Nat
    BY Constants, OpsAssumption DEF AllTyped, Typed, TypeOK
  <2> QED
    BY <1>3, <2>1
<1>5. UNCHANGED <<rows, live, tx, last, home, wasLive, torn, drift, promoted>>
  BY DEF Advance, CutShort, ReadPart, ProbeHit, ProbeMiss, SelectMax, ForceMax, Insert,
         InsertConflict, MarkDeployed, configVars, live
<1>6. \A q \in Ops : q # o => pc'[q] = pc[q] /\ snap'[q] = snap[q] /\ num'[q] = num[q]
  BY <1>0 DEF Advance, CutShort, ReadPart, ProbeHit, ProbeMiss, SelectMax, ForceMax, Insert,
         InsertConflict, MarkDeployed, End
<1>7. CASE revs' = revs
  BY <1>1, <1>2, <1>3, <1>4, <1>5, <1>6, <1>7
<1>8. CASE Insert(o)
  BY <1>0, <1>1, <1>2, <1>3, <1>4, <1>5, <1>6, InsertFacts, <1>8
<1>9. CASE MarkDeployed(o)
  BY <1>1, <1>2, <1>3, <1>4, <1>5, <1>6, <1>9, MarkFacts
<1>10. revs' = revs \/ Insert(o) \/ MarkDeployed(o)
  BY DEF Advance, CutShort, ReadPart, ProbeHit, ProbeMiss, SelectMax, ForceMax, InsertConflict
<1> QED
  BY <1>7, <1>8, <1>9, <1>10

-----------------------------------------------------------------------------
(* What the last request carries. *)

LEMMA CarriesAdvance ==
  ASSUME AllTyped, LastCarriesLive, NEW o \in Ops, Advance(o) \/ CutShort(o)
  PROVE  LastCarriesLive'
<1> SUFFICES ASSUME ~drift' PROVE LastCarriesLive'
  BY DEF LastCarriesLive
<1>0. /\ pc \in [Ops -> InFlight \cup {"idle", "done", "cut"}] /\ snap \in [Ops -> Seq(Contents)]
      /\ num \in [Ops -> Nat] /\ last # 0 /\ last \in Ops /\ live \in Configs
      /\ last' = last /\ live' = live /\ ~drift
  <2>1. last # 0 /\ last' = last /\ live' = live /\ ~drift
    BY AdvanceFacts
  <2> QED
    BY <2>1, OpsAssumption DEF AllTyped, Typed, TypeOK, Ops
<1>1. CASE o # last
  <2>1. pc'[last] = pc[last] /\ snap'[last] = snap[last] /\ num'[last] = num[last]
    BY <1>0, <1>1, AdvanceFacts
  <2>2. pc[last] = "mark" => revs'[num[last]].snap = live
    BY <1>0, AdvanceFacts DEF LastCarriesLive, AllTyped, LocalsTyped
  <2>3. pc[last] = "done" => \E n \in DOMAIN revs' : revs'[n].deployed /\ revs'[n].snap = live
    BY <1>0, AdvanceFacts DEF LastCarriesLive
  <2> QED
    BY <1>0, <2>1, <2>2, <2>3 DEF LastCarriesLive
<1>2. CASE o = last /\ ReadPart(o)
  <2> DEFINE k == Len(snap[o]) + 1
  <2>1. /\ k \in 1 .. NumParts /\ Len(snap'[o]) = k /\ Len(snap[o]) \in Nat
        /\ \A i \in 1 .. k - 1 : snap'[o][i] = snap[o][i]
        /\ snap'[o][k] = live[k] /\ (k = NumParts => snap'[o] \in Configs)
    BY <1>0, <1>2, ReadFacts
  <2>2. \A i \in 1 .. k - 1 : snap[o][i] = live[i]
    BY <1>2, <1>0, <2>1 DEF LastCarriesLive, ReadPart
  <2>3. \A i \in 1 .. k : snap'[o][i] = live[i]
    BY <2>1, <2>2
  <2>4. k = NumParts => snap'[o] = live
    BY <1>0, <2>1, <2>3, SameConfig
  <2>5. pc'[o] = IF k = NumParts THEN "probe" ELSE "read"
    BY <1>0, <1>2 DEF ReadPart
  <2>6. CASE k = NumParts
    BY <1>0, <1>2, <2>4, <2>5, <2>6 DEF LastCarriesLive
  <2>7. CASE k # NumParts
    <3>1. pc'[o] = "read"
      BY <2>5, <2>7
    <3> QED
      BY <1>0, <1>2, <2>1, <2>3, <3>1 DEF LastCarriesLive, Storing
  <2> QED
    BY <2>6, <2>7
<1>3. CASE o = last /\ ProbeHit(o)
  <2>1. revs[Len(revs)].snap = snap[o] /\ snap[o] = live
    BY <1>0, <1>3 DEF ProbeHit, Duplicates, LastCarriesLive, Storing
  <2>2. pc'[o] = "mark" /\ num'[o] = Len(revs) /\ revs' = revs
    BY <1>0, <1>3 DEF ProbeHit
  <2> QED
    BY <1>0, <1>3, <2>1, <2>2 DEF LastCarriesLive, Storing
<1>4. CASE o = last /\ (ProbeMiss(o) \/ SelectMax(o) \/ ForceMax(o))
  <2>1. pc[o] \in Storing /\ pc'[o] \in {"max", "insert"} /\ snap' = snap
    BY <1>0, <1>4 DEF ProbeMiss, SelectMax, ForceMax, Storing
  <2> QED
    BY <1>0, <1>4, <2>1 DEF LastCarriesLive, Storing
<1>5. CASE o = last /\ Insert(o)
  <2>1. pc'[o] = "mark" /\ num'[o] = Len(revs) + 1 /\ pc[o] \in Storing
    BY <1>0, <1>5 DEF Insert, Storing
  <2>2. revs'[Len(revs) + 1].snap = snap[o]
    BY <1>5, InsertFacts
  <2> QED
    BY <1>0, <1>5, <2>1, <2>2 DEF LastCarriesLive, Storing
<1>6. CASE o = last /\ (InsertConflict(o) \/ CutShort(o))
  <2>1. pc'[o] = "cut"
    BY <1>0, <1>6 DEF InsertConflict, CutShort, End
  <2> QED
    BY <1>0, <1>6, <2>1 DEF LastCarriesLive, Storing
<1>7. CASE o = last /\ MarkDeployed(o)
  <2>1. pc'[o] = "done" /\ pc[o] = "mark"
    BY <1>0, <1>7 DEF MarkDeployed, End
  <2>2. num[o] \in DOMAIN revs' /\ revs'[num[o]].deployed /\ revs'[num[o]].snap = live
    BY <1>0, <1>7, <2>1, MarkFacts DEF LastCarriesLive
  <2> QED
    BY <1>0, <1>7, <2>1, <2>2 DEF LastCarriesLive, Storing
<1> QED
  BY <1>1, <1>2, <1>3, <1>4, <1>5, <1>6, <1>7 DEF Advance

\* What the three commits leave the request with.
LEMMA EffectFacts ==
  ASSUME AllTyped, NEW o \in Ops, NEW c \in Conns, Effect(o, c)
  PROVE  /\ Committed(o, c) /\ o \in Nat \ {0}
         /\ UNCHANGED <<revs, mu, inverted, conflicts>>
         /\ \A q \in Ops : q # o => pc'[q] = pc[q] /\ snap'[q] = snap[q] /\ num'[q] = num[q]
         /\ \/ pc'[o] = "read" /\ snap'[o] = <<>> /\ promoted' = promoted
            \/ /\ pc'[o] = "force" /\ promoted' = promoted
               /\ ~drift' => snap'[o] = live'
               /\ \E n \in DOMAIN revs : snap'[o] = revs[n].snap /\ (revs[n].by \in torn => o \in torn')
            \/ /\ pc'[o] = "mark" /\ num'[o] \in DOMAIN revs
               /\ ~drift' => revs[num'[o]].snap = live'
               /\ promoted' = (promoted \/ num'[o] # Len(revs))
<1>0. /\ pc \in [Ops -> InFlight \cup {"idle", "done", "cut"}] /\ snap \in [Ops -> Seq(Contents)]
      /\ num \in [Ops -> Nat] /\ o \in Nat \ {0}
  BY Constants DEF AllTyped, Typed, TypeOK
<1>1. CASE Saved(o, c)
  <2>1. Committed(o, c) /\ snap[o] = <<>>
    BY <1>1, CommitFacts DEF Saved, Committed
  <2> QED
    BY <1>0, <1>1, <2>1 DEF Saved
<1>2. CASE RolledBack(o, c)
  <2>1. /\ Committed(o, c) /\ (~drift' => live' = tx[c].want)
        /\ tx[c].n \in DOMAIN revs /\ tx[c].want = revs[tx[c].n].snap
        /\ revs[tx[c].n].by \in torn => o \in torn'
    BY <1>2, CommitFacts DEF RolledBack, Restores
  <2>2. /\ snap' = [snap EXCEPT ![o] = tx[c].want] /\ pc' = [pc EXCEPT ![o] = "force"]
        /\ UNCHANGED <<revs, mu, inverted, conflicts, promoted, num>>
    BY <1>2 DEF RolledBack
  <2>3. snap'[o] = tx[c].want /\ pc'[o] = "force"
    BY <1>0, <2>2
  <2> QED
    BY <1>0, <2>1, <2>2, <2>3
<1>3. CASE Deployed(o, c)
  <2>1. /\ Committed(o, c) /\ (~drift' => live' = tx[c].want)
        /\ tx[c].n \in DOMAIN revs /\ tx[c].want = revs[tx[c].n].snap
    BY <1>3, CommitFacts DEF Deployed, Restores
  <2>2. /\ num' = [num EXCEPT ![o] = tx[c].n] /\ pc' = [pc EXCEPT ![o] = "mark"]
        /\ UNCHANGED <<revs, mu, inverted, conflicts, snap>>
        /\ promoted' = (promoted \/ tx[c].n # Len(revs))
    BY <1>3 DEF Deployed
  <2>3. num'[o] = tx[c].n /\ pc'[o] = "mark"
    BY <1>0, <2>2
  <2> QED
    BY <1>0, <2>1, <2>2, <2>3
<1> QED
  BY <1>1, <1>2, <1>3 DEF Effect

\* A statement inside a transaction is not seen by requests.
LEMMA StatedHidden ==
  ASSUME NEW c \in Conns, Stated(c)
  PROVE  UNCHANGED <<live, last, home, wasLive, torn, drift, revs, pc, snap, num, mu,
                     inverted, promoted, conflicts>>
  BY DEF Stated, live

\* Neither is a stuttering step.
LEMMA StutterHidden ==
  ASSUME UNCHANGED vars
  PROVE  UNCHANGED <<live, last, home, wasLive, torn, drift, revs, pc, snap, num, mu,
                     inverted, promoted, conflicts>>
  BY DEF vars, configVars, live

LEMMA CarriesStep ==
  ASSUME AllTyped, LastCarriesLive, [Next]_vars
  PROVE  LastCarriesLive'
<1>1. CASE UNCHANGED vars
  BY <1>1, StutterHidden DEF LastCarriesLive
<1>2. ASSUME NEW o \in Ops, NEW c \in Conns, Effect(o, c) PROVE LastCarriesLive'
  <2> SUFFICES ASSUME ~drift' PROVE LastCarriesLive'
    BY DEF LastCarriesLive
  <2>1. last' = o /\ UNCHANGED revs
    BY <1>2, EffectFacts DEF Committed
  <2>2. CASE pc'[o] = "read" /\ snap'[o] = <<>>
    <3>1. 1 .. Len(snap'[o]) = {}
      BY <2>2
    <3> QED
      BY <2>1, <2>2, <3>1 DEF LastCarriesLive, Storing
  <2>3. CASE pc'[o] = "force" /\ snap'[o] = live'
    BY <2>1, <2>3 DEF LastCarriesLive, Storing
  <2>4. CASE pc'[o] = "mark" /\ revs[num'[o]].snap = live'
    BY <2>1, <2>4 DEF LastCarriesLive, Storing
  <2> QED
    BY <1>2, <2>2, <2>3, <2>4, EffectFacts
<1>3. ASSUME NEW c \in Conns, Stated(c) PROVE LastCarriesLive'
  BY <1>3, StatedHidden DEF LastCarriesLive
<1>4. ASSUME NEW x \in rows[1], Unlink(x) PROVE LastCarriesLive'
  BY <1>4 DEF Unlink, LastCarriesLive
<1> QED
  BY <1>1, <1>2, <1>3, <1>4, CarriesAdvance, Steps

\* What the last request put live is in the history when it is done, unless it
\* was mixed with the rows of an overlapping PUT or a reference was taken away.
THEOREM LiveStaysRecorded == Spec => []LiveIsRecorded
<1>1. Init => LastCarriesLive
  BY DEF Init, LastCarriesLive
<1>2. LastCarriesLive => LiveIsRecorded
  BY DEF LastCarriesLive, LiveIsRecorded
<1>3. AllTyped /\ LastCarriesLive /\ [Next]_vars => LastCarriesLive'
  BY CarriesStep
<1> QED
  BY <1>1, <1>2, <1>3, TypedInit, TypedStep, PTL DEF Spec

-----------------------------------------------------------------------------
(* The last request's revision is the newest. *)

LEMMA OrderOnlyAdds ==
  ASSUME NEW o \in Ops, Order(o), ~inverted'
  PROVE  ~inverted /\ \A q \in Ops : q > o => pc[q] \notin {"mark", "done"}
  BY DEF Order

LEMMA NewestAdvance ==
  ASSUME AllTyped, LastCarriesLive, LastIsNewest, NEW o \in Ops, Advance(o) \/ CutShort(o)
  PROVE  LastIsNewest'
<1> SUFFICES ASSUME ~drift', ~inverted', ~promoted'
             PROVE  /\ pc'[last] = "mark" => num'[last] = Len(revs')
                    /\ pc'[last] = "done" => /\ Len(revs') > 0
                                             /\ revs'[Len(revs')].deployed
                                             /\ revs'[Len(revs')].snap = live
  BY AdvanceFacts DEF LastIsNewest
<1>0. /\ pc \in [Ops -> InFlight \cup {"idle", "done", "cut"}] /\ snap \in [Ops -> Seq(Contents)]
      /\ num \in [Ops -> Nat] /\ last # 0 /\ last \in Ops /\ last \in Nat /\ o \in Nat /\ o <= last
  <2>1. last # 0 /\ o <= last /\ o \in Nat
    BY AdvanceFacts, Constants
  <2> QED
    BY <2>1, OpsAssumption DEF AllTyped, Typed, TypeOK, Ops
<1>1. ~drift /\ ~inverted /\ ~promoted
  <2>1. (inverted' = inverted) \/ Order(o)
    BY DEF Advance, CutShort, ReadPart, ProbeHit, ProbeMiss, SelectMax, ForceMax, Insert,
           InsertConflict, MarkDeployed
  <2>2. CASE Order(o)
    BY <2>2, OrderOnlyAdds, AdvanceFacts
  <2>3. CASE inverted' = inverted
    BY <2>3, AdvanceFacts
  <2> QED
    BY <2>1, <2>2, <2>3
<1>2. /\ pc[last] = "mark" => num[last] = Len(revs)
      /\ pc[last] = "done" => /\ Len(revs) > 0 /\ revs[Len(revs)].deployed
                              /\ revs[Len(revs)].snap = live
  BY <1>0, <1>1 DEF LastIsNewest
<1>3. CASE o # last
  <2>1. pc'[last] = pc[last] /\ num'[last] = num[last]
    BY <1>0, <1>3, AdvanceFacts
  <2>2. CASE Insert(o)
    <3>1. last > o
      BY <1>0, <1>3
    <3>2. pc[last] \notin {"mark", "done"}
      BY <1>0, <2>2, <3>1, OrderOnlyAdds DEF Insert
    <3> QED
      BY <2>1, <3>2
  <2>3. CASE MarkDeployed(o)
    <3>1. Len(revs') = Len(revs) /\ DOMAIN revs = 1 .. Len(revs) /\ Len(revs) \in Nat
      BY <2>3, MarkFacts, SnapTypes
    <3>2. pc[last] = "done" => Len(revs) \in DOMAIN revs
      BY <1>2, <3>1
    <3> QED
      BY <1>2, <2>1, <2>3, <3>1, <3>2, MarkFacts
  <2>4. CASE revs' = revs
    BY <1>2, <2>1, <2>4
  <2> QED
    BY <2>2, <2>3, <2>4
    DEF Advance, CutShort, ReadPart, ProbeHit, ProbeMiss, SelectMax, ForceMax, InsertConflict
<1>4. CASE o = last /\ ProbeHit(o)
  BY <1>0, <1>4 DEF ProbeHit
<1>5. CASE o = last /\ (ReadPart(o) \/ ProbeMiss(o) \/ SelectMax(o) \/ ForceMax(o))
  BY <1>0, <1>5 DEF ReadPart, ProbeMiss, SelectMax, ForceMax
<1>6. CASE o = last /\ Insert(o)
  <2>1. pc'[o] = "mark" /\ num'[o] = Len(revs) + 1
    BY <1>0, <1>6 DEF Insert
  <2> QED
    BY <1>6, <2>1, InsertFacts
<1>7. CASE o = last /\ (InsertConflict(o) \/ CutShort(o))
  BY <1>0, <1>7 DEF InsertConflict, CutShort, End
<1>8. CASE o = last /\ MarkDeployed(o)
  <2>1. pc[o] = "mark" /\ pc'[o] = "done"
    BY <1>0, <1>8 DEF MarkDeployed, End
  <2>2. num[o] = Len(revs) /\ num[o] \in 1 .. Len(revs) /\ Len(revs') = Len(revs)
    BY <1>2, <1>8, <2>1, MarkFacts, SnapTypes
  <2>3. revs[num[o]].snap = live
    BY <1>0, <1>1, <1>8, <2>1 DEF LastCarriesLive
  <2>4. Len(revs') > 0 /\ revs'[Len(revs')].deployed /\ revs'[Len(revs')].snap = live
    BY <1>8, <2>2, <2>3, MarkFacts
  <2> QED
    BY <1>8, <2>1, <2>4
<1> QED
  BY <1>3, <1>4, <1>5, <1>6, <1>7, <1>8 DEF Advance

LEMMA NewestStep ==
  ASSUME AllTyped, LastCarriesLive, LastIsNewest, [Next]_vars
  PROVE  LastIsNewest'
<1>1. CASE UNCHANGED vars
  BY <1>1, StutterHidden DEF LastIsNewest
<1>2. ASSUME NEW o \in Ops, NEW c \in Conns, Effect(o, c) PROVE LastIsNewest'
  <2>1. last' = o /\ UNCHANGED revs
    BY <1>2, EffectFacts DEF Committed
  <2>2. CASE pc'[o] \in {"read", "force"}
    BY <2>1, <2>2 DEF LastIsNewest
  <2>3. CASE pc'[o] = "mark" /\ promoted' = (promoted \/ num'[o] # Len(revs))
    <3>1. ~promoted' => num'[o] = Len(revs)
      BY <2>3
    <3> QED
      BY <2>1, <2>3, <3>1 DEF LastIsNewest
  <2> QED
    BY <1>2, <2>2, <2>3, EffectFacts
<1>3. ASSUME NEW c \in Conns, Stated(c) PROVE LastIsNewest'
  BY <1>3, StatedHidden DEF LastIsNewest
<1>4. ASSUME NEW x \in rows[1], Unlink(x) PROVE LastIsNewest'
  BY <1>4 DEF Unlink, LastIsNewest
<1> QED
  BY <1>1, <1>2, <1>3, <1>4, NewestAdvance, Steps

\* LatestDeployed answers with what is live, as long as nobody stored out of
\* order, nobody deployed an older revision and live has not drifted.
THEOREM LatestStaysLive == Spec => []LatestDeployedIsLive
<1>1. Init => LastCarriesLive /\ LastIsNewest
  BY DEF Init, LastCarriesLive, LastIsNewest
<1>2. AllTyped /\ LastIsNewest => LatestDeployedIsLive
  <2> SUFFICES ASSUME AllTyped, LastIsNewest, last # 0, pc[last] = "done", ~drift, ~inverted, ~promoted
               PROVE  \E n \in DOMAIN revs :
                         /\ revs[n].deployed /\ revs[n].snap = live
                         /\ \A m \in n + 1 .. Len(revs) : ~revs[m].deployed
    BY DEF LatestDeployedIsLive
  <2>1. Len(revs) \in DOMAIN revs /\ revs[Len(revs)].deployed /\ revs[Len(revs)].snap = live
    BY SnapTypes DEF LastIsNewest
  <2>2. Len(revs) + 1 .. Len(revs) = {}
    BY SnapTypes
  <2> QED
    BY <2>1, <2>2
<1>3. AllTyped /\ LastCarriesLive /\ [Next]_vars => LastCarriesLive'
  BY CarriesStep
<1>4. AllTyped /\ LastCarriesLive /\ LastIsNewest /\ [Next]_vars => LastIsNewest'
  BY NewestStep
<1> QED
  BY <1>1, <1>2, <1>3, <1>4, TypedInit, TypedStep, PTL DEF Spec

-----------------------------------------------------------------------------
(* What is stored was live. *)

LEMMA ReadsAdvance ==
  ASSUME AllTyped, ReadsWereLive, RevisionsWereLive, NEW o \in Ops, Advance(o) \/ CutShort(o)
  PROVE  ReadsWereLive' /\ RevisionsWereLive'
<1>0. /\ pc \in [Ops -> InFlight \cup {"idle", "done", "cut"}] /\ snap \in [Ops -> Seq(Contents)]
      /\ live \in Configs /\ live \in wasLive
      /\ UNCHANGED <<live, wasLive, torn>>
  BY AdvanceFacts DEF AllTyped, Typed, TypeOK
<1>1. ASSUME NEW q \in Ops \ torn, q # o
      PROVE  /\ pc'[q] = "read" => \A i \in 1 .. Len(snap'[q]) : snap'[q][i] = live[i]
             /\ pc'[q] \in Storing => snap'[q] \in wasLive
  BY <1>1, AdvanceFacts DEF ReadsWereLive
<1>2. ASSUME o \notin torn
      PROVE  /\ pc'[o] = "read" => \A i \in 1 .. Len(snap'[o]) : snap'[o][i] = live[i]
             /\ pc'[o] \in Storing => snap'[o] \in wasLive
  <2>1. CASE ReadPart(o)
    <3> DEFINE k == Len(snap[o]) + 1
    <3>1. /\ k \in 1 .. NumParts /\ Len(snap'[o]) = k /\ Len(snap[o]) \in Nat
          /\ \A i \in 1 .. k - 1 : snap'[o][i] = snap[o][i]
          /\ snap'[o][k] = live[k] /\ (k = NumParts => snap'[o] \in Configs)
      BY <1>0, <2>1, ReadFacts
    <3>2. \A i \in 1 .. k - 1 : snap[o][i] = live[i]
      BY <1>2, <2>1, <3>1 DEF ReadsWereLive, ReadPart
    <3>3. \A i \in 1 .. k : snap'[o][i] = live[i]
      BY <3>1, <3>2
    <3>4. k = NumParts => snap'[o] = live
      BY <1>0, <3>1, <3>3, SameConfig
    <3>5. pc'[o] = IF k = NumParts THEN "probe" ELSE "read"
      BY <1>0, <2>1 DEF ReadPart
    <3>6. CASE k = NumParts
      BY <1>0, <3>4, <3>5, <3>6
    <3>7. CASE k # NumParts
      <4>1. pc'[o] = "read"
        BY <3>5, <3>7
      <4> QED
        BY <3>1, <3>3, <4>1 DEF Storing
    <3> QED
      BY <3>6, <3>7
  <2>2. CASE ProbeMiss(o) \/ SelectMax(o) \/ ForceMax(o)
    <3>1. pc[o] \in Storing /\ pc'[o] \in {"max", "insert"} /\ snap' = snap
      BY <1>0, <2>2 DEF ProbeMiss, SelectMax, ForceMax, Storing
    <3> QED
      BY <1>2, <3>1 DEF ReadsWereLive
  <2>3. CASE ProbeHit(o) \/ Insert(o) \/ InsertConflict(o) \/ MarkDeployed(o) \/ CutShort(o)
    <3>1. pc'[o] \in {"mark", "done", "cut"}
      BY <1>0, <2>3 DEF ProbeHit, Insert, InsertConflict, MarkDeployed, CutShort, End
    <3> QED
      BY <3>1 DEF Storing
  <2> QED
    BY <2>1, <2>2, <2>3 DEF Advance
<1>3. ReadsWereLive'
  BY <1>0, <1>1, <1>2 DEF ReadsWereLive
<1>4. RevisionsWereLive'
  <2>1. CASE revs' = revs
    BY <1>0, <2>1 DEF RevisionsWereLive
  <2>2. CASE Insert(o)
    <3>1. snap[o] \in wasLive \/ o \in torn
      BY <2>2 DEF Insert, ReadsWereLive, Storing
    <3> QED
      BY <1>0, <2>2, <3>1, InsertFacts DEF RevisionsWereLive
  <2>3. CASE MarkDeployed(o)
    BY <1>0, <2>3, MarkFacts DEF RevisionsWereLive
  <2> QED
    BY <2>1, <2>2, <2>3
    DEF Advance, CutShort, ReadPart, ProbeHit, ProbeMiss, SelectMax, ForceMax, InsertConflict
<1> QED
  BY <1>3, <1>4

\* Live changes, who is amid its reads is torn, and request o, if any, starts.
LEMMA ReadsChanged ==
  ASSUME ReadsWereLive, RevisionsWereLive, NEW S, \A q \in Ops \ S : pc'[q] = pc[q] /\ snap'[q] = snap[q],
         live' \in wasLive', wasLive \subseteq wasLive', torn \subseteq torn', UNCHANGED revs,
         \A q \in Ops : pc[q] = "read" /\ snap[q] # <<>> => q \in torn',
         \A q \in S \ torn' : /\ pc'[q] = "read" => \A i \in 1 .. Len(snap'[q]) : snap'[q][i] = live'[i]
                              /\ pc'[q] \in Storing => snap'[q] \in wasLive'
  PROVE  ReadsWereLive' /\ RevisionsWereLive'
<1>1. 1 .. Len(<<>>) = {}
  OBVIOUS
<1>2. ASSUME NEW q \in Ops \ torn', q \notin S
      PROVE  /\ pc'[q] = "read" => \A i \in 1 .. Len(snap'[q]) : snap'[q][i] = live'[i]
             /\ pc'[q] \in Storing => snap'[q] \in wasLive'
  <2>1. pc'[q] = pc[q] /\ snap'[q] = snap[q] /\ q \in Ops \ torn
    BY <1>2
  <2>2. pc[q] = "read" => snap[q] = <<>>
    BY <1>2
  <2>3. pc[q] \in Storing => snap[q] \in wasLive'
    BY <2>1 DEF ReadsWereLive
  <2> QED
    BY <1>1, <2>1, <2>2, <2>3
<1>3. ReadsWereLive'
  BY <1>2 DEF ReadsWereLive
<1>4. RevisionsWereLive'
  BY DEF RevisionsWereLive
<1> QED
  BY <1>3, <1>4

LEMMA ReadsStep ==
  ASSUME AllTyped, ReadsWereLive, RevisionsWereLive, [Next]_vars
  PROVE  ReadsWereLive' /\ RevisionsWereLive'
<1>1. CASE UNCHANGED vars
  BY <1>1, StutterHidden DEF ReadsWereLive, RevisionsWereLive
<1>2. ASSUME NEW o \in Ops, NEW c \in Conns, Effect(o, c) PROVE ReadsWereLive' /\ RevisionsWereLive'
  <2>1. /\ live' \in wasLive' /\ wasLive \subseteq wasLive' /\ torn \subseteq torn' /\ UNCHANGED revs
        /\ \A q \in Ops : pc[q] = "read" /\ snap[q] # <<>> => q \in torn'
        /\ \A q \in Ops \ {o} : pc'[q] = pc[q] /\ snap'[q] = snap[q]
    BY <1>2, EffectFacts DEF Committed
  <2>2. ASSUME o \notin torn'
        PROVE  /\ pc'[o] = "read" => \A i \in 1 .. Len(snap'[o]) : snap'[o][i] = live'[i]
               /\ pc'[o] \in Storing => snap'[o] \in wasLive'
    <3>0. 1 .. Len(<<>>) = {}
      OBVIOUS
    <3>1. CASE pc'[o] = "read" /\ snap'[o] = <<>>
      BY <3>0, <3>1 DEF Storing
    <3>2. CASE /\ pc'[o] = "force"
               /\ \E n \in DOMAIN revs : snap'[o] = revs[n].snap /\ (revs[n].by \in torn => o \in torn')
      <4>1. snap'[o] \in wasLive'
        BY <2>1, <2>2, <3>2 DEF RevisionsWereLive
      <4> QED
        BY <3>2, <4>1
    <3>3. CASE pc'[o] = "mark"
      BY <3>3 DEF Storing
    <3> QED
      BY <1>2, <3>1, <3>2, <3>3, EffectFacts
  <2>3. \A q \in {o} \ torn' : /\ pc'[q] = "read" => \A i \in 1 .. Len(snap'[q]) : snap'[q][i] = live'[i]
                               /\ pc'[q] \in Storing => snap'[q] \in wasLive'
    BY <2>2
  <2> QED
    BY <2>1, <2>3, ReadsChanged
<1>3. ASSUME NEW c \in Conns, Stated(c) PROVE ReadsWereLive' /\ RevisionsWereLive'
  BY <1>3, StatedHidden DEF ReadsWereLive, RevisionsWereLive
<1>4. ASSUME NEW x \in rows[1], Unlink(x) PROVE ReadsWereLive' /\ RevisionsWereLive'
  <2>1. UNCHANGED <<pc, snap, revs>>
    BY <1>4 DEF Unlink
  <2>2. \A q \in Ops \ {} : pc'[q] = pc[q] /\ snap'[q] = snap[q]
    BY <2>1
  <2> QED
    BY <1>4, <2>1, <2>2, UnlinkFacts, ReadsChanged
<1> QED
  BY <1>1, <1>2, <1>3, <1>4, ReadsAdvance, Steps

\* A stored configuration was live at one moment, or its snapshot is torn.
THEOREM HistoryWasLive == Spec => []RevisionsWereLive
<1>1. Init => ReadsWereLive /\ RevisionsWereLive
  BY DEF Init, ReadsWereLive, RevisionsWereLive, Storing
<1>2. AllTyped /\ ReadsWereLive /\ RevisionsWereLive /\ [Next]_vars => ReadsWereLive' /\ RevisionsWereLive'
  BY ReadsStep
<1> QED
  BY <1>1, <1>2, TypedInit, TypedStep, PTL DEF Spec

-----------------------------------------------------------------------------
(* The mutex and the revision numbers. *)

Numbered == MutexHeld /\ NumbersTaken /\ ConflictsAreForeign

\* A replica's mutex has one holder.
LEMMA HomesDiffer ==
  ASSUME MutexHeld, NEW o \in Ops, NEW q \in Ops, o # q, pc[o] \in Locked, pc[q] \in Locked
  PROVE  home[o] # home[q]
  BY DEF MutexHeld

LEMMA MutexAdvance ==
  ASSUME AllTyped, MutexHeld, NEW o \in Ops, Advance(o) \/ CutShort(o)
  PROVE  MutexHeld'
<1>0. /\ pc \in [Ops -> InFlight \cup {"idle", "done", "cut"}] /\ home \in [Ops -> Replicas \cup {None}]
      /\ mu \in [Replicas -> Ops \cup {None}] /\ o <= last /\ home[o] \in Replicas /\ None \notin Ops
      /\ UNCHANGED <<home, last>> /\ \A q \in Ops : q # o => pc'[q] = pc[q]
  BY AdvanceFacts, Constants DEF AllTyped, Typed, TypeOK
<1>1. CASE ReadPart(o) \/ ProbeHit(o) \/ SelectMax(o) \/ MarkDeployed(o)
  <2>1. mu' = mu /\ (pc'[o] \in Locked <=> pc[o] \in Locked)
    BY <1>0, <1>1 DEF ReadPart, ProbeHit, SelectMax, MarkDeployed, End, Locked
  <2>2. \A q \in Ops : pc'[q] \in Locked <=> pc[q] \in Locked
    BY <1>0, <2>1
  <2> QED
    BY <1>0, <2>1, <2>2 DEF MutexHeld
<1>2. CASE ProbeMiss(o) \/ ForceMax(o)
  <2>1. /\ mu[home[o]] = None /\ mu' = [mu EXCEPT ![home[o]] = o]
        /\ pc[o] \notin Locked /\ pc'[o] \in Locked
    BY <1>0, <1>2 DEF ProbeMiss, ForceMax, Acquire, Locked
  <2>2. ASSUME NEW r \in Replicas, mu'[r] # None
        PROVE  mu'[r] <= last /\ home[mu'[r]] = r /\ pc'[mu'[r]] \in Locked
    <3>1. CASE r = home[o]
      BY <1>0, <2>1, <3>1
    <3>2. CASE r # home[o]
      <4>1. mu'[r] = mu[r] /\ mu[r] \in Ops
        BY <1>0, <2>1, <2>2, <3>2
      <4>2. mu[r] # o
        BY <2>1, <2>2, <4>1 DEF MutexHeld
      <4> QED
        BY <1>0, <2>2, <4>1, <4>2 DEF MutexHeld
    <3> QED
      BY <3>1, <3>2
  <2>3. ASSUME NEW q \in Ops, pc'[q] \in Locked PROVE mu'[home[q]] = q
    <3>1. CASE q = o
      BY <1>0, <2>1, <3>1
    <3>2. CASE q # o
      <4>1. mu[home[q]] = q
        BY <1>0, <2>3, <3>2 DEF MutexHeld
      <4>2. home[q] # home[o]
        BY <1>0, <2>1, <4>1
      <4> QED
        BY <1>0, <2>1, <4>1, <4>2
    <3> QED
      BY <3>1, <3>2
  <2> QED
    BY <1>0, <2>2, <2>3 DEF MutexHeld
<1>3. CASE Insert(o) \/ InsertConflict(o) \/ CutShort(o)
  <2>1. mu' = [r \in Replicas |-> IF mu[r] = o THEN None ELSE mu[r]]
    BY <1>3 DEF Insert, InsertConflict, CutShort, Release
  <2>2. pc'[o] \notin Locked
    BY <1>0, <1>3 DEF Insert, InsertConflict, CutShort, End, Locked
  <2>3. ASSUME NEW r \in Replicas, mu'[r] # None
        PROVE  mu'[r] <= last /\ home[mu'[r]] = r /\ pc'[mu'[r]] \in Locked
    <3>1. mu'[r] = mu[r] /\ mu[r] # o /\ mu[r] \in Ops
      BY <1>0, <2>1, <2>3
    <3> QED
      BY <1>0, <2>3, <3>1 DEF MutexHeld
  <2>4. ASSUME NEW q \in Ops, pc'[q] \in Locked PROVE mu'[home[q]] = q
    <3>1. q # o /\ pc[q] \in Locked /\ pc[q] # "idle"
      BY <1>0, <2>2, <2>4 DEF Locked
    <3>2. home[q] \in Replicas
      BY <3>1, Constants DEF AllTyped, Typed, TypeOK
    <3> QED
      BY <2>1, <3>1, <3>2 DEF MutexHeld
  <2> QED
    BY <1>0, <2>3, <2>4 DEF MutexHeld
<1> QED
  BY <1>1, <1>2, <1>3 DEF Advance

LEMMA NumbersAdvance ==
  ASSUME AllTyped, Numbered, NEW o \in Ops, Advance(o) \/ CutShort(o)
  PROVE  NumbersTaken' /\ ConflictsAreForeign'
<1>0. /\ pc \in [Ops -> InFlight \cup {"idle", "done", "cut"}] /\ num \in [Ops -> Nat]
      /\ home' = home /\ \A q \in Ops : q # o => pc'[q] = pc[q] /\ num'[q] = num[q]
  BY AdvanceFacts DEF AllTyped, Typed, TypeOK
<1>1. DOMAIN revs = 1 .. Len(revs) /\ Len(revs) \in Nat
  BY SnapTypes
<1>2. ASSUME NEW q \in Ops, pc'[q] = "insert", NEW n \in DOMAIN revs', n >= num'[q]
      PROVE  home[revs'[n].by] # home[q]
  <2>1. CASE q # o /\ n \in DOMAIN revs
    BY <1>0, <1>2, <2>1, AdvanceFacts DEF Numbered, NumbersTaken
  <2>2. CASE q # o /\ n \notin DOMAIN revs
    <3>1. Insert(o)
      BY <2>2, MarkFacts
      DEF Advance, CutShort, ReadPart, ProbeHit, ProbeMiss, SelectMax, ForceMax, InsertConflict
    <3>2. revs'[n].by = o
      BY <1>1, <2>2, <3>1, InsertFacts
    <3> QED
      BY <1>0, <1>2, <2>2, <3>1, <3>2, HomesDiffer DEF Insert, Locked, Numbered
  <2>3. CASE q = o
    <3>1. SelectMax(o) \/ ForceMax(o)
      BY <1>0, <1>2, <2>3
      DEF Advance, CutShort, End, ReadPart, ProbeHit, ProbeMiss, Insert, InsertConflict, MarkDeployed
    <3>2. revs' = revs /\ num'[o] = Len(revs) + 1
      BY <1>0, <3>1 DEF SelectMax, ForceMax
    <3> QED
      BY <1>1, <1>2, <2>3, <3>2
  <2> QED
    BY <2>1, <2>2, <2>3
<1>3. NumbersTaken'
  BY <1>0, <1>2 DEF NumbersTaken
<1>4. CASE InsertConflict(o)
  <2>1. num[o] \in DOMAIN revs /\ pc[o] = "insert"
    BY <1>0, <1>1, <1>4 DEF InsertConflict, AllTyped, LocalsTyped
  <2>2. home[o] # home[revs[num[o]].by]
    BY <1>0, <1>1, <2>1 DEF Numbered, NumbersTaken
  <2> QED
    BY <1>0, <1>3, <1>4, <2>2 DEF InsertConflict, Numbered, ConflictsAreForeign
<1>5. CASE conflicts' = conflicts
  BY <1>0, <1>3, <1>5 DEF Numbered, ConflictsAreForeign
<1> QED
  BY <1>4, <1>5
  DEF Advance, CutShort, ReadPart, ProbeHit, ProbeMiss, SelectMax, ForceMax, Insert, MarkDeployed

LEMMA NumberedStep ==
  ASSUME AllTyped, Numbered, [Next]_vars
  PROVE  Numbered'
<1>1. ASSUME UNCHANGED <<last, home, revs, pc, num, mu, conflicts>> PROVE Numbered'
  BY <1>1 DEF Numbered, MutexHeld, NumbersTaken, ConflictsAreForeign
<1>2. ASSUME NEW o \in Ops, NEW c \in Conns, Effect(o, c) PROVE Numbered'
  <2>1. /\ last' = o /\ o = last + 1 /\ pc[o] = "idle" /\ UNCHANGED <<revs, mu, conflicts>>
        /\ \A q \in Ops : q # o => home'[q] = home[q] /\ pc'[q] = pc[q] /\ num'[q] = num[q]
        /\ pc'[o] \notin Locked /\ last \in Nat /\ mu \in [Replicas -> Ops \cup {None}]
    <3>1. last \in Nat /\ mu \in [Replicas -> Ops \cup {None}]
      BY OpsAssumption DEF AllTyped, Typed, TypeOK
    <3>2. pc'[o] \notin Locked
      BY <1>2, EffectFacts DEF Locked
    <3> QED
      BY <1>2, <3>1, <3>2, EffectFacts DEF Committed
  <2>2. \A q \in Ops : q <= last => q # o /\ q <= last'
    <3>1. \A q \in Ops : q \in Nat
      BY Constants
    <3> QED
      BY <2>1, <3>1
  <2>3. \A q \in Ops : pc'[q] \in Locked => q # o /\ pc[q] \in Locked
    BY <2>1
  <2>4. MutexHeld'
    <3>1. ASSUME NEW s \in Replicas, mu[s] # None
          PROVE  mu[s] <= last' /\ home'[mu[s]] = s /\ pc'[mu[s]] \in Locked
      <4>1. mu[s] \in Ops /\ mu[s] <= last /\ home[mu[s]] = s /\ pc[mu[s]] \in Locked
        BY <2>1, <3>1 DEF Numbered, MutexHeld
      <4> QED
        BY <2>1, <2>2, <4>1
    <3>2. ASSUME NEW q \in Ops, pc'[q] \in Locked PROVE mu[home'[q]] = q
      BY <2>1, <2>3, <3>2 DEF Numbered, MutexHeld
    <3> QED
      BY <2>1, <3>1, <3>2 DEF MutexHeld
  <2>5. NumbersTaken'
    <3> SUFFICES ASSUME NEW q \in Ops, pc'[q] = "insert", NEW n \in DOMAIN revs, n >= num'[q]
                 PROVE  home'[revs[n].by] # home'[q]
      BY <2>1 DEF NumbersTaken
    <3>1. q # o /\ pc[q] = "insert" /\ num'[q] = num[q]
      BY <2>1, <2>3 DEF Locked
    <3>2. revs[n].by \in Ops /\ revs[n].by # o
      BY <2>2, SnapTypes DEF AllTyped, Typed
    <3> QED
      BY <2>1, <3>1, <3>2 DEF Numbered, NumbersTaken
  <2>6. ConflictsAreForeign'
    <3> SUFFICES ASSUME NEW d \in conflicts PROVE home'[d[1]] # home'[d[2]]
      BY <2>1 DEF ConflictsAreForeign
    <3>1. d[1] \in Ops /\ d[2] \in Ops /\ d[1] # o /\ d[2] # o
      BY <2>2 DEF AllTyped, Typed
    <3> QED
      BY <2>1, <3>1 DEF Numbered, ConflictsAreForeign
  <2> QED
    BY <2>4, <2>5, <2>6 DEF Numbered
<1>3. ASSUME NEW o \in Ops, Advance(o) \/ CutShort(o) PROVE Numbered'
  <2>1. MutexHeld'
    BY <1>3, MutexAdvance DEF Numbered
  <2> QED
    BY <1>3, <2>1, NumbersAdvance DEF Numbered
<1>4. ASSUME NEW c \in Conns, Stated(c) PROVE Numbered'
  BY <1>1, <1>4, StatedHidden
<1>5. ASSUME NEW x \in rows[1], Unlink(x) PROVE Numbered'
  BY <1>1, <1>5 DEF Unlink
<1>6. CASE UNCHANGED vars
  BY <1>1, <1>6, StutterHidden
<1> QED
  BY <1>2, <1>3, <1>4, <1>5, <1>6, Steps

\* Only another replica's request can take a revision number from a save.
THEOREM ConflictsStayForeign == Spec => []ConflictsAreForeign
<1>1. Init => Numbered
  BY DEF Init, Numbered, MutexHeld, NumbersTaken, ConflictsAreForeign, Locked
<1>2. AllTyped /\ Numbered /\ [Next]_vars => Numbered'
  BY NumberedStep
<1>3. Numbered => ConflictsAreForeign
  BY DEF Numbered
<1> QED
  BY <1>1, <1>2, <1>3, TypedInit, TypedStep, PTL DEF Spec
=============================================================================
