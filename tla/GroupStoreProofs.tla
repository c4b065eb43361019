-------------------------- MODULE GroupStoreProofs --------------------------
(* The group store proved for any threads, groups, agents and contents, and *)
(* any number of requests: its types, and that the statements of the        *)
(* handlers, interleaved and failing, implement VersionLog.                 *)
EXTENDS GroupStore, FiniteSetTheorems, WellFoundedInduction, TLAPS

Reqs == {Idle} \cup Creates \cup Rollbacks \cup Assigns
Rows == [group : Groups, number : Numbers, updated : BOOLEAN]

\* A request that has chosen its number, and one whose INSERT is open.
Chosen == {"insert", "update", "commit"}
Written == {"update", "commit"}

(* An open transaction is that of its request; its group cannot go, and its *)
(* number is neither committed nor inserted by another.                     *)
Transactions ==
    /\ \A t \in Threads : open[t] # Null <=> req[t].pc \in Written
    /\ \A t \in Threads : open[t] # Null =>
        /\ open[t].group = req[t].group /\ open[t].number = req[t].number
        /\ req[t].group \in Existing /\ req[t].number \notin NumbersOf(req[t].group)
    /\ \A t, u \in Threads :
        /\ open[t] # Null /\ open[u] # Null
        /\ req[t].group = req[u].group /\ req[t].number = req[u].number
        => t = u

(* Before a deletion the numbers of a group are 1..k, every number below a  *)
(* chosen one is committed, and a version to roll back to does not vanish.  *)
Sequence ==
    /\ \A v \in versions : v.group \in Existing
    /\ \A g \in Groups \ dropped : \E k \in Nat : NumbersOf(g) = 1..k
    /\ \A t \in Threads : req[t].pc \in Chosen /\ req[t].group \notin dropped =>
            1..(req[t].number - 1) \subseteq NumbersOf(req[t].group)
    /\ \A t \in Threads : req[t].pc = "repoint" /\ req[t].group \notin dropped =>
            req[t].number \in NumbersOf(req[t].group)

(* Numbers do not run ahead of the requests that have ended, which is why   *)
(* they stay below the bound on requests.                                   *)
Active == {t \in Threads : req[t] # Idle}
Done == requests - Cardinality(Active)
Counted ==
    /\ IsFiniteSet(Active)
    /\ Done \in Nat
    /\ \A v \in versions : v.number <= Done
    /\ \A t \in Threads : req[t].pc \in Chosen => req[t].number <= Done + 1

IInv == TypeOK /\ Transactions /\ Sequence /\ Counted

-----------------------------------------------------------------------------
(* MAX of a bounded set of numbers is in it.                                *)
LEMMA MaxOf ==
    ASSUME NEW S \in SUBSET Nat, S # {}, NEW b \in Nat, \A x \in S : x <= b
    PROVE  Max(S) \in S /\ \A x \in S : x <= Max(S)
<1> DEFINE R == OpToRel(<, Nat)
           B == {n \in Nat : \A x \in S : x <= n}
<1>1. PICK m \in B : \A n \in B : <<n, m>> \notin R
    <2>1. B \subseteq Nat /\ B # {}
        OBVIOUS
    <2>2. IsWellFoundedOn(R, Nat)
        BY NatLessThanWellFounded
    <2> HIDE DEF B, R
    <2> QED BY <2>1, <2>2, WFMin
<1>2. \A n \in B : ~(n < m)
    BY <1>1 DEF OpToRel
<1>3. m \in S
    <2>1. SUFFICES ASSUME m \notin S PROVE FALSE
        OBVIOUS
    <2>2. PICK x \in S : TRUE
        OBVIOUS
    <2>3. m > 0 /\ m - 1 \in Nat
        BY <2>1, <2>2
    <2>4. m - 1 \in B
        BY <2>1, <2>3
    <2> QED BY <1>2, <2>3, <2>4
<1>4. \E x \in S : \A y \in S : x >= y
    BY <1>3
<1> QED BY <1>4 DEF Max

(* What a request carries at each statement.                                *)
LEMMA ReqType ==
    ASSUME NEW r \in Reqs
    PROVE  /\ r.pc = "idle" <=> r = Idle
           /\ r.pc = "max" => r.group \in Groups /\ r.content \in Contents
           /\ r.pc \in Chosen => /\ r.group \in Groups /\ r.content \in Contents
                                 /\ r.number \in Numbers
                                 /\ \A x \in Chosen : [r EXCEPT !.pc = x] \in Creates
           /\ r.pc = "repoint" => r.group \in Groups /\ r.number \in Numbers
           /\ r.pc = "assign" => r.agent \in Agents /\ r.group \in Groups \cup {Null, EmptyName}
           /\ r.pc \in {"idle", "max", "repoint", "assign"} \cup Chosen
<1>1. CASE r = Idle
    BY <1>1 DEF Idle, Chosen
<1>2. CASE r \in Creates
    BY <1>2 DEF Creates, Idle, Chosen
<1>3. CASE r \in Rollbacks
    BY <1>3 DEF Rollbacks, Idle, Chosen
<1>4. CASE r \in Assigns
    BY <1>4 DEF Assigns, Idle, Chosen
<1> QED BY <1>1, <1>2, <1>3, <1>4 DEF Reqs

(* The numbers of a group, and what they depend on.                         *)
LEMMA NumbersType ==
    ASSUME TypeOK, NEW g \in Groups
    PROVE  NumbersOf(g) \subseteq Numbers
    BY DEF TypeOK, Versions, NumbersOf

-----------------------------------------------------------------------------
(* Requests that begin, go on and end, and the count of those that ended.   *)
LEMMA CountStep ==
    ASSUME IInv, NEW t \in Threads, NEW r \in Reqs, req' = [req EXCEPT ![t] = r]
    PROVE  /\ IsFiniteSet(Active')
           /\ req[t] # Idle /\ r # Idle => Cardinality(Active') = Cardinality(Active)
           /\ req[t] # Idle /\ r = Idle => Cardinality(Active') = Cardinality(Active) - 1
           /\ req[t] = Idle /\ r # Idle => Cardinality(Active') = Cardinality(Active) + 1
<1>1. req'[t] = r /\ \A u \in Threads : u # t => req'[u] = req[u]
    BY DEF IInv, TypeOK
<1>2. IsFiniteSet(Active) /\ Cardinality(Active) \in Nat
    BY FS_CardinalityType DEF IInv, Counted
<1>3. CASE r = Idle
    <2>1. Active' = Active \ {t}
        BY <1>1, <1>3 DEF Active
    <2>2. t \in Active <=> req[t] # Idle
        BY DEF Active
    <2> QED BY <1>2, <1>3, <2>1, <2>2, FS_RemoveElement
<1>4. CASE r # Idle
    <2>1. Active' = Active \cup {t}
        BY <1>1, <1>4 DEF Active
    <2>2. t \in Active <=> req[t] # Idle
        BY DEF Active
    <2> QED BY <1>2, <1>4, <2>1, <2>2, FS_AddElement
<1> QED BY <1>3, <1>4

(* How a request may go on, r, and what its transaction holds then, o.      *)
Follows(t, r, o) ==
    /\ o # Null <=> r.pc \in Written
    /\ o # Null =>
        /\ o.group = r.group /\ o.number = r.number
        /\ r.group \in Existing /\ r.number \notin NumbersOf(r.group)
        /\ \A u \in Threads : u # t /\ open[u] # Null =>
                ~(req[u].group = r.group /\ req[u].number = r.number)
    /\ r.pc \in Chosen =>
        /\ r.number <= Done + 1
        /\ r.group \notin dropped => 1..(r.number - 1) \subseteq NumbersOf(r.group)
    /\ r.pc = "repoint" /\ r.group \notin dropped => r.number \in NumbersOf(r.group)

(* Steps that commit no version and delete no group keep the invariant when *)
(* the request goes on like that.                                           *)
LEMMA Quiet ==
    ASSUME IInv, NEW t \in Threads, NEW r \in Reqs, NEW o \in Rows \cup {Null},
           Follows(t, r, o),
           req' = [req EXCEPT ![t] = r], open' = [open EXCEPT ![t] = o],
           Existing' = Existing, versions' = versions, dropped' = dropped,
           \/ req[t] # Idle /\ requests' = requests
           \/ req[t] = Idle /\ r # Idle /\ requests < MaxRequests /\ requests' = requests + 1,
           groups' \in [Groups -> 0..MaxRequests \cup {Null}],
           assigned' \in [Agents -> Groups \cup {Null}]
    PROVE  IInv'
<1>1. /\ req'[t] = r /\ \A u \in Threads : u # t => req'[u] = req[u]
      /\ open'[t] = o /\ \A u \in Threads : u # t => open'[u] = open[u]
      /\ req' \in [Threads -> Reqs] /\ open' \in [Threads -> Rows \cup {Null}]
    BY DEF IInv, TypeOK, Reqs, Rows
<1>2. \A g : NumbersOf(g)' = NumbersOf(g)
    BY DEF NumbersOf
<1>3. Transactions'
    <2>1. \A u \in Threads : open'[u] # Null <=> req'[u].pc \in Written
        BY <1>1 DEF IInv, Transactions, Follows
    <2>2. \A u \in Threads : open'[u] # Null =>
            /\ open'[u].group = req'[u].group /\ open'[u].number = req'[u].number
            /\ req'[u].group \in Existing /\ req'[u].number \notin NumbersOf(req'[u].group)
        BY <1>1 DEF IInv, Transactions, Follows
    <2>3. \A u, w \in Threads :
            /\ open'[u] # Null /\ open'[w] # Null
            /\ req'[u].group = req'[w].group /\ req'[u].number = req'[w].number
            => u = w
        BY <1>1 DEF IInv, Transactions, Follows
    <2> QED BY <1>2, <2>1, <2>2, <2>3 DEF Transactions, NumbersOf
<1>4. Sequence'
    <2>1. \A u \in Threads : req'[u].pc \in Chosen /\ req'[u].group \notin dropped =>
            1..(req'[u].number - 1) \subseteq NumbersOf(req'[u].group)
        BY <1>1 DEF IInv, Sequence, Follows
    <2>2. \A u \in Threads : req'[u].pc = "repoint" /\ req'[u].group \notin dropped =>
            req'[u].number \in NumbersOf(req'[u].group)
        BY <1>1 DEF IInv, Sequence, Follows
    <2>3. \A v \in versions : v.group \in Existing
        BY DEF IInv, Sequence
    <2>4. \A g \in Groups \ dropped : \E k \in Nat : NumbersOf(g)' = 1..k
        BY <1>2 DEF IInv, Sequence
    <2> QED BY <2>1, <2>2, <2>3, <2>4 DEF Sequence, NumbersOf
<1>5. Counted'
    <2>1. /\ IsFiniteSet(Active')
          /\ req[t] # Idle /\ r # Idle => Cardinality(Active') = Cardinality(Active)
          /\ req[t] # Idle /\ r = Idle => Cardinality(Active') = Cardinality(Active) - 1
          /\ req[t] = Idle /\ r # Idle => Cardinality(Active') = Cardinality(Active) + 1
        BY CountStep
    <2>2. Cardinality(Active) \in Nat /\ requests \in Nat /\ Done \in Nat
        BY FS_CardinalityType DEF IInv, Counted, TypeOK
    <2>3. Done' \in Nat /\ Done' >= Done
        BY <2>1, <2>2 DEF Done
    <2>4. \A v \in versions : v.number \in Nat /\ v.number <= Done
        BY DEF IInv, Counted, TypeOK, Versions, Numbers
    <2>5. \A u \in Threads : req'[u].pc \in Chosen =>
              req'[u].number \in Nat /\ req'[u].number <= Done + 1
        <3>1. \A u \in Threads : req'[u].pc \in Chosen => req'[u].number \in Nat
            BY <1>1, ReqType DEF Numbers
        <3> QED BY <1>1, <3>1 DEF IInv, Counted, Follows
    <2> HIDE DEF Active, Done
    <2> QED BY <2>1, <2>2, <2>3, <2>4, <2>5 DEF Counted
<1>6. TypeOK'
    <2>1. requests' \in 0..MaxRequests
        BY RequestsAssumption DEF IInv, TypeOK
    <2>2. versions' \subseteq Versions /\ dropped' \subseteq Groups
        BY DEF IInv, TypeOK
    <2> QED BY <1>1, <2>1, <2>2 DEF TypeOK, Reqs, Rows
<1> QED BY <1>3, <1>4, <1>5, <1>6 DEF IInv

LEMMA BeginKeeps ==
    ASSUME IInv, NEW t \in Threads, NEW r \in Reqs, Begin(t, r),
           r.pc \in {"max", "repoint", "assign"},
           r.pc = "repoint" => r.number \in NumbersOf(r.group)
    PROVE  IInv'
<1>1. /\ req[t] = Idle /\ requests < MaxRequests /\ requests' = requests + 1
      /\ req' = [req EXCEPT ![t] = r]
      /\ UNCHANGED <<groups, versions, assigned, open, dropped>>
    BY DEF Begin
<1>2. r # Idle
    BY ReqType
<1>3. open[t] = Null /\ open' = [open EXCEPT ![t] = Null]
    BY <1>1, ReqType DEF IInv, TypeOK, Transactions, Written, Idle
<1>4. Follows(t, r, Null)
    BY DEF Follows, Written, Chosen
<1>5. Existing' = Existing
    BY <1>1 DEF Existing
<1>6. /\ groups' \in [Groups -> 0..MaxRequests \cup {Null}]
      /\ assigned' \in [Agents -> Groups \cup {Null}]
    BY <1>1 DEF IInv, TypeOK
<1> QED BY <1>1, <1>2, <1>3, <1>4, <1>5, <1>6, Quiet

(* A request that ends, because it is done, or failed, or gave up; what it  *)
(* changed are pointers and assignments.                                    *)
LEMMA EndKeeps ==
    ASSUME IInv, NEW t \in Threads, req[t] # Idle, Continue(t, Idle),
           open' = [open EXCEPT ![t] = Null], versions' = versions, Existing' = Existing,
           groups' \in [Groups -> 0..MaxRequests \cup {Null}],
           assigned' \in [Agents -> Groups \cup {Null}]
    PROVE  IInv'
<1>1. Follows(t, Idle, Null)
    BY DEF Follows, Written, Chosen, Idle
<1>2. Idle \in Reqs
    BY DEF Reqs
<1> QED BY <1>1, <1>2, Quiet DEF Continue

(* A transaction that writes nothing yet, or nothing that others see.       *)
LEMMA AdvanceKeeps ==
    ASSUME IInv, NEW t \in Threads, NEW r \in Reqs, NEW o \in Rows \cup {Null},
           req[t] # Idle, Continue(t, r), Follows(t, r, o),
           open' = [open EXCEPT ![t] = o], UNCHANGED <<groups, versions, assigned>>
    PROVE  IInv'
<1>1. Existing' = Existing
    BY DEF Existing
<1>2. /\ groups' \in [Groups -> 0..MaxRequests \cup {Null}]
      /\ assigned' \in [Agents -> Groups \cup {Null}]
    BY DEF IInv, TypeOK
<1> QED BY <1>1, <1>2, Quiet DEF Continue

LEMMA RequestType ==
    ASSUME IInv, NEW t \in Threads
    PROVE  /\ req[t] \in Reqs /\ open[t] \in Rows \cup {Null}
           /\ open[t] = Null => open = [open EXCEPT ![t] = Null]
           /\ req[t] # Idle <=> req[t].pc # "idle"
           /\ open[t] # Null <=> req[t].pc \in Written
<1>1. req[t] \in Reqs /\ open[t] \in Rows \cup {Null}
    BY DEF IInv, TypeOK, Reqs, Rows
<1> QED BY <1>1, ReqType DEF IInv, TypeOK, Transactions

LEMMA SelectNextKeeps ==
    ASSUME IInv, NEW t \in Threads, SelectNext(t)
    PROVE  IInv'
<1>1. PICK g \in Groups, c \in Contents : g = req[t].group /\ c = req[t].content
    BY RequestType, ReqType DEF SelectNext
<1> DEFINE S == NumbersOf(g) \cup {0}
           n == Max(S) + 1
           r == [pc |-> "insert", group |-> g, content |-> c, number |-> n]
<1>2. /\ Continue(t, r) /\ req[t].pc = "max"
      /\ UNCHANGED <<groups, versions, assigned, open>>
    BY <1>1 DEF SelectNext
<1>3. req[t] # Idle /\ open[t] = Null
    BY <1>2, RequestType DEF Written
<1>4. Done \in Nat /\ Done + 1 <= MaxRequests
    <2>1. t \in Active /\ IsFiniteSet(Active) /\ Done \in Nat
        BY <1>3 DEF IInv, Active, Counted
    <2>2. Cardinality(Active) \in Nat /\ Cardinality(Active) # 0
        BY <2>1, FS_CardinalityType, FS_EmptySet
    <2>3. requests \in 0..MaxRequests /\ MaxRequests \in Nat
        BY RequestsAssumption DEF IInv, TypeOK
    <2> QED BY <2>1, <2>2, <2>3 DEF Done
<1>5. S \subseteq Nat /\ S # {} /\ \A x \in S : x <= Done
    <2>1. NumbersOf(g) \subseteq Nat
        BY NumbersType DEF IInv, Numbers
    <2>2. \A x \in NumbersOf(g) : x <= Done
        BY DEF IInv, Counted, NumbersOf
    <2> QED BY <1>4, <2>1, <2>2
<1>6. Max(S) \in S /\ \A x \in S : x <= Max(S)
    <2> HIDE DEF S
    <2> QED BY <1>4, <1>5, MaxOf
<1>7. n \in Numbers /\ n <= Done + 1
    <2>1. Max(S) \in Nat /\ Max(S) <= Done
        BY <1>5, <1>6
    <2> HIDE DEF S
    <2>2. MaxRequests \in Nat
        BY RequestsAssumption
    <2> HIDE DEF Done
    <2> QED BY <1>4, <2>1, <2>2 DEF Numbers
<1>8. g \notin dropped => 1..(n - 1) \subseteq NumbersOf(g)
    <2>1. SUFFICES ASSUME g \notin dropped PROVE 1..(n - 1) \subseteq NumbersOf(g)
        OBVIOUS
    <2>2. PICK k \in Nat : NumbersOf(g) = 1..k
        BY <2>1 DEF IInv, Sequence
    <2>3. n - 1 = Max(S) /\ Max(S) \in 0..k
        BY <1>5, <1>6, <2>2
    <2> QED BY <2>2, <2>3
<1> HIDE DEF n, S
<1>9. r \in Reqs
    BY <1>7 DEF Reqs, Creates
<1>10. Follows(t, r, Null)
    BY <1>7, <1>8 DEF Follows, Written, Chosen
<1> QED BY <1>2, <1>3, <1>9, <1>10, RequestType, AdvanceKeeps

LEMMA InsertKeeps ==
    ASSUME IInv, NEW t \in Threads, Insert(t)
    PROVE  IInv'
<1>1. req[t].pc = "insert" /\ req[t] # Idle /\ open[t] = Null
    BY RequestType DEF Insert, Written
<1>2. CASE req[t].group \in Existing /\ req[t].number \notin NumbersOf(req[t].group)
    <2> DEFINE r == [req[t] EXCEPT !.pc = "update"]
               o == Inserted(t)
    <2>1. /\ Continue(t, r) /\ open' = [open EXCEPT ![t] = o] /\ ~InsertWaits(t)
          /\ UNCHANGED <<groups, versions, assigned>>
        BY <1>2 DEF Insert
    <2>2. /\ r \in Reqs /\ r.pc = "update"
          /\ r.group = req[t].group /\ r.number = req[t].number
        <3>1. req[t] \in Reqs
            BY RequestType
        <3>2. r \in Creates
            BY <1>1, <3>1, ReqType DEF Chosen
        <3>3. req[t] \in Creates
            BY <1>1, <3>1 DEF Reqs, Rollbacks, Assigns, Idle
        <3> QED BY <1>1, <3>2, <3>3 DEF Reqs, Creates
    <2>3. /\ o \in Rows /\ o # Null
          /\ o.group = req[t].group /\ o.number = req[t].number
        <3>1. req[t].group \in Groups /\ req[t].number \in Numbers
            BY <1>1, RequestType, ReqType DEF Chosen
        <3>2. o \in Rows
            BY <3>1 DEF Inserted, Rows
        <3>3. Null \notin Rows
            BY NullAssumption DEF Rows, Numbers
        <3> QED BY <3>2, <3>3 DEF Inserted
    <2>4. Follows(t, r, o)
        <3>1. \A u \in Threads : u # t /\ open[u] # Null =>
                ~(req[u].group = r.group /\ req[u].number = r.number)
            BY <2>1, <2>2 DEF InsertWaits, IInv, Transactions
        <3>2. /\ r.number <= Done + 1
              /\ r.group \notin dropped => 1..(r.number - 1) \subseteq NumbersOf(r.group)
            BY <1>1, <2>2 DEF IInv, Counted, Sequence, Chosen
        <3> HIDE DEF r, o
        <3> QED BY <1>2, <2>2, <2>3, <3>1, <3>2 DEF Follows, Written
    <2> HIDE DEF r, o
    <2> QED BY <1>1, <2>1, <2>2, <2>3, <2>4, AdvanceKeeps
<1>3. CASE ~(req[t].group \in Existing /\ req[t].number \notin NumbersOf(req[t].group))
    <2>1. Continue(t, Idle) /\ UNCHANGED <<open, groups, versions, assigned>>
        BY <1>3 DEF Insert
    <2>2. /\ groups' \in [Groups -> 0..MaxRequests \cup {Null}]
          /\ assigned' \in [Agents -> Groups \cup {Null}]
        BY <2>1 DEF IInv, TypeOK
    <2>3. Existing' = Existing
        BY <2>1 DEF Existing
    <2> QED BY <1>1, <2>1, <2>2, <2>3, RequestType, EndKeeps
<1> QED BY <1>2, <1>3

LEMMA UpdateCurrentKeeps ==
    ASSUME IInv, NEW t \in Threads, UpdateCurrent(t)
    PROVE  IInv'
<1> DEFINE r == [req[t] EXCEPT !.pc = "commit"]
           o == [open[t] EXCEPT !.updated = TRUE]
<1>1. req[t].pc = "update" /\ req[t] # Idle /\ open[t] # Null /\ open[t] \in Rows
    BY RequestType DEF UpdateCurrent, Written
<1>2. /\ Continue(t, r) /\ open' = [open EXCEPT ![t] = o]
      /\ UNCHANGED <<groups, versions, assigned>>
    BY DEF UpdateCurrent
<1>3. /\ r \in Reqs /\ r.pc = "commit"
      /\ r.group = req[t].group /\ r.number = req[t].number
    <2>1. req[t] \in Reqs
        BY RequestType
    <2>2. r \in Creates
        BY <1>1, <2>1, ReqType DEF Chosen
    <2>3. req[t] \in Creates
        BY <1>1, <2>1 DEF Reqs, Rollbacks, Assigns, Idle
    <2> QED BY <1>1, <2>2, <2>3 DEF Reqs, Creates
<1>4. o \in Rows /\ o # Null /\ o.group = open[t].group /\ o.number = open[t].number
    BY <1>1, NullAssumption DEF Rows, Numbers
<1> HIDE DEF r, o
<1>5. Follows(t, r, o)
    <2>1. /\ o.group = r.group /\ o.number = r.number
          /\ r.group \in Existing /\ r.number \notin NumbersOf(r.group)
        BY <1>1, <1>3, <1>4 DEF IInv, Transactions
    <2>2. \A u \in Threads : u # t /\ open[u] # Null =>
            ~(req[u].group = r.group /\ req[u].number = r.number)
        BY <1>1, <1>3 DEF IInv, Transactions
    <2>3. /\ r.number <= Done + 1
          /\ r.group \notin dropped => 1..(r.number - 1) \subseteq NumbersOf(r.group)
        BY <1>1, <1>3 DEF IInv, Counted, Sequence, Chosen
    <2> QED BY <1>3, <1>4, <2>1, <2>2, <2>3 DEF Follows, Written
<1> QED BY <1>1, <1>2, <1>3, <1>4, <1>5, AdvanceKeeps

LEMMA AbortKeeps ==
    ASSUME IInv, NEW t \in Threads, Abort(t) \/ GiveUp(t)
    PROVE  IInv'
<1>1. /\ req[t].pc \in {"max", "repoint", "assign"} \cup Chosen
      /\ Continue(t, Idle) /\ UNCHANGED <<groups, versions, assigned>>
      /\ open' = [open EXCEPT ![t] = Null] \/ (open' = open /\ req[t].pc \notin Chosen)
    BY DEF Abort, GiveUp, Chosen
<1>2. open' = [open EXCEPT ![t] = Null] /\ req[t] # Idle
    BY <1>1, RequestType DEF Chosen, Written
<1>3. /\ groups' \in [Groups -> 0..MaxRequests \cup {Null}]
      /\ assigned' \in [Agents -> Groups \cup {Null}]
    BY <1>1 DEF IInv, TypeOK
<1>4. Existing' = Existing
    BY <1>1 DEF Existing
<1> QED BY <1>1, <1>2, <1>3, <1>4, EndKeeps

LEMMA RepointKeeps ==
    ASSUME IInv, NEW t \in Threads, Repoint(t)
    PROVE  IInv'
<1>1. PICK g \in Groups, n \in Numbers : g = req[t].group /\ n = req[t].number
    BY RequestType, ReqType DEF Repoint
<1>2. /\ req[t].pc = "repoint" /\ Continue(t, Idle) /\ UNCHANGED <<versions, assigned, open>>
      /\ groups' = IF g \in Existing THEN [groups EXCEPT ![g] = n] ELSE groups
    BY <1>1 DEF Repoint
<1>3. n \in 0..MaxRequests /\ n # Null
    BY RequestsAssumption, NullAssumption DEF Numbers
<1>4. /\ groups' \in [Groups -> 0..MaxRequests \cup {Null}]
      /\ assigned' \in [Agents -> Groups \cup {Null}]
    BY <1>2, <1>3 DEF IInv, TypeOK
<1>5. Existing' = Existing
    BY <1>2, <1>3 DEF Existing, IInv, TypeOK
<1>6. req[t] # Idle /\ open' = [open EXCEPT ![t] = Null]
    BY <1>2, RequestType DEF Written
<1> QED BY <1>2, <1>4, <1>5, <1>6, EndKeeps

LEMMA AssignKeeps ==
    ASSUME IInv, NEW t \in Threads, Assign(t)
    PROVE  IInv'
<1>1. /\ req[t].pc = "assign" /\ Continue(t, Idle) /\ UNCHANGED <<versions, groups, open>>
      /\ assigned' = IF req[t].group \in Existing \cup {Null}
                     THEN [assigned EXCEPT ![req[t].agent] = req[t].group] ELSE assigned
    BY DEF Assign
<1>2. /\ groups' \in [Groups -> 0..MaxRequests \cup {Null}]
      /\ assigned' \in [Agents -> Groups \cup {Null}]
    BY <1>1 DEF IInv, TypeOK, Existing
<1>3. Existing' = Existing
    BY <1>1 DEF Existing
<1>4. req[t] # Idle /\ open' = [open EXCEPT ![t] = Null]
    BY <1>1, RequestType DEF Written
<1> QED BY <1>1, <1>2, <1>3, <1>4, EndKeeps

LEMMA UpsertGroupKeeps ==
    ASSUME IInv, NEW g \in Groups, UpsertGroup(g)
    PROVE  IInv'
<1>1. /\ g \notin Existing /\ groups' = [groups EXCEPT ![g] = 0]
      /\ UNCHANGED <<versions, assigned, req, open, dropped, requests>>
    BY DEF UpsertGroup
<1>2. 0 \in 0..MaxRequests /\ 0 # Null
    BY RequestsAssumption, NullAssumption
<1>3. TypeOK'
    BY <1>1, <1>2 DEF IInv, TypeOK
<1>4. Existing \subseteq Existing'
    BY <1>1, <1>2 DEF Existing, IInv, TypeOK
<1>5. Transactions'
    BY <1>1, <1>4 DEF IInv, Transactions, NumbersOf
<1>6. Sequence'
    BY <1>1, <1>4 DEF IInv, Sequence, NumbersOf
<1>7. Counted'
    BY <1>1 DEF IInv, Counted, Done, Active
<1> QED BY <1>3, <1>5, <1>6, <1>7 DEF IInv

LEMMA DeleteGroupKeeps ==
    ASSUME IInv, NEW g \in Groups, DeleteGroup(g)
    PROVE  IInv'
<1>1. /\ \A t \in Threads : open[t] # Null => open[t].group # g
      /\ groups' = [groups EXCEPT ![g] = Null]
      /\ versions' = {v \in versions : v.group # g}
      /\ assigned' = [a \in Agents |-> IF assigned[a] = g THEN Null ELSE assigned[a]]
      /\ dropped' = dropped \cup {g}
      /\ UNCHANGED <<req, open, requests>>
    BY DEF DeleteGroup
<1>2. TypeOK'
    <2>1. /\ groups' \in [Groups -> 0..MaxRequests \cup {Null}]
          /\ assigned' \in [Agents -> Groups \cup {Null}]
        BY <1>1 DEF IInv, TypeOK
    <2>2. versions' \subseteq Versions /\ dropped' \subseteq Groups
        BY <1>1 DEF IInv, TypeOK
    <2> QED BY <1>1, <2>1, <2>2 DEF IInv, TypeOK
<1>3. \A h \in Groups : h # g => (h \in Existing' <=> h \in Existing)
    BY <1>1 DEF Existing, IInv, TypeOK
<1>4. \A h : h # g => NumbersOf(h)' = NumbersOf(h)
    BY <1>1 DEF NumbersOf
<1>5. Transactions'
    <2>1. \A t \in Threads : open[t] # Null =>
            /\ req[t].group \in Groups /\ req[t].group # g
            /\ req[t].group \in Existing' /\ req[t].number \notin NumbersOf(req[t].group)
        BY <1>1, <1>3 DEF IInv, Transactions, Existing
    <2>2. \A t \in Threads : open[t] # Null => req[t].number \notin
              {v.number : v \in {w \in versions' : w.group = req[t].group}}
        BY <1>1, <2>1 DEF NumbersOf
    <2> QED BY <1>1, <2>1, <2>2 DEF IInv, Transactions, NumbersOf
<1>6. Sequence'
    <2>1. \A v \in versions' : v.group \in Existing'
        BY <1>1, <1>3 DEF IInv, Sequence, TypeOK, Versions
    <2>2. \A h \in Groups \ dropped' : \E k \in Nat : NumbersOf(h)' = 1..k
        BY <1>1, <1>4 DEF IInv, Sequence
    <2>3. \A t \in Threads : req[t].group # g =>
              {v.number : v \in {w \in versions' : w.group = req[t].group}}
                = NumbersOf(req[t].group)
        BY <1>1 DEF NumbersOf
    <2>4. \A t \in Threads : req[t].pc \in Chosen /\ req[t].group \notin dropped' =>
            1..(req[t].number - 1) \subseteq
              {v.number : v \in {w \in versions' : w.group = req[t].group}}
        BY <1>1, <2>3 DEF IInv, Sequence
    <2>5. \A t \in Threads : req[t].pc = "repoint" /\ req[t].group \notin dropped' =>
            req[t].number \in {v.number : v \in {w \in versions' : w.group = req[t].group}}
        BY <1>1, <2>3 DEF IInv, Sequence
    <2> QED BY <1>1, <2>1, <2>2, <2>4, <2>5 DEF Sequence, NumbersOf
<1>7. Counted'
    BY <1>1 DEF IInv, Counted, Done, Active
<1> QED BY <1>2, <1>5, <1>6, <1>7 DEF IInv

(* What a COMMIT makes of the numbers: one more in its group, and without a *)
(* deletion it is the next.                                                 *)
LEMMA CommitStep ==
    ASSUME IInv, NEW t \in Threads, Commit(t)
    PROVE  \E g \in Groups, n \in Numbers, c \in Contents :
              /\ req[t].group = g /\ req[t].number = n /\ req[t].pc = "commit"
              /\ open[t] # Null /\ g \in Existing /\ n \notin NumbersOf(g)
              /\ versions' = versions \cup {[group |-> g, number |-> n, content |-> c]}
              /\ groups' = [groups EXCEPT ![g] = n]
              /\ open' = [open EXCEPT ![t] = Null] /\ req' = [req EXCEPT ![t] = Idle]
              /\ UNCHANGED <<dropped, requests, assigned>>
              /\ g \notin dropped => NumbersOf(g) = 1..(n - 1)
<1>1. req[t].pc = "commit" /\ req[t] \in Reqs /\ open[t] # Null
    BY RequestType DEF Commit, Written
<1>2. PICK g \in Groups, n \in Numbers, c \in Contents :
          req[t].group = g /\ req[t].number = n /\ req[t].content = c
    BY <1>1, ReqType DEF Chosen
<1>3. g \in Existing /\ n \notin NumbersOf(g)
    BY <1>1, <1>2 DEF IInv, Transactions
<1>4. g \notin dropped => NumbersOf(g) = 1..(n - 1)
    <2>1. SUFFICES ASSUME g \notin dropped PROVE NumbersOf(g) = 1..(n - 1)
        OBVIOUS
    <2>2. PICK k \in Nat : NumbersOf(g) = 1..k
        BY <2>1 DEF IInv, Sequence
    <2>3. 1..(n - 1) \subseteq 1..k
        BY <1>1, <1>2, <2>1, <2>2 DEF IInv, Sequence, Chosen
    <2>4. n \in Nat /\ n >= 1 /\ n \notin 1..k
        BY <1>3, <2>2 DEF Numbers
    <2>5. n - 1 <= k
        BY <2>3, <2>4
    <2>6. k = n - 1
        BY <2>4, <2>5
    <2> QED BY <2>2, <2>6
<1> QED BY <1>1, <1>2, <1>3, <1>4 DEF Commit, Continue

LEMMA CommitKeeps ==
    ASSUME IInv, NEW t \in Threads, Commit(t)
    PROVE  IInv'
<1>1. PICK g \in Groups, n \in Numbers, c \in Contents :
          /\ req[t].group = g /\ req[t].number = n /\ req[t].pc = "commit"
          /\ open[t] # Null /\ g \in Existing /\ n \notin NumbersOf(g)
          /\ versions' = versions \cup {[group |-> g, number |-> n, content |-> c]}
          /\ groups' = [groups EXCEPT ![g] = n]
          /\ open' = [open EXCEPT ![t] = Null] /\ req' = [req EXCEPT ![t] = Idle]
          /\ UNCHANGED <<dropped, requests, assigned>>
          /\ g \notin dropped => NumbersOf(g) = 1..(n - 1)
    BY CommitStep
<1>2. n \in 0..MaxRequests /\ n # Null /\ n \in Nat
    BY RequestsAssumption, NullAssumption DEF Numbers
<1>3. /\ req'[t] = Idle /\ \A u \in Threads : u # t => req'[u] = req[u]
      /\ open'[t] = Null /\ \A u \in Threads : u # t => open'[u] = open[u]
    BY <1>1 DEF IInv, TypeOK
<1>4. Existing' = Existing
    BY <1>1, <1>2 DEF Existing, IInv, TypeOK
<1>5. NumbersOf(g)' = NumbersOf(g) \cup {n} /\ \A h : h # g => NumbersOf(h)' = NumbersOf(h)
    <2> DEFINE new == [group |-> g, number |-> n, content |-> c]
    <2>1. new.group = g /\ new.number = n /\ versions' = versions \cup {new}
        BY <1>1
    <2> HIDE DEF new
    <2>2. {v.number : v \in {w \in versions' : w.group = g}} = NumbersOf(g) \cup {n}
        BY <2>1 DEF NumbersOf
    <2>3. \A h : h # g => {w \in versions' : w.group = h} = {w \in versions : w.group = h}
        BY <2>1
    <2> QED BY <2>2, <2>3 DEF NumbersOf
<1>6. Idle.pc = "idle" /\ Idle \in Reqs
    BY DEF Idle, Reqs
<1>7. TypeOK'
    <2>1. groups' \in [Groups -> 0..MaxRequests \cup {Null}]
        BY <1>1, <1>2 DEF IInv, TypeOK
    <2>2. versions' \subseteq Versions
        BY <1>1 DEF IInv, TypeOK, Versions
    <2>3. req' \in [Threads -> {Idle} \cup Creates \cup Rollbacks \cup Assigns]
        BY <1>1 DEF IInv, TypeOK
    <2>4. open' \in [Threads -> Rows \cup {Null}]
        BY <1>1 DEF IInv, TypeOK, Rows
    <2> QED BY <1>1, <2>1, <2>2, <2>3, <2>4 DEF IInv, TypeOK, Rows
<1>8. Transactions'
    <2>1. \A u \in Threads : open'[u] # Null <=> req'[u].pc \in Written
        BY <1>3, <1>6 DEF IInv, Transactions, Written
    <2>2. \A u \in Threads : open'[u] # Null =>
            /\ open'[u].group = req'[u].group /\ open'[u].number = req'[u].number
            /\ req'[u].group \in Existing' /\ req'[u].number \notin NumbersOf(req'[u].group)
            /\ ~(req'[u].group = g /\ req'[u].number = n)
        BY <1>1, <1>3, <1>4 DEF IInv, Transactions
    <2>3. \A u \in Threads : open'[u] # Null => req'[u].number \notin
              {v.number : v \in {w \in versions' : w.group = req'[u].group}}
        BY <1>1, <2>2 DEF NumbersOf
    <2>4. \A u, w \in Threads :
            /\ open'[u] # Null /\ open'[w] # Null
            /\ req'[u].group = req'[w].group /\ req'[u].number = req'[w].number
            => u = w
        BY <1>3 DEF IInv, Transactions
    <2> QED BY <2>1, <2>2, <2>3, <2>4 DEF Transactions, NumbersOf
<1>9. Sequence'
    <2>1. \A v \in versions' : v.group \in Existing'
        BY <1>1, <1>4 DEF IInv, Sequence
    <2>2. \A h \in Groups \ dropped' : \E k \in Nat : NumbersOf(h)' = 1..k
        <3>1. g \notin dropped => NumbersOf(g)' = 1..n
            BY <1>1, <1>2, <1>5 DEF Numbers
        <3> QED BY <1>1, <1>2, <1>5, <3>1 DEF IInv, Sequence
    <2>3. \A h : NumbersOf(h) \subseteq {v.number : v \in {w \in versions' : w.group = h}}
        BY <1>1 DEF NumbersOf
    <2>4. \A u \in Threads : req'[u].pc \in Chosen /\ req'[u].group \notin dropped' =>
            1..(req'[u].number - 1) \subseteq NumbersOf(req'[u].group)
        BY <1>1, <1>3, <1>6 DEF IInv, Sequence, Chosen
    <2>5. \A u \in Threads : req'[u].pc = "repoint" /\ req'[u].group \notin dropped' =>
            req'[u].number \in NumbersOf(req'[u].group)
        BY <1>1, <1>3, <1>6 DEF IInv, Sequence
    <2>6. \A u \in Threads : req'[u].pc \in Chosen /\ req'[u].group \notin dropped' =>
            1..(req'[u].number - 1) \subseteq
                {v.number : v \in {w \in versions' : w.group = req'[u].group}}
        BY <2>3, <2>4
    <2>7. \A u \in Threads : req'[u].pc = "repoint" /\ req'[u].group \notin dropped' =>
            req'[u].number \in {v.number : v \in {w \in versions' : w.group = req'[u].group}}
        BY <2>3, <2>5
    <2> QED BY <2>1, <2>2, <2>6, <2>7 DEF Sequence, NumbersOf
<1>10. Counted'
    <2>1. req[t] # Idle
        BY <1>1, <1>6
    <2>2. IsFiniteSet(Active') /\ Cardinality(Active') = Cardinality(Active) - 1
        BY <1>1, <1>6, <2>1, CountStep
    <2>3. Cardinality(Active) \in Nat /\ requests \in Nat /\ Done \in Nat
        BY FS_CardinalityType DEF IInv, Counted, TypeOK
    <2>4. Done' = Done + 1
        BY <1>1, <2>2, <2>3 DEF Done
    <2>5. n <= Done + 1 /\ \A v \in versions : v.number \in Nat /\ v.number <= Done
        BY <1>1 DEF IInv, Counted, TypeOK, Versions, Numbers, Chosen
    <2>6. \A v \in versions' : v.number <= Done + 1
        BY <1>1, <2>3, <2>5
    <2>7. \A u \in Threads : req'[u].pc \in Chosen => req'[u].number <= Done + 1 + 1
        <3>1. \A u \in Threads : req[u].pc \in Chosen => req[u].number \in Nat
            BY RequestType, ReqType DEF Numbers
        <3>2. \A u \in Threads : req'[u].pc \in Chosen =>
                  req'[u].number \in Nat /\ req'[u].number <= Done + 1
            BY <1>3, <1>6, <3>1 DEF IInv, Counted, Chosen
        <3> QED BY <2>3, <3>2
    <2> HIDE DEF Active, Done
    <2> QED BY <2>2, <2>3, <2>4, <2>6, <2>7 DEF Counted
<1> QED BY <1>7, <1>8, <1>9, <1>10 DEF IInv

LEMMA InitIInv ==
    ASSUME Init
    PROVE  IInv
<1>1. 0 \in 0..MaxRequests
    BY RequestsAssumption
<1>2. TypeOK
    BY <1>1 DEF Init, TypeOK
<1>3. \A t \in Threads : req[t].pc = "idle" /\ open[t] = Null
    BY DEF Init, Idle
<1>4. \A g : NumbersOf(g) = 1..0
    BY DEF Init, NumbersOf
<1>5. Transactions
    BY <1>3 DEF Transactions, Written
<1>6. Sequence
    BY <1>3, <1>4 DEF Init, Sequence, Chosen
<1>7. Active = {}
    BY DEF Init, Active
<1>8. Counted
    BY <1>3, <1>7, FS_EmptySet DEF Init, Counted, Done, Chosen
<1> QED BY <1>2, <1>5, <1>6, <1>8 DEF IInv

LEMMA NextIInv ==
    ASSUME IInv, [Next]_vars
    PROVE  IInv'
<1>1. CASE UNCHANGED vars
    BY <1>1 DEF vars, IInv, TypeOK, Transactions, Sequence, Counted, Done, Active, Existing,
                NumbersOf
<1>2. ASSUME NEW g \in Groups, UpsertGroup(g) \/ DeleteGroup(g)
      PROVE  IInv'
    BY <1>2, UpsertGroupKeeps, DeleteGroupKeeps
<1>3. ASSUME NEW t \in Threads, NEW g \in Groups, NEW c \in Contents, CreateConfig(t, g, c)
      PROVE  IInv'
    <2> DEFINE r == [pc |-> "max", group |-> g, content |-> c]
    <2>1. r \in Reqs
        BY DEF Reqs, Creates
    <2>2. Begin(t, r)
        BY <1>3 DEF CreateConfig
    <2> QED BY <2>1, <2>2, BeginKeeps
<1>4. ASSUME NEW t \in Threads, NEW g \in Groups, NEW n \in Numbers, Rollback(t, g, n)
      PROVE  IInv'
    <2> DEFINE r == [pc |-> "repoint", group |-> g, number |-> n]
    <2>1. r \in Reqs
        BY DEF Reqs, Rollbacks
    <2>2. Begin(t, r) /\ n \in NumbersOf(g)
        BY <1>4 DEF Rollback
    <2> QED BY <2>1, <2>2, BeginKeeps
<1>5. ASSUME NEW t \in Threads, NEW a \in Agents, NEW g \in Groups \cup {Null, EmptyName},
             SetAgentGroup(t, a, g)
      PROVE  IInv'
    <2> DEFINE r == [pc |-> "assign", agent |-> a, group |-> g]
    <2>1. r \in Reqs
        BY DEF Reqs, Assigns
    <2>2. Begin(t, r)
        BY <1>5 DEF SetAgentGroup
    <2> QED BY <2>1, <2>2, BeginKeeps
<1>6. ASSUME NEW t \in Threads, Proceed(t) \/ Abort(t) \/ GiveUp(t)
      PROVE  IInv'
    BY <1>6, SelectNextKeeps, InsertKeeps, UpdateCurrentKeeps, CommitKeeps, RepointKeeps,
       AssignKeeps, AbortKeeps DEF Proceed
<1> QED BY <1>1, <1>2, <1>3, <1>4, <1>5, <1>6 DEF Next

(* Every step of the store keeps the inductive invariant.                   *)
THEOREM Invariance == Spec => []IInv
<1> QED BY InitIInv, NextIInv, PTL DEF Spec

(* Groups, versions, requests and transactions have their types; numbers    *)
(* stay within the requests made.                                           *)
THEOREM TypeCorrect == Spec => []TypeOK
<1>1. IInv => TypeOK
    BY DEF IInv
<1> QED BY <1>1, Invariance, PTL

-----------------------------------------------------------------------------
(* The refinement.  What VersionLog sees of a group.                        *)

LogOf(g) == IF g \in Existing THEN ListConfigVersions(g) ELSE Null

LEMMA LogType ==
    ASSUME TypeOK, NEW g \in Groups
    PROVE  /\ ListConfigVersions(g) # Null /\ DOMAIN ListConfigVersions(g) = NumbersOf(g)
           /\ LogOf(g) = Null <=> g \notin Existing
<1>1. NumbersOf(g) \subseteq 1..MaxRequests
    BY NumbersType DEF Numbers
<1>2. \A n : {v.content : v \in {w \in versions : w.group = g /\ w.number = n}} \subseteq Contents
    BY DEF TypeOK, Versions
<1>3. ListConfigVersions(g) \in [NumbersOf(g) -> SUBSET Contents]
    BY <1>2 DEF ListConfigVersions
<1>4. ListConfigVersions(g) # Null
    BY <1>1, <1>3, NullAssumption
<1> QED BY <1>3, <1>4 DEF LogOf

(* A step that leaves a group's row and its versions alone.                 *)
LEMMA Untouched ==
    ASSUME NEW g \in Groups, groups'[g] = groups[g],
           \A v : v.group = g => (v \in versions' <=> v \in versions)
    PROVE  /\ LogOf(g)' = LogOf(g) /\ GetCurrentConfig(g)' = GetCurrentConfig(g)
           /\ ListConfigVersions(g)' = ListConfigVersions(g)
<1>1. NumbersOf(g)' = NumbersOf(g)
    <2>1. {w \in versions' : w.group = g} = {w \in versions : w.group = g}
        OBVIOUS
    <2> QED BY <2>1 DEF NumbersOf
<1>2. ListConfigVersions(g)' = ListConfigVersions(g)
    <2>1. \A n : {w \in versions' : w.group = g /\ w.number = n}
                   = {w \in versions : w.group = g /\ w.number = n}
        OBVIOUS
    <2> QED BY <1>1, <2>1 DEF ListConfigVersions
<1>3. g \in Existing' <=> g \in Existing
    BY DEF Existing
<1> QED BY <1>1, <1>2, <1>3 DEF LogOf, GetCurrentConfig

(* The statements in which an operation takes effect.                       *)
LEMMA UpsertIsCreate ==
    ASSUME IInv, NEW g \in Groups, UpsertGroup(g)
    PROVE  Log!Create(g)
<1>1. /\ g \notin Existing /\ groups' = [groups EXCEPT ![g] = 0]
      /\ UNCHANGED <<versions, assigned, dropped>>
    BY DEF UpsertGroup
<1>2. groups[g] = Null /\ groups'[g] = 0 /\ 0 # Null
    BY <1>1, RequestsAssumption, NullAssumption DEF Existing, IInv, TypeOK
<1>3. \A h \in Groups : h # g =>
          LogOf(h)' = LogOf(h) /\ GetCurrentConfig(h)' = GetCurrentConfig(h)
    BY <1>1, Untouched DEF IInv, TypeOK
<1>4. NumbersOf(g)' = {}
    BY <1>1 DEF NumbersOf, IInv, Sequence
<1>5. LogOf(g) = Null /\ LogOf(g)' = [n \in {} |-> Null]
    <2>1. g \in Existing'
        BY <1>1, <1>2 DEF Existing
    <2>2. ListConfigVersions(g)' = [n \in {} |-> Null]
        BY <1>4 DEF ListConfigVersions
    <2> QED BY <1>1, <2>1, <2>2 DEF LogOf
<1>6. GetCurrentConfig(g)' = GetCurrentConfig(g)
    BY <1>2 DEF GetCurrentConfig
<1>7. [h \in Groups |-> LogOf(h)'] = [[h \in Groups |-> LogOf(h)] EXCEPT ![g] = [n \in {} |-> Null]]
    BY <1>3, <1>5
<1> QED BY <1>1, <1>3, <1>5, <1>6, <1>7 DEF Log!Create, LogOf

LEMMA DeleteIsDrop ==
    ASSUME IInv, NEW g \in Groups, DeleteGroup(g)
    PROVE  Log!Drop(g)
<1>1. /\ g \in Existing /\ g # Default
      /\ groups' = [groups EXCEPT ![g] = Null]
      /\ versions' = {v \in versions : v.group # g}
      /\ assigned' = [a \in Agents |-> IF assigned[a] = g THEN Null ELSE assigned[a]]
      /\ dropped' = dropped \cup {g}
    BY DEF DeleteGroup
<1>2. groups'[g] = Null /\ \A h \in Groups : h # g => groups'[h] = groups[h]
    BY <1>1 DEF IInv, TypeOK
<1>3. \A h \in Groups : h # g =>
          LogOf(h)' = LogOf(h) /\ GetCurrentConfig(h)' = GetCurrentConfig(h)
    BY <1>1, <1>2, Untouched
<1>4. LogOf(g) # Null /\ LogOf(g)' = Null
    BY <1>1, <1>2, LogType DEF IInv, LogOf, Existing
<1>5. GetCurrentConfig(g)' = 0
    BY <1>2 DEF GetCurrentConfig
<1>6. [h \in Groups |-> LogOf(h)'] = [[h \in Groups |-> LogOf(h)] EXCEPT ![g] = Null]
    BY <1>3, <1>4
<1>7. [h \in Groups |-> GetCurrentConfig(h)']
          = [[h \in Groups |-> GetCurrentConfig(h)] EXCEPT ![g] = 0]
    BY <1>3, <1>5
<1> QED BY <1>1, <1>4, <1>6, <1>7 DEF Log!Drop, LogOf

LEMMA CommitIsPublish ==
    ASSUME IInv, NEW t \in Threads, Commit(t)
    PROVE  \E g \in Groups, n \in Numbers, c \in {{c} : c \in Contents} : Log!Publish(g, n, c)
<1>1. PICK g \in Groups, n \in Numbers, c \in Contents :
          /\ req[t].group = g /\ req[t].number = n /\ req[t].pc = "commit"
          /\ open[t] # Null /\ g \in Existing /\ n \notin NumbersOf(g)
          /\ versions' = versions \cup {[group |-> g, number |-> n, content |-> c]}
          /\ groups' = [groups EXCEPT ![g] = n]
          /\ open' = [open EXCEPT ![t] = Null] /\ req' = [req EXCEPT ![t] = Idle]
          /\ UNCHANGED <<dropped, requests, assigned>>
          /\ g \notin dropped => NumbersOf(g) = 1..(n - 1)
    BY CommitStep
<1> DEFINE new == [group |-> g, number |-> n, content |-> c]
<1>2. /\ new.group = g /\ new.number = n /\ new.content = c
      /\ versions' = versions \cup {new}
    BY <1>1
<1> HIDE DEF new
<1>3. /\ groups'[g] = n /\ n # Null /\ \A h \in Groups : h # g => groups'[h] = groups[h]
      /\ g \in Existing'
    BY <1>1, RequestsAssumption, NullAssumption DEF IInv, TypeOK, Numbers, Existing
<1>4. \A h \in Groups : h # g =>
          LogOf(h)' = LogOf(h) /\ GetCurrentConfig(h)' = GetCurrentConfig(h)
    BY <1>2, <1>3, Untouched
<1>5. NumbersOf(g)' = NumbersOf(g) \cup {n}
    <2>1. {v.number : v \in {w \in versions' : w.group = g}} = NumbersOf(g) \cup {n}
        BY <1>2 DEF NumbersOf
    <2> QED BY <2>1 DEF NumbersOf
<1>6. ListConfigVersions(g)' = [m \in NumbersOf(g) \cup {n} |->
                                   IF m = n THEN {c} ELSE ListConfigVersions(g)[m]]
    <2>1. {v.content : v \in {w \in versions' : w.group = g /\ w.number = n}} = {c}
        <3>1. \A w \in versions : ~(w.group = g /\ w.number = n)
            BY <1>1 DEF NumbersOf
        <3> QED BY <1>2, <3>1
    <2>2. \A m \in NumbersOf(g) : m # n =>
              {w \in versions' : w.group = g /\ w.number = m}
                  = {w \in versions : w.group = g /\ w.number = m}
        BY <1>2
    <2>3. \A m \in NumbersOf(g) : ListConfigVersions(g)[m]
              = {v.content : v \in {w \in versions : w.group = g /\ w.number = m}}
        BY DEF ListConfigVersions
    <2>4. \A m \in NumbersOf(g) : m # n
        BY <1>1
    <2>5. [m \in NumbersOf(g) \cup {n} |->
                {v.content : v \in {w \in versions' : w.group = g /\ w.number = m}}]
            = [m \in NumbersOf(g) \cup {n} |->
                 IF m = n THEN {c} ELSE ListConfigVersions(g)[m]]
        BY <2>1, <2>2, <2>3, <2>4
    <2> QED BY <1>5, <2>5 DEF ListConfigVersions
<1>7. LogOf(g) # Null /\ LogOf(g) = ListConfigVersions(g) /\ DOMAIN LogOf(g) = NumbersOf(g)
    BY <1>1, LogType DEF IInv, LogOf
<1>8. LogOf(g)' = [m \in DOMAIN LogOf(g) \cup {n} |-> IF m = n THEN {c} ELSE LogOf(g)[m]]
    BY <1>3, <1>6, <1>7 DEF LogOf
<1>9. GetCurrentConfig(g)' = n
    BY <1>3, <1>5 DEF GetCurrentConfig
<1>10. [h \in Groups |-> LogOf(h)'] = [[h \in Groups |-> LogOf(h)] EXCEPT ![g] =
            [m \in DOMAIN @ \cup {n} |-> IF m = n THEN {c} ELSE @[m]]]
    BY <1>4, <1>8
<1>11. [h \in Groups |-> GetCurrentConfig(h)']
          = [[h \in Groups |-> GetCurrentConfig(h)] EXCEPT ![g] = n]
    BY <1>4, <1>9
<1>12. Log!Publish(g, n, {c})
    BY <1>1, <1>7, <1>10, <1>11 DEF Log!Publish, LogOf
<1> QED BY <1>12

LEMMA RepointIsRollback ==
    ASSUME IInv, NEW t \in Threads, Repoint(t)
    PROVE  [Log!Next]_(Log!vars)
<1>1. PICK g \in Groups, n \in Numbers : g = req[t].group /\ n = req[t].number
    BY RequestType, ReqType DEF Repoint
<1>2. /\ req[t].pc = "repoint" /\ UNCHANGED <<versions, assigned, dropped>>
      /\ groups' = IF g \in Existing THEN [groups EXCEPT ![g] = n] ELSE groups
    BY <1>1 DEF Repoint, Continue
<1>3. n # Null /\ n # 0 /\ n \in 0..MaxRequests
    BY RequestsAssumption, NullAssumption DEF Numbers
<1>4. CASE g \notin Existing
    <2>1. \A h \in Groups :
              LogOf(h)' = LogOf(h) /\ GetCurrentConfig(h)' = GetCurrentConfig(h)
        BY <1>2, <1>4, Untouched
    <2> QED BY <1>2, <2>1 DEF Log!vars, LogOf
<1>5. CASE g \in Existing
    <2>1. groups'[g] = n /\ \A h \in Groups : h # g => groups'[h] = groups[h]
        BY <1>2, <1>5 DEF IInv, TypeOK
    <2>2. \A h \in Groups : h # g =>
              LogOf(h)' = LogOf(h) /\ GetCurrentConfig(h)' = GetCurrentConfig(h)
        BY <1>2, <2>1, Untouched
    <2>3. NumbersOf(g)' = NumbersOf(g) /\ ListConfigVersions(g)' = ListConfigVersions(g)
        BY <1>2 DEF NumbersOf, ListConfigVersions
    <2>4. LogOf(g)' = LogOf(g)
        BY <1>3, <1>5, <2>1, <2>3 DEF LogOf, Existing
    <2>5. LogOf(g) # Null /\ DOMAIN LogOf(g) = NumbersOf(g)
        BY <1>5, LogType DEF IInv, LogOf
    <2>6. GetCurrentConfig(g)' = IF n \in NumbersOf(g) THEN n ELSE Lost
        BY <1>3, <2>1, <2>3 DEF GetCurrentConfig
    <2>7. n \notin NumbersOf(g) => g \in dropped
        BY <1>1, <1>2 DEF IInv, Sequence
    <2>8. [h \in Groups |-> LogOf(h)'] = [h \in Groups |-> LogOf(h)]
        BY <2>2, <2>4
    <2>9. [h \in Groups |-> GetCurrentConfig(h)'] = [[h \in Groups |-> GetCurrentConfig(h)]
              EXCEPT ![g] = IF n \in NumbersOf(g) THEN n ELSE Lost]
        BY <2>2, <2>6
    <2>10. CASE n \in NumbersOf(g)
        <3>1. Log!Rollback(g, n)
            BY <1>2, <2>5, <2>8, <2>9, <2>10 DEF Log!Rollback, LogOf
        <3> QED BY <2>5, <2>10, <3>1 DEF Log!Next, LogOf
    <2>11. CASE n \notin NumbersOf(g)
        <3>1. Log!Lose(g)
            BY <1>2, <2>5, <2>7, <2>8, <2>9, <2>11 DEF Log!Lose, LogOf
        <3> QED BY <3>1 DEF Log!Next
    <2> QED BY <2>10, <2>11
<1> QED BY <1>4, <1>5

LEMMA AssignIsAssign ==
    ASSUME IInv, NEW t \in Threads, Assign(t)
    PROVE  [Log!Next]_(Log!vars)
<1>1. PICK a \in Agents, g \in Groups \cup {Null, EmptyName} :
          a = req[t].agent /\ g = req[t].group
    BY RequestType, ReqType DEF Assign
<1>2. /\ UNCHANGED <<groups, versions, dropped>>
      /\ assigned' = IF g \in Existing \cup {Null} THEN [assigned EXCEPT ![a] = g] ELSE assigned
    BY <1>1 DEF Assign, Continue
<1>3. \A h \in Groups : LogOf(h)' = LogOf(h) /\ GetCurrentConfig(h)' = GetCurrentConfig(h)
    BY <1>2, Untouched
<1>4. CASE g \in Existing \cup {Null}
    <2>1. g \in Groups \cup {Null} /\ (g # Null => LogOf(g) # Null)
        BY <1>4, LogType DEF Existing, IInv
    <2>2. Log!Assign(a, g)
        BY <1>2, <1>3, <1>4, <2>1 DEF Log!Assign, LogOf, Existing
    <2> QED BY <2>1, <2>2 DEF Log!Next
<1>5. CASE g \notin Existing \cup {Null}
    BY <1>2, <1>3, <1>5 DEF Log!vars, LogOf
<1> QED BY <1>4, <1>5

LEMMA InitLog ==
    ASSUME Init
    PROVE  Log!Init
<1>1. Existing = {Default} /\ versions = {} /\ \A g : NumbersOf(g) = {}
    BY RequestsAssumption, NullAssumption, NamesAssumption DEF Init, Existing, NumbersOf
<1>2. \A g : ListConfigVersions(g) = [n \in {} |-> Null]
    BY <1>1 DEF ListConfigVersions
<1>3. \A g \in Groups : GetCurrentConfig(g) = 0
    BY DEF Init, GetCurrentConfig
<1> QED BY <1>1, <1>2, <1>3 DEF Init, Log!Init

LEMMA NextLog ==
    ASSUME IInv, [Next]_vars
    PROVE  [Log!Next]_(Log!vars)
<1>1. ASSUME UNCHANGED <<groups, versions, assigned, dropped>>
      PROVE  UNCHANGED Log!vars
    <2>1. \A h \in Groups : LogOf(h)' = LogOf(h) /\ GetCurrentConfig(h)' = GetCurrentConfig(h)
        BY <1>1, Untouched
    <2> QED BY <1>1, <2>1 DEF Log!vars, LogOf
<1>2. ASSUME NEW g \in Groups, UpsertGroup(g) \/ DeleteGroup(g)
      PROVE  Log!Next
    BY <1>2, UpsertIsCreate, DeleteIsDrop DEF Log!Next
<1>3. ASSUME NEW t \in Threads, NEW r, Begin(t, r)
      PROVE  UNCHANGED Log!vars
    BY <1>1, <1>3 DEF Begin
<1>4. ASSUME NEW t \in Threads, SelectNext(t) \/ Insert(t) \/ UpdateCurrent(t) \/ Abort(t) \/ GiveUp(t)
      PROVE  UNCHANGED Log!vars
    <2>1. UNCHANGED <<groups, versions, assigned, dropped>>
        BY <1>4 DEF SelectNext, Insert, UpdateCurrent, Abort, GiveUp, Continue
    <2> QED BY <1>1, <2>1
<1>5. ASSUME NEW t \in Threads, Commit(t)
      PROVE  Log!Next
    BY <1>5, CommitIsPublish DEF Log!Next
<1>6. ASSUME NEW t \in Threads, Proceed(t) \/ Abort(t) \/ GiveUp(t)
      PROVE  [Log!Next]_(Log!vars)
    BY <1>4, <1>5, <1>6, RepointIsRollback, AssignIsAssign DEF Proceed
<1>7. CASE UNCHANGED vars
    BY <1>1, <1>7 DEF vars
<1>8. ASSUME NEW t \in Threads, NEW g, NEW x,
             CreateConfig(t, g, x) \/ Rollback(t, g, x) \/ SetAgentGroup(t, x, g)
      PROVE  UNCHANGED Log!vars
    BY <1>3, <1>8 DEF CreateConfig, Rollback, SetAgentGroup
<1> QED BY <1>2, <1>6, <1>7, <1>8 DEF Next

(* CreateConfigVersion, DeleteGroup, roll backs and assignments, statement  *)
(* by statement, behave as the atomic operations of VersionLog.             *)
THEOREM Implements == Spec => ImplementsVersionLog
<1> QED BY InitLog, NextLog, Invariance, PTL DEF Spec, ImplementsVersionLog, Log!Spec
=============================================================================
