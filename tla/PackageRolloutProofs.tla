------------------------ MODULE PackageRolloutProofs ------------------------
(* Package roll-out proved for any packages, contents, goroutines, and any  *)
(* number of operations and faults: its types, and that no file goes back   *)
(* to an older content.                                                     *)
EXTENDS PackageRollout, TLAPS

(* Nothing is newer than the newest upload, and while no operator puts an   *)
(* older content back, what the server has is the newest.                   *)
Uploads ==
    /\ \A p \in Packages : local.file[p] \in Contents => local.file[p] <= newest[p]
    /\ \A p \in Packages : catalogue[p] <= newest[p]
    /\ ~reverted => \A p \in Packages : catalogue[p] \in {None, newest[p]}

IInv == TypeOK /\ Uploads

\* No file goes back in a step.
Forward ==
    \A p \in Packages :
        /\ ~reverted'
        /\ local.file[p] \in Contents /\ local'.file[p] \in Contents
        => local'.file[p] >= local.file[p]

-----------------------------------------------------------------------------
(* Types of what the steps make of the records.                             *)

Files == [Packages -> Contents \cup {None, Partial}]

LEMMA FieldTypes ==
    /\ NoOffer \in Offers /\ NoOffer \in Files /\ Idle \in Syncs
    /\ \A f \in Files : Fresh(f) \in Locals /\ Fresh(f).file = f
    BY DEF NoOffer, Offers, Files, Idle, Syncs, Fresh, Locals

LEMMA LocalField ==
    ASSUME NEW l \in Locals
    PROVE  /\ l.known \subseteq Packages /\ l.state \in Offers /\ l.allHash \in Offers
           /\ l.file \in Files
           /\ \A x \in SUBSET Packages : LET k == [l EXCEPT !.known = x] IN
                  k \in Locals /\ k.known = x /\ k.state = l.state /\ k.file = l.file
           /\ \A x \in Offers : LET k == [l EXCEPT !.state = x] IN
                  k \in Locals /\ k.known = l.known /\ k.state = x /\ k.file = l.file
           /\ \A x \in Offers : LET k == [l EXCEPT !.allHash = x] IN
                  k \in Locals /\ k.file = l.file
           /\ \A x \in Files : LET k == [l EXCEPT !.file = x] IN
                  k \in Locals /\ k.file = x
    BY DEF Locals, Files

LEMMA SyncField ==
    ASSUME NEW s \in Syncs
    PROVE  /\ s.offer \in Offers /\ s.todo \subseteq Packages
           /\ \A x \in {"idle", "wait", "run"} : LET k == [s EXCEPT !.pc = x] IN
                  k \in Syncs /\ k.offer = s.offer /\ k.todo = s.todo
           /\ \A x \in Offers : LET k == [s EXCEPT !.offer = x] IN
                  k \in Syncs /\ k.offer = x /\ k.todo = s.todo
           /\ \A x \in SUBSET Packages : LET k == [s EXCEPT !.todo = x] IN
                  k \in Syncs /\ k.offer = s.offer /\ k.todo = x
           /\ \A x \in BOOLEAN : LET k == [s EXCEPT !.failed = x] IN
                  k \in Syncs /\ k.offer = s.offer /\ k.todo = s.todo
    BY DEF Syncs

LEMMA Delivered ==
    ASSUME TypeOK, NEW offer \in Offers, Deliver(offer)
    PROVE  sync' \in [Goroutines -> Syncs]
<1>1. CASE UNCHANGED sync
    BY <1>1 DEF TypeOK
<1>2. CASE \E g \in Goroutines :
              sync' = [sync EXCEPT ![g] = [Idle EXCEPT !.pc = "wait", !.offer = offer]]
    <2>1. PICK g \in Goroutines :
              sync' = [sync EXCEPT ![g] = [Idle EXCEPT !.pc = "wait", !.offer = offer]]
        BY <1>2
    <2> DEFINE k1 == [Idle EXCEPT !.pc = "wait"]
               k2 == [k1 EXCEPT !.offer = offer]
    <2>2. k1 \in Syncs
        BY FieldTypes, SyncField
    <2> HIDE DEF k1
    <2>3. k2 \in Syncs
        BY <2>2, SyncField
    <2> HIDE DEF k2
    <2>4. sync' = [sync EXCEPT ![g] = k2]
        BY <2>1 DEF k1, k2
    <2> QED BY <2>3, <2>4 DEF TypeOK
<1> QED BY <1>1, <1>2 DEF Deliver

LEMMA AvailableType ==
    ASSUME NEW cat \in Offers, NEW names \in SUBSET Packages
    PROVE  Available(cat, names) \in Offers
    BY DEF Available, Offers

-----------------------------------------------------------------------------
(* The server's steps leave the agent's files alone.                        *)

LEMMA FilesKept ==
    ASSUME TypeOK, local' = local
    PROVE  Forward
<1>1. \A p \in Packages : local.file[p] \in Contents => local.file[p] \in Nat
    BY DEF Contents
<1> QED BY <1>1 DEF Forward

LEMMA OfferSteps ==
    ASSUME IInv, Heartbeat \/ Report
    PROVE  IInv' /\ Forward
<1>1. Deliver(Wanted) /\ UNCHANGED <<server, local, provided, torn, ops, faults>>
    BY DEF Heartbeat, Report
<1>2. Wanted \in Offers
    BY AvailableType DEF IInv, TypeOK, Wanted, Names
<1>3. sync' \in [Goroutines -> Syncs]
    BY <1>1, <1>2, Delivered DEF IInv
<1>4. TypeOK'
    BY <1>1, <1>3 DEF IInv, TypeOK, server, Names
<1>5. Uploads'
    BY <1>1 DEF IInv, Uploads, server
<1> QED BY <1>1, <1>4, <1>5, FilesKept DEF IInv

LEMMA OperateType ==
    ASSUME TypeOK, Operate
    PROVE  ops' \in 0..MaxOps /\ UNCHANGED <<local, provided, torn, faults>>
    BY BoundsAssumption DEF TypeOK, Operate

LEMMA UpsertKeeps ==
    ASSUME IInv, NEW p \in Packages, NEW c \in Contents, UpsertPackage(p, c)
    PROVE  IInv' /\ Forward
<1>1. /\ catalogue' = [catalogue EXCEPT ![p] = c]
      /\ newest' = [newest EXCEPT ![p] = IF c > newest[p] THEN c ELSE newest[p]]
      /\ reverted' = (reverted \/ c < newest[p])
      /\ UNCHANGED <<assigned, sync, local, provided, torn, faults>>
      /\ ops' \in 0..MaxOps
    BY OperateType DEF UpsertPackage, IInv
<1>2. /\ catalogue \in Offers /\ newest \in Offers /\ reverted \in BOOLEAN
      /\ assigned \subseteq Names(catalogue)
    BY DEF IInv, TypeOK
<1>3. /\ \A q \in Packages : newest[q] \in Nat /\ catalogue[q] \in Nat
      /\ c \in Nat /\ c # None
    BY <1>2, BoundsAssumption DEF Offers, Contents, None
<1>4. catalogue' \in Offers /\ newest' \in Offers
    BY <1>1, <1>2 DEF Offers
<1>5. reverted' \in BOOLEAN
    <2>1. (c < newest[p]) \in BOOLEAN
        OBVIOUS
    <2> QED BY <1>1, <1>2, <2>1
<1>6. assigned' \subseteq Names(catalogue')
    BY <1>1, <1>2, <1>3 DEF Names, Offers
<1>7. TypeOK'
    BY <1>1, <1>4, <1>5, <1>6 DEF IInv, TypeOK, Names
<1>8. \A q \in Packages : newest'[q] \in Nat /\ newest'[q] >= newest[q] /\ catalogue'[q] <= newest'[q]
    BY <1>1, <1>2, <1>3 DEF Offers, IInv, Uploads
<1>9. \A q \in Packages : local.file[q] \in Contents => local.file[q] <= newest'[q]
    BY <1>3, <1>8 DEF IInv, Uploads, Contents
<1>10. ~reverted' => \A q \in Packages : catalogue'[q] \in {None, newest'[q]}
    <2>1. SUFFICES ASSUME ~reverted', NEW q \in Packages
                   PROVE  catalogue'[q] \in {None, newest'[q]}
        OBVIOUS
    <2>2. ~reverted /\ ~(c < newest[p])
        BY <1>1, <2>1
    <2>3. CASE q = p
        BY <1>1, <1>2, <1>3, <2>2, <2>3 DEF Offers
    <2>4. CASE q # p
        BY <1>1, <1>2, <2>2, <2>4 DEF Offers, IInv, Uploads
    <2> QED BY <2>3, <2>4
<1> QED BY <1>1, <1>7, <1>8, <1>9, <1>10, FilesKept DEF IInv, Uploads

LEMMA DeleteKeeps ==
    ASSUME IInv, NEW p \in Packages, DeletePackage(p)
    PROVE  IInv' /\ Forward
<1>1. /\ catalogue' = [catalogue EXCEPT ![p] = None]
      /\ assigned' = assigned \ {p}
      /\ UNCHANGED <<sync, newest, reverted, local, provided, torn, faults>>
      /\ ops' \in 0..MaxOps
    BY OperateType DEF DeletePackage, IInv
<1>2. catalogue \in Offers /\ newest \in Offers /\ assigned \subseteq Names(catalogue)
    BY DEF IInv, TypeOK
<1>3. catalogue' \in Offers /\ assigned' \subseteq Names(catalogue')
    BY <1>1, <1>2 DEF Offers, Names
<1>4. TypeOK'
    BY <1>1, <1>3 DEF IInv, TypeOK, Names
<1>5. Uploads'
    BY <1>1, <1>2, BoundsAssumption DEF IInv, Uploads, Offers, None, Contents
<1> QED BY <1>1, <1>4, <1>5, FilesKept DEF IInv

LEMMA AssignKeeps ==
    ASSUME IInv, NEW p \in Packages, AssignPackage(p) \/ UnassignPackage(p)
    PROVE  IInv' /\ Forward
<1>1. /\ assigned' \subseteq Names(catalogue)
      /\ Deliver(Available(catalogue, assigned'))
      /\ UNCHANGED <<catalogue, newest, reverted, local, provided, torn, faults>>
      /\ ops' \in 0..MaxOps
    BY OperateType DEF AssignPackage, UnassignPackage, IInv, TypeOK, Names
<1>2. Available(catalogue, assigned') \in Offers
    BY <1>1, AvailableType DEF IInv, TypeOK, Names
<1>3. sync' \in [Goroutines -> Syncs]
    BY <1>1, <1>2, Delivered DEF IInv
<1>4. TypeOK'
    BY <1>1, <1>3 DEF IInv, TypeOK, Names
<1>5. Uploads'
    BY <1>1 DEF IInv, Uploads
<1> QED BY <1>1, <1>4, <1>5, FilesKept DEF IInv

-----------------------------------------------------------------------------
(* The agent's steps leave the server alone, and what they put in place of  *)
(* a file is nothing, a part, or what the server has at that moment.        *)
LEMMA AgentKeeps ==
    ASSUME IInv, UNCHANGED server, local' \in Locals, provided' \in Offers,
           sync' \in [Goroutines -> Syncs], torn' \subseteq Packages,
           ops' = ops, faults' \in 0..MaxFaults,
           \A p \in Packages : local'.file[p] \in {local.file[p], None, Partial, catalogue[p]}
    PROVE  IInv' /\ Forward
<1>1. UNCHANGED <<catalogue, assigned, newest, reverted>>
    BY DEF server
<1>2. TypeOK'
    BY <1>1 DEF IInv, TypeOK, Names
<1>3. \A p \in Packages : newest[p] \in Nat /\ catalogue[p] \in Contents \cup {None}
    BY DEF IInv, TypeOK, Offers, Contents, None
<1>4. None \notin Contents /\ Partial \notin Contents /\ \A c \in Contents : c \in Nat
    BY BoundsAssumption DEF None, Partial, Contents
<1>5. \A p \in Packages : local'.file[p] \in Contents =>
          local'.file[p] \in {local.file[p], catalogue[p]}
    BY <1>4
<1>6. \A p \in Packages : local'.file[p] \in Contents => local'.file[p] <= newest[p]
    BY <1>5 DEF IInv, Uploads
<1>7. Uploads'
    BY <1>1, <1>6 DEF IInv, Uploads
<1>8. ASSUME NEW p \in Packages, ~reverted',
             local.file[p] \in Contents, local'.file[p] \in Contents
      PROVE  local'.file[p] >= local.file[p]
    <2>1. CASE local'.file[p] = local.file[p]
        BY <1>4, <1>8, <2>1
    <2>2. CASE local'.file[p] = catalogue[p]
        <3>1. catalogue[p] = newest[p]
            BY <1>1, <1>4, <1>8, <2>2 DEF IInv, Uploads
        <3>2. local.file[p] <= newest[p]
            BY <1>8 DEF IInv, Uploads
        <3> QED BY <1>3, <1>4, <1>8, <2>2, <3>1, <3>2
    <2> QED BY <1>5, <1>8, <2>1, <2>2
<1> QED BY <1>2, <1>7, <1>8 DEF IInv, Forward

LEMMA AgentTypes ==
    ASSUME TypeOK
    PROVE  /\ local \in Locals /\ provided \in Offers /\ torn \subseteq Packages
           /\ sync \in [Goroutines -> Syncs] /\ faults \in 0..MaxFaults
           /\ catalogue \in Offers
    BY DEF TypeOK

LEMMA BeginSyncKeeps ==
    ASSUME IInv, NEW g \in Goroutines, BeginSync(g)
    PROVE  IInv' /\ Forward
<1> DEFINE offer == sync[g].offer
<1> TypeOK
    BY DEF IInv
<1>1. sync[g] \in Syncs /\ offer \in Offers
    BY AgentTypes, SyncField
<1>2. provided' = offer /\ UNCHANGED <<server, torn, ops, faults>>
    BY DEF BeginSync
<1>3. CASE local.allHash = offer
    <2>1. sync' = [sync EXCEPT ![g] = Idle] /\ local' = local
        BY <1>3 DEF BeginSync
    <2>2. sync' \in [Goroutines -> Syncs]
        BY <2>1, AgentTypes, FieldTypes
    <2> HIDE DEF offer
    <2> QED BY <1>1, <1>2, <2>1, <2>2, AgentTypes, AgentKeeps
<1>4. CASE local.allHash # offer
    <2> DEFINE s1 == [sync[g] EXCEPT !.pc = "run"]
               s2 == [s1 EXCEPT !.todo = Names(offer)]
               st == [p \in Packages |-> IF offer[p] = None THEN None ELSE local.state[p]]
               fl == [p \in Packages |->
                        IF p \in local.known /\ offer[p] = None THEN None ELSE local.file[p]]
               l1 == [local EXCEPT !.known = local.known \cap Names(offer)]
               l2 == [l1 EXCEPT !.state = st]
               l3 == [l2 EXCEPT !.file = fl]
    <2>1. local' = l3 /\ sync' = [sync EXCEPT ![g] = s2]
        BY <1>4 DEF BeginSync
    <2>2. s2 \in Syncs
        <3>1. Names(offer) \subseteq Packages
            BY DEF Names
        <3>2. s1 \in Syncs
            BY <1>1, SyncField
        <3> HIDE DEF s1, offer
        <3> QED BY <3>1, <3>2, SyncField
    <2>3. st \in Offers /\ fl \in Files
        <3>1. local.state \in Offers /\ local.file \in Files
            BY AgentTypes, LocalField
        <3> QED BY <3>1 DEF Offers, Files
    <2>4. \A p \in Packages : fl[p] \in {local.file[p], None}
        OBVIOUS
    <2>5. l1 \in Locals
        BY AgentTypes, LocalField
    <2> HIDE DEF l1, st, fl
    <2>6. l2 \in Locals
        BY <2>3, <2>5, LocalField
    <2> HIDE DEF l2
    <2>7. l3 \in Locals /\ l3.file = fl
        BY <2>3, <2>6, LocalField
    <2> HIDE DEF l3, s2, offer
    <2>8. sync' \in [Goroutines -> Syncs]
        BY <2>1, <2>2, AgentTypes
    <2> QED BY <1>1, <1>2, <2>1, <2>4, <2>7, <2>8, AgentTypes, AgentKeeps
<1> QED BY <1>3, <1>4

(* A package is recorded with the hash offered and the file that is there.  *)
LEMMA RecordStep ==
    ASSUME TypeOK, NEW p \in Packages, NEW offer \in Offers,
           NEW file \in Contents \cup {None, Partial}, Record(p, offer, file)
    PROVE  /\ local' \in Locals /\ torn' \subseteq Packages
           /\ local'.file[p] = file
           /\ \A q \in Packages : q # p => local'.file[q] = local.file[q]
<1> DEFINE st == [local.state EXCEPT ![p] = offer[p]]
           fl == [local.file EXCEPT ![p] = file]
           l1 == [local EXCEPT !.known = local.known \cup {p}]
           l2 == [l1 EXCEPT !.state = st]
           l3 == [l2 EXCEPT !.file = fl]
<1>1. /\ local \in Locals /\ torn \subseteq Packages /\ local.known \subseteq Packages
      /\ local.state \in Offers /\ local.file \in Files
    BY AgentTypes, LocalField
<1>2. l1 \in Locals /\ l1.state = local.state /\ l1.file = local.file
    BY <1>1, LocalField
<1>3. st \in Offers /\ fl \in Files
    BY <1>1 DEF Offers, Files
<1>4. local' = [l1 EXCEPT !.state[p] = offer[p], !.file[p] = file]
    BY DEF Record
<1>5. fl[p] = file /\ \A q \in Packages : q # p => fl[q] = local.file[q]
    BY <1>1 DEF Files
<1> HIDE DEF l1
<1>6. l2 \in Locals /\ l2.file = local.file
    BY <1>2, <1>3, LocalField
<1>7. local' = l3
    BY <1>2, <1>4, <1>6
<1> HIDE DEF l2, fl, st
<1>8. l3 \in Locals /\ l3.file = fl
    BY <1>3, <1>6, LocalField
<1> QED BY <1>1, <1>5, <1>7, <1>8 DEF Record

(* A goroutine has dealt with a package, and perhaps failed.                *)
LEMMA DoneType ==
    ASSUME TypeOK, NEW g \in Goroutines, NEW p \in Packages
    PROVE  /\ [sync EXCEPT ![g].todo = @ \ {p}] \in [Goroutines -> Syncs]
           /\ [sync EXCEPT ![g].todo = @ \ {p}, ![g].failed = TRUE] \in [Goroutines -> Syncs]
<1> DEFINE s1 == [sync[g] EXCEPT !.todo = @ \ {p}]
           s2 == [s1 EXCEPT !.failed = TRUE]
<1>1. sync[g] \in Syncs /\ sync[g].todo \subseteq Packages
    BY AgentTypes, SyncField
<1>2. s1 \in Syncs
    BY <1>1, SyncField
<1>3. s2 \in Syncs
    <2> HIDE DEF s1
    <2> QED BY <1>2, SyncField
<1>4. [sync EXCEPT ![g] = s1] \in [Goroutines -> Syncs] /\ [sync EXCEPT ![g] = s2] \in [Goroutines -> Syncs]
    BY <1>2, <1>3, AgentTypes
<1>5. [sync EXCEPT ![g].todo = @ \ {p}, ![g].failed = TRUE] = [sync EXCEPT ![g] = s2]
    BY AgentTypes
<1> QED BY <1>4, <1>5

LEMMA DownloadKeeps ==
    ASSUME IInv, NEW g \in Goroutines, NEW p \in Packages,
           SkipDownload(g, p) \/ Download(g, p)
    PROVE  IInv' /\ Forward
<1> TypeOK
    BY DEF IInv
<1>1. PICK offer \in Offers : offer = sync[g].offer
    BY AgentTypes, SyncField
<1>2. /\ sync' = [sync EXCEPT ![g].todo = @ \ {p}]
      /\ UNCHANGED <<server, provided, ops, faults>>
      /\ \/ UNCHANGED <<local, torn>>
         \/ \E file \in {local.file[p], catalogue[p]} : Record(p, offer, file)
    BY <1>1 DEF SkipDownload, Download
<1>3. sync' \in [Goroutines -> Syncs]
    BY <1>2, DoneType
<1>4. /\ local.file[p] \in Contents \cup {None, Partial}
      /\ catalogue[p] \in Contents \cup {None, Partial}
    BY AgentTypes, LocalField DEF Files, Offers
<1>5. /\ local' \in Locals /\ torn' \subseteq Packages
      /\ \A q \in Packages : local'.file[q] \in {local.file[q], None, Partial, catalogue[q]}
    <2>1. CASE UNCHANGED <<local, torn>>
        BY <2>1, AgentTypes
    <2>2. CASE \E file \in {local.file[p], catalogue[p]} : Record(p, offer, file)
        BY <1>4, <2>2, RecordStep
    <2> QED BY <1>2, <2>1, <2>2
<1> QED BY <1>2, <1>3, <1>5, AgentTypes, AgentKeeps

LEMMA DownloadFailsKeeps ==
    ASSUME IInv, NEW g \in Goroutines, NEW p \in Packages, DownloadFails(g, p)
    PROVE  IInv' /\ Forward
<1> TypeOK
    BY DEF IInv
<1> DEFINE l1 == [local EXCEPT !.known = local.known \cup {p}]
<1>1. /\ sync' = [sync EXCEPT ![g].todo = @ \ {p}, ![g].failed = TRUE]
      /\ torn' = torn \cup {p} /\ UNCHANGED <<server, provided, ops>>
      /\ \/ local' = l1 /\ faults' = faults
         \/ Fault /\ \E file \in {local.file[p], Partial} : local' = [l1 EXCEPT !.file[p] = file]
    BY DEF DownloadFails
<1>2. sync' \in [Goroutines -> Syncs]
    BY <1>1, DoneType
<1>3. local.file \in Files /\ l1 \in Locals /\ l1.file = local.file
    BY AgentTypes, LocalField
<1>4. faults' \in 0..MaxFaults
    <2>1. faults \in 0..MaxFaults /\ MaxFaults \in Nat
        BY AgentTypes, BoundsAssumption
    <2>2. faults' = faults \/ (faults < MaxFaults /\ faults' = faults + 1)
        BY <1>1 DEF Fault
    <2> QED BY <2>1, <2>2
<1> HIDE DEF l1
<1>5. /\ local' \in Locals
      /\ \A q \in Packages : local'.file[q] \in {local.file[q], Partial}
    <2>1. CASE local' = l1
        BY <1>3, <2>1
    <2>2. ASSUME NEW file \in {local.file[p], Partial}, local' = [l1 EXCEPT !.file[p] = file]
          PROVE  /\ local' \in Locals
                 /\ \A q \in Packages : local'.file[q] \in {local.file[q], Partial}
        <3> DEFINE fl == [local.file EXCEPT ![p] = file]
        <3>1. fl \in Files /\ \A q \in Packages : fl[q] \in {local.file[q], Partial}
            BY <1>3 DEF Files
        <3>2. local' = [l1 EXCEPT !.file = fl]
            BY <1>3, <2>2
        <3> HIDE DEF fl
        <3> QED BY <1>3, <3>1, <3>2, LocalField
    <2> QED BY <1>1, <2>1, <2>2
<1> QED BY <1>1, <1>2, <1>4, <1>5, AgentTypes, AgentKeeps

LEMMA EndSyncKeeps ==
    ASSUME IInv, NEW g \in Goroutines, EndSync(g)
    PROVE  IInv' /\ Forward
<1> TypeOK
    BY DEF IInv
<1>1. /\ local' = IF sync[g].failed THEN local ELSE [local EXCEPT !.allHash = sync[g].offer]
      /\ torn' = IF sync[g].failed THEN torn \cup (Packages \ Names(sync[g].offer))
                   ELSE torn \cap Names(sync[g].offer)
      /\ sync' = [sync EXCEPT ![g] = Idle] /\ UNCHANGED <<server, provided, ops, faults>>
    BY DEF EndSync
<1>2. sync' \in [Goroutines -> Syncs] /\ torn' \subseteq Packages
    BY <1>1, AgentTypes, FieldTypes
<1>3. local' \in Locals /\ local'.file = local.file
    BY <1>1, AgentTypes, LocalField, SyncField
<1> QED BY <1>1, <1>2, <1>3, AgentTypes, AgentKeeps

LEMMA RestartKeeps ==
    ASSUME IInv, AgentRestart
    PROVE  IInv' /\ Forward
<1> TypeOK
    BY DEF IInv
<1>1. /\ local' = Fresh(local.file) /\ provided' = NoOffer /\ torn' = {}
      /\ sync' = [g \in Goroutines |-> Idle] /\ UNCHANGED <<server, ops>>
      /\ faults < MaxFaults /\ faults' = faults + 1
    BY DEF AgentRestart, Fault
<1>2. local' \in Locals /\ local'.file = local.file /\ provided' \in Offers
    BY <1>1, AgentTypes, LocalField, FieldTypes
<1>3. faults' \in 0..MaxFaults
    BY <1>1, AgentTypes, BoundsAssumption
<1>4. sync' \in [Goroutines -> Syncs]
    BY <1>1, FieldTypes
<1> QED BY <1>1, <1>2, <1>3, <1>4, AgentKeeps

-----------------------------------------------------------------------------
LEMMA InitIInv ==
    ASSUME Init
    PROVE  IInv
<1>1. 0 \in 0..MaxOps /\ 0 \in 0..MaxFaults
    BY BoundsAssumption
<1>2. TypeOK
    BY <1>1, FieldTypes DEF Init, TypeOK
<1>3. \A p \in Packages : NoOffer[p] = None /\ None \notin Contents
    BY BoundsAssumption DEF NoOffer, None, Contents
<1>4. local.file = NoOffer
    BY FieldTypes DEF Init
<1>5. Uploads
    BY <1>3, <1>4 DEF Init, Uploads, None
<1> QED BY <1>2, <1>5 DEF IInv

LEMMA NextIInv ==
    ASSUME IInv, [Next]_vars
    PROVE  IInv' /\ Forward
<1>1. CASE UNCHANGED vars
    <2>1. IInv'
        BY <1>1 DEF vars, IInv, TypeOK, Uploads, Names
    <2> QED BY <1>1, <2>1, FilesKept DEF vars, IInv
<1>2. CASE Admin
    BY <1>2, UpsertKeeps, DeleteKeeps, AssignKeeps DEF Admin
<1>3. ASSUME NEW g \in Goroutines, SyncSteps(g)
      PROVE  IInv' /\ Forward
    BY <1>3, BeginSyncKeeps, EndSyncKeeps, DownloadKeeps, DownloadFailsKeeps DEF SyncSteps
<1> QED BY <1>1, <1>2, <1>3, OfferSteps, RestartKeeps DEF Next

(* Every step of server and agent keeps the inductive invariant.            *)
THEOREM Invariance == Spec => []IInv
<1>1. IInv /\ [Next]_vars => IInv'
    BY NextIInv
<1> QED BY <1>1, InitIInv, PTL DEF Spec

(* Catalogue, assignments, recorded states and goroutines have their types; *)
(* nothing is assigned that is not in the catalogue.                        *)
THEOREM TypeCorrect == Spec => []TypeOK
<1>1. IInv => TypeOK
    BY DEF IInv
<1> QED BY <1>1, Invariance, PTL

(* Offers, goroutines and downloads in any order put no older content in    *)
(* place of a newer one, unless an operator does.                           *)
THEOREM ForwardOnly == Spec => FilesForward
<1>1. IInv /\ [Next]_vars => [Forward]_vars
    BY NextIInv
<1> QED BY <1>1, Invariance, PTL DEF Spec, FilesForward, Forward
=============================================================================
