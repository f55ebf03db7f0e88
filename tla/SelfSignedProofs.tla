-------------------------- MODULE SelfSignedProofs --------------------------
(***************************************************************************)
(* Theorems about SelfSigned, for every value of its constants: what a     *)
(* start serves, whatever earlier starts left in DataDir.                  *)
(***************************************************************************)
EXTENDS SelfSigned, TLAPS

\* The pair of generation g is in DataDir, complete.
Whole(g) == disk["server.crt"] = g /\ disk["server.key"] = g

\* Files are made in the order of Paths and removed together.
InOrder == integrity = "intact" =>
    /\ disk["ca.crt"] = Missing => disk["ca.key"] = Missing
    /\ disk["ca.key"] = Missing => disk["server.crt"] = Missing
    /\ disk["server.crt"] = Missing => disk["server.key"] = Missing

\* A complete pair lies beside its own CA, or is about to expire.
Vouched == integrity = "intact" =>
    \A g \in 1 .. made : Whole(g) => disk["ca.crt"] = g \/ ExpiringSoon(g)

Making == pc \in {"mkdir", "truncate", "write"}

\* New material is only made when what is there is no good any more.
Replacing ==
    dataDir /\ (pc = "generate" \/ Making) =>
      /\ integrity = "intact" => \A g \in 1 .. made : Whole(g) => ExpiringSoon(g)
      /\ persisted # 0 => ExpiringSoon(persisted)

\* While files are written, those before the current one are of the newest
\* generation and the others are not.
Written ==
    Making =>
      /\ dataDir /\ made > 0 /\ served = made /\ caPEM = made /\ bornAt[made] = now
      /\ \A i \in 1 .. 4 : i < file <=> disk[Paths[i]] = made
      /\ pc = "write" => disk[Paths[file]] = Torn

\* What was persisted stays until it is about to expire, or changes.
Persisted ==
    persisted # 0 =>
      /\ integrity = "intact"
      /\ \/ \A f \in Files : disk[f] = persisted
         \/ ExpiringSoon(persisted)

AtStart ==
    /\ pc \notin {"truncate", "write"} => file = 1
    /\ ~dataDir => persisted = 0 /\ pc # "load"

-----------------------------------------------------------------------------

\* The four files by name.
LEMMA FileNames ==
    /\ Paths[1] = "ca.crt" /\ Paths[2] = "ca.key"
    /\ Paths[3] = "server.crt" /\ Paths[4] = "server.key"
    /\ Files = {"ca.crt", "ca.key", "server.crt", "server.key"}
<1>1. /\ Paths[1] = "ca.crt" /\ Paths[2] = "ca.key"
      /\ Paths[3] = "server.crt" /\ Paths[4] = "server.key"
  BY DEF Paths
<1>2. 1 .. 4 = {1, 2, 3, 4}
  OBVIOUS
<1> QED
  BY <1>1, <1>2 DEF Files

\* Generations are numbered one after the other and only get older.
LEMMA Aging ==
    ASSUME TypeOK, Next
    PROVE  /\ made \in Nat /\ made' \in Nat /\ made <= made' /\ now \in Nat /\ now' \in Nat
           /\ \A g \in 1 .. made :
                /\ bornAt[g] \in Nat /\ bornAt'[g] = bornAt[g]
                /\ ExpiringSoon(g) => ExpiringSoon(g)'
           /\ bornAt' \in Seq(Nat)
<1>1. made \in Nat /\ now \in Nat /\ \A g \in 1 .. made : bornAt[g] \in Nat
  BY DEF TypeOK, made
<1>2. now' \in Nat /\ now <= now'
  BY <1>1 DEF Next, Start, LoadOK, LoadError, LoadNone, Generate, MkdirOK, Truncate,
     WriteOK, FallBack, Crash, PowerLoss, ClearDataDir, Tick
<1>3. CASE UNCHANGED bornAt
  BY <1>1, <1>2, <1>3, StoreAssumption DEF TypeOK, made, ExpiringSoon, NotAfter
<1>4. CASE bornAt' = Append(bornAt, now)
  <2>1. /\ made' = made + 1 /\ bornAt' \in Seq(Nat)
        /\ \A g \in 1 .. made : bornAt'[g] = bornAt[g]
    BY <1>1, <1>4 DEF TypeOK, made
  <2> QED
    BY <1>1, <1>2, <2>1, StoreAssumption DEF ExpiringSoon, NotAfter
<1> QED
  BY <1>3, <1>4 DEF Next, Start, LoadOK, LoadError, LoadNone, Generate, MkdirOK, Truncate,
     WriteOK, FallBack, Crash, PowerLoss, ClearDataDir, Tick

Contents == {Missing, Torn} \cup 1 .. made

LEMMA TypeStep ==
    ASSUME TypeOK, Next, Written
    PROVE  TypeOK'
<1>1. made \in Nat /\ made' \in Nat /\ made <= made' /\ now' \in Nat /\ bornAt' \in Seq(Nat)
  BY Aging
<1>2. /\ disk' \in [Files -> Contents']
      /\ medium' \in [Files -> SUBSET Contents']
      /\ integrity' \in {"intact", "damaged"}
  <2>0. /\ disk \in [Files -> Contents] /\ medium \in [Files -> SUBSET Contents]
        /\ integrity \in {"intact", "damaged"} /\ Contents \subseteq Contents'
    BY <1>1 DEF TypeOK, Contents
  <2>1. Paths[file] \in Files
    BY DEF TypeOK, Files
  <2>2. CASE UNCHANGED <<disk, medium, integrity>>
    BY <2>0, <2>2
  <2>3. CASE Truncate
    <3>1. Torn \in Contents
      BY DEF Contents
    <3> QED
      BY <2>0, <2>1, <2>3, <3>1 DEF Truncate, Put, history
  <2>4. CASE WriteOK
    <3>1. served \in Contents
      BY <1>1, <2>4 DEF WriteOK, Written, Making, TypeOK, Contents
    <3>2. integrity' \in {"intact", "damaged"}
      BY <2>0, <2>4 DEF WriteOK, history
    <3> QED
      BY <2>0, <2>1, <2>4, <3>1, <3>2 DEF WriteOK, Put
  <2>5. CASE ClearDataDir
    <3>1. Missing \in Contents
      BY DEF Contents
    <3> QED
      BY <2>0, <2>5, <3>1 DEF ClearDataDir, Empty
  <2>6. CASE PowerLoss
    <3>1. PICK kept \in medium[Paths[1]] \X medium[Paths[2]] \X medium[Paths[3]] \X medium[Paths[4]] :
            disk' = [f \in Files |-> kept[CHOOSE i \in 1 .. 4 : Paths[i] = f]]
      BY <2>6 DEF PowerLoss
    <3>2. \A i \in 1 .. 4 : Paths[i] \in Files
      BY DEF Files
    <3>3. \A i \in 1 .. 4 : kept[i] \in Contents
      BY <2>0, <3>1, <3>2
    <3>4. \A f \in Files : (CHOOSE i \in 1 .. 4 : Paths[i] = f) \in 1 .. 4
      BY DEF Files
    <3>5. disk' \in [Files -> Contents]
      BY <3>1, <3>3, <3>4
    <3>6. integrity' \in {"intact", "damaged"}
      BY <2>0, <2>6 DEF PowerLoss
    <3> QED
      BY <2>0, <2>6, <3>5, <3>6 DEF PowerLoss, Synced
  <2>7. CASE Tick
    BY <2>0, <2>7 DEF Tick, Synced, history
  <2> QED
    BY <2>2, <2>3, <2>4, <2>5, <2>6, <2>7
    DEF Next, Start, LoadOK, LoadError, LoadNone, Generate, MkdirOK, FallBack, Crash, files, history
<1>3. pc' \in PCs /\ dataDir' \in BOOLEAN /\ file' \in 1 .. 4
  <2>1. dataDir' = dataDir
    BY DEF Next, Start, LoadOK, LoadError, LoadNone, Generate, MkdirOK, Truncate,
       WriteOK, FallBack, Crash, PowerLoss, ClearDataDir, Tick
  <2>2. pc' \in PCs
    BY DEF TypeOK, PCs, Next, Start, LoadOK, LoadError, LoadNone, Generate, MkdirOK, Truncate,
       WriteOK, FallBack, Crash, PowerLoss, ClearDataDir, Tick, Serve, Down
  <2>3. file' \in 1 .. 4
    BY DEF TypeOK, Next, Start, LoadOK, LoadError, LoadNone, Generate, MkdirOK, Truncate,
       WriteOK, FallBack, Crash, PowerLoss, ClearDataDir, Tick, Serve, Down
  <2> QED
    BY <2>1, <2>2, <2>3 DEF TypeOK
<1>4. /\ served' \in 0 .. made' /\ caPEM' \in {0, Torn} \cup 1 .. made'
      /\ bootedAt' \in Nat /\ persisted' \in 0 .. made'
  <2>1. CASE LoadOK
    <3>1. /\ disk["server.crt"] \in 1 .. made
          /\ disk["ca.crt"] \in {Torn} \cup 1 .. made
      BY <2>1, FileNames DEF LoadOK, LoadResult, ServerFileMissing, PairOK, TypeOK
    <3> QED
      BY <1>1, <2>1, <3>1 DEF LoadOK, Serve, TypeOK
  <2>2. CASE Generate
    <3>1. made' = made + 1
      BY <2>2 DEF Generate, made, TypeOK
    <3> QED
      BY <1>1, <2>2, <3>1 DEF Generate, Serve, TypeOK
  <2>3. CASE Start \/ LoadNone \/ MkdirOK \/ Truncate \/ Tick
    BY <1>1, <2>3 DEF Start, LoadNone, MkdirOK, Truncate, Tick, TypeOK, memory, history
  <2>4. CASE LoadError \/ Crash \/ PowerLoss \/ ClearDataDir
    BY <1>1, <2>4 DEF LoadError, Crash, PowerLoss, ClearDataDir, Down, TypeOK, memory, history
  <2>5. CASE WriteOK \/ FallBack
    BY <1>1, <2>5 DEF WriteOK, FallBack, Serve, TypeOK, memory, history
  <2> QED
    BY <2>1, <2>2, <2>3, <2>4, <2>5 DEF Next
<1> QED
  BY <1>1, <1>2, <1>3, <1>4 DEF TypeOK, Contents

\* The invariant apart from the types and the properties.
Core == InOrder /\ Vouched /\ Replacing /\ Written /\ Persisted /\ AtStart

LEMMA CoreStep ==
    ASSUME TypeOK, Core, Next
    PROVE  Core'
<1> USE FileNames
<1>1. /\ made \in Nat /\ made' \in Nat /\ made <= made'
      /\ \A g \in 1 .. made :
           bornAt'[g] = bornAt[g] /\ (ExpiringSoon(g) => ExpiringSoon(g)')
  BY Aging
<1>2. /\ disk \in [Files -> {Missing, Torn} \cup 1 .. made]
      /\ persisted \in 0 .. made /\ file \in 1 .. 4 /\ Missing # Torn
      /\ Missing \notin Nat /\ Torn \notin Nat
  BY StoreAssumption DEF TypeOK
\* Steps that change neither the files nor what was made.
<1>3. ASSUME UNCHANGED <<dataDir, disk, bornAt, persisted, integrity>>
      PROVE  InOrder' /\ Vouched' /\ Persisted'
  <2>1. made' = made
    BY <1>3 DEF made
  <2>2. \A g \in 1 .. made : Whole(g)' = Whole(g)
    BY <1>3 DEF Whole
  <2> QED
    BY <1>1, <1>2, <1>3, <2>1, <2>2 DEF Core, InOrder, Vouched, Persisted
<1>4. CASE Start \/ LoadOK \/ LoadError \/ FallBack \/ Crash \/ Tick
  <2>1. UNCHANGED <<dataDir, disk, bornAt, persisted, integrity>>
    BY <1>4 DEF Start, LoadOK, LoadError, FallBack, Crash, Tick, files, history
  <2>2. \/ pc' \in {"down", "load", "serving"}
        \/ ~dataDir /\ pc' = "generate"
    BY <1>4 DEF Start, LoadOK, LoadError, FallBack, Crash, Tick, Serve, Down
  <2>3. ~(dataDir' /\ (pc' = "generate" \/ Making'))
    BY <2>1, <2>2 DEF Making
  <2>4. ~Making'
    BY <2>2 DEF Making
  <2>5. AtStart'
    BY <1>4, <2>1 DEF Core, AtStart, Start, LoadOK, LoadError, FallBack, Crash, Tick, Serve, Down
  <2> QED
    BY <1>3, <2>1, <2>3, <2>4, <2>5 DEF Core, Replacing, Written
<1>5. CASE LoadNone
  <2>1. /\ UNCHANGED <<now, dataDir, disk, bornAt, persisted, file, integrity>>
        /\ pc' = "generate" /\ pc = "load"
    BY <1>5 DEF LoadNone, files, history
  <2>2. integrity = "intact" => \A g \in 1 .. made : Whole(g) => ExpiringSoon(g)
    <3>1. ASSUME integrity = "intact", NEW g \in 1 .. made, Whole(g)
          PROVE  ExpiringSoon(g)
      <4>1. disk["server.crt"] = g /\ disk["server.key"] = g /\ g # Missing /\ g # Torn
        BY <1>1, <1>2, <3>1 DEF Whole
      <4>2. disk["ca.crt"] # Missing /\ disk["ca.key"] # Missing
        BY <3>1, <4>1 DEF Core, InOrder
      <4> QED
        BY <1>5, <4>1, <4>2 DEF LoadNone, LoadResult, ServerFileMissing, PairOK
    <3> QED
      BY <3>1
  <2>3. persisted # 0 => ExpiringSoon(persisted)
    <3>1. ASSUME persisted # 0, ~ExpiringSoon(persisted) PROVE FALSE
      <4>1. /\ persisted \in 1 .. made /\ \A f \in Files : disk[f] = persisted
            /\ integrity = "intact"
        BY <1>1, <1>2, <3>1 DEF Core, Persisted
      <4> QED
        BY <2>2, <3>1, <4>1 DEF Whole
    <3> QED
      BY <3>1
  <2>4. Replacing'
    <3>1. integrity' = "intact" => \A g \in 1 .. made' : Whole(g)' => ExpiringSoon(g)'
      BY <2>1, <2>2 DEF made, Whole, ExpiringSoon, NotAfter
    <3>2. persisted' # 0 => ExpiringSoon(persisted)'
      BY <2>1, <2>3 DEF ExpiringSoon, NotAfter
    <3> QED
      BY <3>1, <3>2 DEF Replacing
  <2>5. Written' /\ AtStart'
    BY <2>1 DEF Written, Making, AtStart, Core
  <2> QED
    BY <1>3, <2>1, <2>4, <2>5 DEF Core
<1>6. CASE Generate
  <2>1. /\ made' = made + 1 /\ bornAt'[made'] = now /\ UNCHANGED <<now, dataDir, disk, persisted, integrity>>
        /\ pc = "generate" /\ file' = file
    BY <1>6 DEF Generate, Serve, made, TypeOK, Core, AtStart, files
  <2>2. ~Whole(made + 1) /\ \A f \in Files : disk[f] # made + 1
    BY <1>1, <1>2 DEF Whole
  <2>3. \A g \in 1 .. made' : Whole(g)' => g \in 1 .. made /\ Whole(g)
    BY <1>1, <2>1, <2>2 DEF Whole
  <2>4. InOrder' /\ Vouched'
    BY <1>1, <2>1, <2>3 DEF Core, InOrder, Vouched
  <2>5. persisted # 0 => persisted \in 1 .. made
    BY <1>1, <1>2
  <2>6. Persisted' /\ Replacing'
    <3>1. Persisted'
      BY <1>1, <2>1, <2>5 DEF Core, Persisted
    <3>2. CASE dataDir
      <4>1. /\ integrity = "intact" => \A g \in 1 .. made : Whole(g) => ExpiringSoon(g)
            /\ persisted # 0 => ExpiringSoon(persisted)
        BY <2>1, <3>2, Zenon DEF Core, Replacing
      <4>2. /\ integrity' = "intact" => \A g \in 1 .. made' : Whole(g)' => ExpiringSoon(g)'
            /\ persisted' # 0 => ExpiringSoon(persisted)'
        BY <1>1, <2>1, <2>3, <2>5, <4>1
      <4> QED
        BY <3>1, <4>2 DEF Replacing
    <3>3. CASE ~dataDir
      <4>1. ~dataDir'
        BY <2>1, <3>3, Zenon
      <4> QED
        BY <3>1, <4>1, Zenon DEF Replacing
    <3> QED
      BY <3>1, <3>2, <3>3
  <2>7. Written'
    <3>1. CASE dataDir
      <4>1. pc' = "mkdir" /\ served' = made' /\ caPEM' = made' /\ file' = 1
        BY <1>6, <2>1, <3>1 DEF Generate, Core, AtStart
      <4>2. \A i \in 1 .. 4 : disk'[Paths[i]] # made'
        BY <2>1, <2>2 DEF Files
      <4>3. \A i \in 1 .. 4 : ~(i < 1)
        OBVIOUS
      <4> QED
        BY <1>1, <2>1, <3>1, <4>1, <4>2, <4>3 DEF Written
    <3>2. CASE ~dataDir
      BY <1>6, <3>2 DEF Generate, Serve, Written, Making
    <3> QED
      BY <3>1, <3>2
  <2>8. AtStart'
    BY <1>6, <2>1 DEF Generate, Serve, Core, AtStart
  <2> QED
    BY <2>4, <2>6, <2>7, <2>8 DEF Core
<1>7. CASE MkdirOK
  <2>1. /\ UNCHANGED <<now, dataDir, disk, bornAt, file, served, caPEM, persisted, integrity>>
        /\ pc = "mkdir" /\ pc' = "truncate"
    BY <1>7 DEF MkdirOK, memory, files, history
  <2>2. Replacing' /\ Written' /\ AtStart'
    BY <2>1 DEF Core, Replacing, Written, Making, AtStart, made, Whole, ExpiringSoon, NotAfter
  <2> QED
    BY <1>3, <2>1, <2>2 DEF Core
<1>8. CASE Truncate
  <2>1. /\ UNCHANGED <<now, dataDir, bornAt, file, served, caPEM, persisted, integrity>>
        /\ pc = "truncate" /\ pc' = "write" /\ Making
        /\ disk' = [disk EXCEPT ![Paths[file]] = Torn] /\ Paths[file] \in Files
    BY <1>2, <1>8 DEF Truncate, Put, memory, history, Making, Files
  <2>2. made' = made /\ dataDir
    BY <2>1 DEF made, Core, Written
  <2>3. \A g \in 1 .. made : Whole(g)' => Whole(g)
    BY <1>2, <2>1 DEF Whole
  <2>4. Replacing' /\ Vouched' /\ Persisted'
    BY <1>1, <1>2, <2>1, <2>2, <2>3 DEF Core, Replacing, Vouched, Persisted
  <2>5. InOrder'
    <3>1. \A i \in 1 .. 4 : i < file => disk[Paths[i]] # Missing
      BY <1>2, <2>1 DEF Core, Written, made, TypeOK
    <3> QED
      BY <1>2, <2>1, <3>1 DEF Core, InOrder
  <2>6. Written'
    <3>1. \A i \in 1 .. 4 : i < file <=> disk'[Paths[i]] = made
      BY <1>1, <1>2, <2>1 DEF Core, Written
    <3> QED
      BY <1>2, <2>1, <2>2, <3>1 DEF Core, Written
  <2> QED
    BY <2>1, <2>4, <2>5, <2>6 DEF Core, AtStart
<1>9. CASE WriteOK
  <2>1. /\ UNCHANGED <<now, dataDir, bornAt, served, caPEM>> /\ dataDir
        /\ pc = "write" /\ Making /\ made' = made /\ served = made /\ caPEM = made
        /\ made > 0 /\ bornAt[made] = now
        /\ disk' = [disk EXCEPT ![Paths[file]] = made] /\ Paths[file] \in Files
        /\ \A i \in 1 .. 4 : i < file <=> disk[Paths[i]] = made
    BY <1>2, <1>9 DEF WriteOK, Put, memory, Making, Files, Core, Written, made
  <2>2. \A i \in 1 .. 4 : i < file + 1 <=> disk'[Paths[i]] = made
    BY <1>2, <2>1
  <2>4. CASE file = 4
    <3>1. persisted' = made /\ pc' = "serving" /\ file' = 1 /\ integrity' = "intact"
      BY <1>9, <2>1, <2>4 DEF WriteOK, Serve
    <3>2. \A f \in Files : disk'[f] = made
      BY <2>2, <2>4
    <3>3. Vouched' /\ Persisted'
      BY <2>1, <3>1, <3>2 DEF Vouched, Persisted, Whole
    <3>4. InOrder'
      BY <1>2, <2>1, <3>2 DEF InOrder
    <3> QED
      BY <2>1, <3>4, <3>1, <3>3 DEF Core, Replacing, Written, Making, AtStart
  <2>5. CASE file # 4
    <3>1. /\ persisted' = persisted /\ pc' = "truncate" /\ file' = file + 1 /\ file' \in 1 .. 4
          /\ integrity' = integrity
      BY <1>2, <1>9, <2>1, <2>5 DEF WriteOK, history
    <3>2. disk'["server.key"] = disk["server.key"] /\ disk["server.key"] # made
      BY <1>2, <2>1, <2>5
    <3>3. \A g \in 1 .. made : Whole(g)' => Whole(g)
      BY <1>2, <2>1, <3>2 DEF Whole
    <3>4. Replacing' /\ Vouched' /\ Persisted'
      BY <1>1, <1>2, <2>1, <3>1, <3>3 DEF Core, Replacing, Vouched, Persisted
    <3>5. Written'
      BY <2>1, <2>2, <3>1 DEF Written
    <3>6. InOrder'
      BY <1>1, <1>2, <2>1, <2>2, <3>1 DEF Core, InOrder
    <3> QED
      BY <2>1, <3>1, <3>4, <3>5, <3>6 DEF Core, AtStart
  <2> QED
    BY <2>4, <2>5
<1>10. CASE ClearDataDir
  <2>1. /\ UNCHANGED <<dataDir, bornAt, pc, file>> /\ persisted' = 0 /\ pc = "down"
        /\ \A f \in Files : disk'[f] = Missing
    BY <1>10 DEF ClearDataDir, Empty
  <2>2. InOrder' /\ Vouched' /\ Persisted'
    BY <1>1, <1>2, <2>1 DEF InOrder, Vouched, Persisted, Whole, made
  <2> QED
    BY <2>1, <2>2 DEF Core, Replacing, Written, Making, AtStart
<1>11. CASE PowerLoss
  <2>1. /\ UNCHANGED <<dataDir, bornAt>> /\ pc' = "down" /\ file' = 1
        /\ \/ UNCHANGED <<disk, persisted, integrity>>
           \/ persisted' = 0 /\ integrity' = "damaged"
    BY <1>11 DEF PowerLoss, Down
  <2>2. InOrder' /\ Vouched' /\ Persisted'
    <3>1. CASE UNCHANGED <<disk, persisted, integrity>>
      BY <1>3, <2>1, <3>1
    <3>2. CASE persisted' = 0 /\ integrity' = "damaged"
      BY <3>2 DEF InOrder, Vouched, Persisted
    <3> QED
      BY <2>1, <3>1, <3>2
  <2>3. AtStart'
    BY <2>1 DEF Core, AtStart
  <2> QED
    BY <2>1, <2>2, <2>3 DEF Core, Replacing, Written, Making
<1> QED
  BY <1>4, <1>5, <1>6, <1>7, <1>8, <1>9, <1>10, <1>11 DEF Next

\* A start that serves the files finds a pair that is not about to expire,
\* beside its CA unless a power loss changed them.
LEMMA LoadedPair ==
    ASSUME TypeOK, Core, LoadOK
    PROVE  /\ served' = disk["server.crt"]
           /\ integrity = "intact" => caPEM' = served'
           /\ served' \in 1 .. made /\ Whole(served') /\ ~ExpiringSoon(served')
<1>1. /\ disk["server.crt"] \in 1 .. made /\ Whole(disk["server.crt"])
      /\ ~ExpiringSoon(disk["server.crt"])
  BY FileNames DEF LoadOK, LoadResult, ServerFileMissing, PairOK, TypeOK, Whole
<1> QED
  BY <1>1 DEF LoadOK, Core, Vouched

LEMMA ServingStep ==
    ASSUME TypeOK, Core, CAVouches, CAStable, Next
    PROVE  CAVouches' /\ CAStable'
<1>1. /\ made \in Nat /\ made' \in Nat /\ made <= made' /\ now \in Nat
      /\ \A g \in 1 .. made : bornAt[g] \in Nat /\ bornAt'[g] = bornAt[g]
  BY Aging
<1>2. /\ persisted \in 0 .. made /\ bootedAt \in Nat /\ Life \in Nat /\ RenewBefore \in Nat
  BY StoreAssumption DEF TypeOK
<1>3. CASE LoadOK
  <2>1. /\ integrity' = "intact" => caPEM' = served'
        /\ Whole(served') /\ ~ExpiringSoon(served')
        /\ bootedAt' = now /\ UNCHANGED <<disk, bornAt, persisted>>
    BY <1>3, LoadedPair DEF LoadOK, Serve, files
  <2>2. persisted # 0 /\ ~ExpiringSoon(persisted) => served' = persisted
    BY <2>1, FileNames DEF Core, Persisted, Whole
  <2>3. persisted # 0 /\ ExpiringSoon(persisted) => now > NotAfter(persisted) - RenewBefore
    BY DEF ExpiringSoon
  <2>4. CAStable'
    BY <1>1, <1>2, <2>1, <2>2, <2>3 DEF CAStable, NotAfter
  <2> QED
    BY <2>1, <2>4 DEF CAVouches
<1>4. CASE Generate
  <2>1. CASE dataDir
    BY <1>4, <2>1 DEF Generate, CAVouches, CAStable
  <2>2. CASE ~dataDir
    <3>1. persisted' = 0 /\ caPEM' = served'
      BY <1>4, <2>2, Zenon DEF Generate, Core, AtStart
    <3> QED
      BY <3>1 DEF CAVouches, CAStable
  <2> QED
    BY <2>1, <2>2
<1>5. CASE WriteOK \/ FallBack
  <2>1. /\ Making /\ served = made /\ caPEM = made /\ dataDir
        /\ UNCHANGED <<bornAt, served, caPEM>>
        /\ persisted # 0 => ExpiringSoon(persisted)
    BY <1>5 DEF WriteOK, FallBack, Core, Written, Replacing, Making, memory
  <2>2. \/ persisted' = served
        \/ /\ persisted' = persisted
           /\ pc' = "serving" => bootedAt' = now
    BY <1>5 DEF WriteOK, FallBack, Serve, history
  <2>3. persisted # 0 => now > bornAt[persisted] + Life - RenewBefore
    <3>1. ASSUME persisted # 0 PROVE now > bornAt[persisted] + Life - RenewBefore
      <4>1. ExpiringSoon(persisted)
        BY <2>1, <3>1
      <4> QED
        BY <1>1, <1>2, <3>1, <4>1 DEF ExpiringSoon, NotAfter
    <3> QED
      BY <3>1
  <2>4. CAStable'
    BY <1>1, <1>2, <2>1, <2>2, <2>3 DEF CAStable, NotAfter
  <2> QED
    BY <2>1, <2>4 DEF CAVouches
<1>6. CASE Tick
  <2>1. UNCHANGED <<bornAt, pc, served, caPEM, bootedAt, persisted, integrity>>
    BY <1>6 DEF Tick, memory, history
  <2> QED
    BY <2>1 DEF CAVouches, CAStable, NotAfter
<1>7. CASE Start \/ LoadError \/ LoadNone \/ MkdirOK \/ Truncate \/ Crash \/ PowerLoss \/ ClearDataDir
  <2>1. pc' # "serving"
    BY <1>7 DEF Start, LoadError, LoadNone, MkdirOK, Truncate, Crash, PowerLoss, ClearDataDir, Down
  <2> QED
    BY <2>1 DEF CAVouches, CAStable
<1> QED
  BY <1>3, <1>4, <1>5, <1>6, <1>7 DEF Next

StoreInv == TypeOK /\ Core /\ CAVouches /\ CAStable

LEMMA StoreInductive ==
    /\ Init => StoreInv
    /\ StoreInv /\ [Next]_vars => StoreInv'
<1>1. Init => StoreInv
  <2>1. Init => Len(bornAt) = 0 /\ bornAt \in Seq(Nat)
    BY DEF Init
  <2>2. Init => TypeOK
    BY <2>1 DEF Init, TypeOK, Empty, Synced, PCs, made
  <2>3. Init => InOrder /\ Vouched /\ Replacing /\ Written /\ Persisted /\ AtStart
    BY <2>1, FileNames DEF Init, InOrder, Vouched, Replacing, Written, Making, Persisted, AtStart,
                           Empty, made
  <2>4. Init => CAVouches /\ CAStable
    BY DEF Init, CAVouches, CAStable
  <2> QED
    BY <2>2, <2>3, <2>4 DEF StoreInv, Core
<1>2. StoreInv /\ Next => StoreInv'
  BY TypeStep, CoreStep, ServingStep DEF StoreInv, Core
<1>3. StoreInv /\ UNCHANGED vars => StoreInv'
  BY DEF StoreInv, TypeOK, Core, InOrder, Vouched, Replacing, Written, Making, Persisted, AtStart,
     CAVouches, CAStable, Whole, ExpiringSoon, NotAfter, made, vars, memory, files, history
<1> QED
  BY <1>1, <1>2, <1>3

\* The process, its generations and the four files of DataDir stay of their
\* types through every failed write, every crash and every loss of power.
THEOREM StoreTypeCorrect == Spec => []TypeOK
  BY StoreInductive, PTL DEF Spec, StoreInv

\* What /ca hands out is the CA of the certificate in use: the order of the
\* four writes never leaves a complete server pair beside another CA, unless
\* that pair is about to be replaced anyway.  Writes may fail and processes be
\* killed anywhere; os.WriteFile does not sync, and a loss of power that
\* changes a file ends the promise until all four are written again.
THEOREM CAVouchesAlways == Spec => []CAVouches
  BY StoreInductive, PTL DEF Spec, StoreInv

\* A generation that was persisted is served by every later start until its
\* renewal date, or until a loss of power changes a file.
THEOREM CAStaysStable == Spec => []CAStable
  BY StoreInductive, PTL DEF Spec, StoreInv

\* No start begins to serve a certificate in the last day of its life: a
\* loaded one was checked, a new one was made in the same start.
THEOREM FreshStarts == Spec => FreshAtStart
<1>1. ASSUME StoreInv, Next, pc' = "serving", pc # "serving"
      PROVE  now <= bornAt'[served'] + Life - RenewBefore
  <2>1. Life \in Nat /\ RenewBefore \in Nat /\ RenewBefore < Life /\ now \in Nat
    BY <1>1, StoreAssumption DEF StoreInv, TypeOK
  <2>2. CASE LoadOK
    <3>1. served' \in 1 .. made /\ ~ExpiringSoon(served')
      BY <1>1, <2>2, LoadedPair DEF StoreInv
    <3>2. bornAt'[served'] = bornAt[served'] /\ bornAt[served'] \in Nat
      BY <1>1, <3>1, Aging DEF StoreInv
    <3> QED
      BY <2>1, <3>1, <3>2 DEF ExpiringSoon, NotAfter
  <2>3. CASE Generate
    <3>1. bornAt'[served'] = now
      BY <1>1, <2>3 DEF Generate, made, StoreInv, TypeOK
    <3> QED
      BY <2>1, <3>1
  <2>4. CASE WriteOK \/ FallBack
    <3>1. bornAt'[served'] = now
      BY <1>1, <2>4 DEF WriteOK, FallBack, memory, StoreInv, Core, Written, Making
    <3> QED
      BY <2>1, <3>1
  <2> QED
    BY <1>1, <2>2, <2>3, <2>4
    DEF Next, Start, LoadError, LoadNone, MkdirOK, Truncate, Crash, PowerLoss, ClearDataDir, Tick, Down
<1>2. StoreInv /\ [Next]_vars =>
        [pc' = "serving" /\ pc # "serving" =>
           now <= bornAt'[served'] + Life - RenewBefore]_vars
  BY <1>1
<1> QED
  BY <1>2, StoreInductive, PTL DEF Spec, FreshAtStart
=============================================================================
