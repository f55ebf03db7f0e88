---------------------------- MODULE SelfSigned ----------------------------
(***************************************************************************)
(* The self-signed TLS mode of pkg/server/server.go: a CA and a server     *)
(* certificate are generated, kept in four files of DataDir written one    *)
(* after the other, and loaded again at the next start, with writes that   *)
(* fail, a process that dies or a machine that loses power between any two *)
(* steps, and certificates that come to their end.                         *)
(*                                                                         *)
(* Generated material is its generation number: ca.crt, ca.key, server.crt *)
(* and server.key of one generation belong together.  A file holds the     *)
(* generation it was written for, or is missing, or torn (truncated).      *)
(* os.WriteFile does not sync: what the programs read is in the page       *)
(* cache, and the medium may still hold older contents of any file.        *)
(***************************************************************************)
EXTENDS Integers, Sequences

CONSTANTS
    Life,           \* validity of a certificate, in ticks (10 years)
    RenewBefore,    \* selfSignedRenewBefore, in ticks
    Missing, Torn,  \* contents of a file
    MaxGenerations, \* bound on the generations
    MaxTime         \* bound on the clock

ASSUME StoreAssumption ==
    /\ Life \in Nat /\ RenewBefore \in Nat /\ RenewBefore < Life
    /\ MaxGenerations \in Nat /\ MaxTime \in Nat
    /\ Missing # Torn
    /\ {Missing, Torn} \cap Nat = {}

VARIABLES
    now,            \* the clock
    dataDir,        \* cfg.DataDir # ""
    disk,           \* external: the contents of the four files
    medium,         \* external: the contents each may have after a power loss
    bornAt,         \* when each generation was made
    pc,             \* the server process
    file,           \* the index of the file being written
    served, caPEM,  \* generation of the served certificate, of selfSignedCAPEM
    bootedAt,       \* history: when the process started to serve
    persisted,      \* history: the generation whose four writes all succeeded
    integrity       \* history: "damaged" when a power loss has changed a file
                    \* since all four were written or removed

memory == <<served, caPEM>>
history == <<bootedAt, persisted, integrity>>
files == <<disk, medium>>
vars == <<now, dataDir, files, bornAt, pc, file, memory, history>>

\* Mutant of Paths: the server's pair is written before the CA's.
PathsServerFirst == <<"server.crt", "server.key", "ca.crt", "ca.key">>

\* selfSignedPaths, in the order of writing.
Paths == <<"ca.crt", "ca.key", "server.crt", "server.key">>
Files == {Paths[i] : i \in 1 .. 4}

made == Len(bornAt)

PCs == {"down", "load", "generate", "mkdir", "truncate", "write", "serving"}

TypeOK ==
    /\ now \in Nat
    /\ dataDir \in BOOLEAN
    /\ bornAt \in Seq(Nat)
    /\ disk \in [Files -> {Missing, Torn} \cup 1 .. made]
    /\ medium \in [Files -> SUBSET ({Missing, Torn} \cup 1 .. made)]
    /\ pc \in PCs
    /\ file \in 1 .. 4
    /\ served \in 0 .. made
    /\ caPEM \in {0, Torn} \cup 1 .. made
    /\ bootedAt \in Nat
    /\ persisted \in 0 .. made
    /\ integrity \in {"intact", "damaged"}

Empty == [f \in Files |-> Missing]

\* The medium holds just these contents.
Synced(contents) == [f \in Files |-> {contents[f]}]

\* A file gets new contents, which reach the medium some time later.
Put(f, content) ==
    /\ disk' = [disk EXCEPT ![f] = content]
    /\ medium' = [medium EXCEPT ![f] = @ \cup {content}]

Init ==
    /\ now = 0
    /\ dataDir \in BOOLEAN
    /\ disk = Empty /\ medium = Synced(disk)
    /\ bornAt = <<>>
    /\ pc = "down"
    /\ file = 1
    /\ served = 0 /\ caPEM = 0
    /\ bootedAt = 0
    /\ persisted = 0 /\ integrity = "intact"

NotAfter(g) == bornAt[g] + Life

\* Past the last day of its life, or about to be.
ExpiringSoon(g) == now > NotAfter(g) - RenewBefore

\* The process dies or gives up; its memory is gone.
Down == /\ pc' = "down"
        /\ file' = 1
        /\ served' = 0 /\ caPEM' = 0

Serve == /\ pc' = "serving"
         /\ file' = 1
         /\ bootedAt' = now

-----------------------------------------------------------------------------
(* loadOrGenerateSelfSignedTLS.                                            *)

Start ==
    /\ pc = "down"
    /\ pc' = IF dataDir THEN "load" ELSE "generate"
    /\ UNCHANGED <<now, dataDir, files, bornAt, file, memory, history>>

\* tls.LoadX509KeyPair needs two whole files of one generation.
PairOK == disk["server.crt"] # Torn /\ disk["server.crt"] = disk["server.key"]

ServerFileMissing == disk["server.crt"] = Missing \/ disk["server.key"] = Missing

\* What loadPersistedSelfSignedTLS finds, in the order it looks: a missing
\* file, a server pair that does not load, one about to expire, the CA key
\* missing.  The content of the CA files is not looked at.
LoadResult ==
    CASE disk["ca.crt"] = Missing \/ ServerFileMissing -> "missing"
      [] ~ServerFileMissing /\ ~PairOK -> "error"
      [] OTHER -> IF ExpiringSoon(disk["server.crt"]) THEN "expired"
                  ELSE IF disk["ca.key"] = Missing THEN "missing" ELSE "loaded"

\* Mutant of LoadOK: the certificate is not checked for its end.
LoadOKAnyAge ==
    /\ pc = "load"
    /\ LoadResult \in {"loaded", "expired"}
    /\ served' = disk["server.crt"]
    /\ caPEM' = disk["ca.crt"]
    /\ Serve
    /\ UNCHANGED <<now, dataDir, files, bornAt, persisted, integrity>>

LoadOK ==
    /\ pc = "load"
    /\ LoadResult = "loaded"
    /\ served' = disk["server.crt"]
    /\ caPEM' = disk["ca.crt"]
    /\ Serve
    /\ UNCHANGED <<now, dataDir, files, bornAt, persisted, integrity>>

\* A pair that does not load, and any file that is there and cannot be read, is
\* returned as an error: Start fails and the process ends.
LoadError ==
    /\ pc = "load"
    /\ disk # Empty
    /\ Down
    /\ UNCHANGED <<now, dataDir, files, bornAt, history>>

\* Mutant of LoadNone: every start makes a new pair.
LoadNoneAlways ==
    /\ pc = "load"
    /\ LoadResult # "error"
    /\ pc' = "generate"
    /\ UNCHANGED <<now, dataDir, files, bornAt, file, memory, history>>

LoadNone ==
    /\ pc = "load"
    /\ LoadResult \in {"missing", "expired"}
    /\ pc' = "generate"
    /\ UNCHANGED <<now, dataDir, files, bornAt, file, memory, history>>

\* generateSelfSignedMaterial; without DataDir there is nothing to write.
Generate ==
    /\ pc = "generate"
    /\ made < MaxGenerations
    /\ bornAt' = Append(bornAt, now)
    /\ served' = made + 1
    /\ caPEM' = made + 1
    /\ IF dataDir THEN pc' = "mkdir" /\ UNCHANGED <<file, bootedAt>> ELSE Serve
    /\ UNCHANGED <<now, dataDir, files, persisted, integrity>>

MkdirOK ==
    /\ pc = "mkdir"
    /\ pc' = "truncate"
    /\ UNCHANGED <<now, dataDir, files, bornAt, file, memory, history>>

\* os.WriteFile opens the file, which empties it, then writes.
Truncate ==
    /\ pc = "truncate"
    /\ Put(Paths[file], Torn)
    /\ pc' = "write"
    /\ UNCHANGED <<now, dataDir, bornAt, file, memory, history>>

WriteOK ==
    /\ pc = "write"
    /\ Put(Paths[file], served)
    /\ IF file = 4
         THEN Serve /\ persisted' = served /\ integrity' = "intact"
         ELSE /\ file' = file + 1
              /\ pc' = "truncate"
              /\ UNCHANGED history
    /\ UNCHANGED <<now, dataDir, bornAt, memory>>

\* A failed MkdirAll or WriteFile: served from memory, the files left as is.
FallBack ==
    /\ pc \in {"mkdir", "truncate", "write"}
    /\ Serve
    /\ UNCHANGED <<now, dataDir, files, bornAt, memory, persisted, integrity>>

-----------------------------------------------------------------------------
\* The process is stopped or killed at any point; the machine runs on, and
\* what was written is still in the page cache.
Crash ==
    /\ pc # "down"
    /\ Down
    /\ UNCHANGED <<now, dataDir, files, bornAt, history>>

\* External: the machine loses power.  Of each file the medium keeps any of
\* the contents it had since it was last synced, whatever becomes of the others.
PowerLoss ==
    /\ \E kept \in medium[Paths[1]] \X medium[Paths[2]] \X medium[Paths[3]] \X medium[Paths[4]] :
          disk' = [f \in Files |-> kept[CHOOSE i \in 1 .. 4 : Paths[i] = f]]
    /\ medium' = Synced(disk')
    /\ IF disk' = disk
         THEN UNCHANGED <<persisted, integrity>>
         ELSE persisted' = 0 /\ integrity' = "damaged"
    /\ Down
    /\ UNCHANGED <<now, dataDir, bornAt, bootedAt>>

\* The operator empties DataDir to have new certificates.
ClearDataDir ==
    /\ pc = "down" /\ disk # Empty
    /\ disk' = Empty
    /\ medium' = [f \in Files |-> medium[f] \cup {Missing}]
    /\ persisted' = 0 /\ integrity' = "intact"
    /\ UNCHANGED <<now, dataDir, bornAt, pc, file, memory, bootedAt>>

\* A start takes no time compared with the life of a certificate, and the
\* system writes its cache back well within a tick.
Tick ==
    /\ now < MaxTime /\ pc \in {"down", "serving"}
    /\ now' = now + 1
    /\ medium' = Synced(disk)
    /\ UNCHANGED <<dataDir, disk, bornAt, pc, file, memory, history>>

Next ==
    \/ Start \/ LoadOK \/ LoadError \/ LoadNone \/ Generate
    \/ MkdirOK \/ Truncate \/ WriteOK \/ FallBack
    \/ Crash \/ PowerLoss \/ ClearDataDir \/ Tick

Spec == Init /\ [][Next]_vars

-----------------------------------------------------------------------------
(* "allows clients to fetch the CA and trust it": the CA that /ca hands    *)
(* out is the one that issued the certificate being served, whatever mix   *)
(* of generations failed writes and processes killed between two writes    *)
(* left in DataDir, and whatever power losses did not change.  Once one    *)
(* has changed a file, nothing is promised until all four are written      *)
(* again: a CA file may be empty beside a whole server pair.               *)
CAVouches == pc = "serving" /\ integrity = "intact" => caPEM = served

(* "expired persisted certificate is replaced instead of served": a start  *)
(* never begins to serve a certificate in the last day of its life, also   *)
(* from files that a power loss has changed.                               *)
FreshAtStart ==
    [][pc' = "serving" /\ pc # "serving" =>
          now <= bornAt'[served'] + Life - RenewBefore]_vars

(* "the same certificates are reloaded so the CA PEM stays stable": once a *)
(* start wrote all four files, every later start that serves before the    *)
(* renewal date serves that generation, whatever was killed in between, as *)
(* long as no power loss changes the files.                                *)
CAStable ==
    pc = "serving" /\ persisted # 0 /\ bootedAt <= NotAfter(persisted) - RenewBefore
        => served = persisted
=============================================================================
