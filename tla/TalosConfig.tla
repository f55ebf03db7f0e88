---------------------------- MODULE TalosConfig ----------------------------
(***************************************************************************)
(* pkg/talosconfig: the talosconfig file as the commands that change it    *)
(* share it.  `login' and `logout' load the file, change their own context *)
(* in memory and save it: Save truncates <path>.tmp, writes it and renames *)
(* it to <path>.  The temporary name is the same in every process and      *)
(* nothing is locked.                                                      *)
(*                                                                         *)
(* The content of a file is the selected context, the contexts in it and   *)
(* which of them have `nodes' and which have fields that the struct        *)
(* Context lacks: Load drops those, so a command that saves the file drops *)
(* them from every context.  A truncated file is empty, which parses as a  *)
(* configuration without contexts; a write that stopped half way, or two   *)
(* that overlap, leave Garbled.  A process that writes holds a file, not a *)
(* name: a rename moves it along.  What a process leaves in <path>.tmp     *)
(* when it fails or dies is only kept while another one is between its     *)
(* write and its rename: nobody else reads it.                             *)
(***************************************************************************)
EXTENDS Integers, FiniteSets

CONSTANTS
    Procs,          \* commands that change the file
    Own,            \* [Procs -> the context each of them sets or removes]
    OtherContexts,  \* contexts in the file that no command sets or removes
    NoContext,      \* no context is selected
    Initial,        \* what the file may contain before the first command
    Absent,         \* no such file
    Garbled         \* content that does not parse

Contexts == OtherContexts \cup {Own[p] : p \in Procs}

Content == [current : Contexts \cup {NoContext},
            contexts : SUBSET Contexts,
            nodes : SUBSET Contexts,    \* contexts with nodes
            extra : SUBSET Contexts]    \* contexts with other fields

ASSUME ConfigAssumption ==
    /\ Absent # Garbled
    /\ \A c \in Content : c # Absent /\ c # Garbled
    /\ NoContext \notin Contexts
    /\ \A p \in Procs : Own[p] \notin OtherContexts
    /\ Initial \subseteq {c \in Content : OtherContexts \subseteq c.contexts}

VARIABLES
    conf,       \* the file <path>
    tmp,        \* the file <path>.tmp
    stage,      \* how far each process is: "idle", "loaded", "open", "written"
    mem,        \* the configuration each process has in memory
    handle      \* the file that a process in stage "open" writes

configVars == <<conf, tmp, stage, mem, handle>>

IsContent(c) == c \in {Absent, Garbled} \/ c \in Content

ConfigTypeOK ==
    /\ IsContent(conf)
    /\ IsContent(tmp)
    /\ stage \in [Procs -> {"idle", "loaded", "open", "written"}]
    /\ mem \in [Procs -> Content]
    /\ handle \in [Procs -> {"none", "tmp", "conf", "gone"}]

\* A configuration without contexts, and what a truncated file parses as.
Empty == [current |-> NoContext, contexts |-> {}, nodes |-> {}, extra |-> {}]

ConfigInit ==
    /\ conf \in Initial
    /\ tmp = Absent
    /\ stage = [p \in Procs |-> "idle"]
    /\ mem = [p \in Procs |-> Empty]
    /\ handle = [p \in Procs |-> "none"]

\* A file that is not there is an empty configuration.
Parsed(content) == IF content = Absent THEN Empty ELSE content

Readable == conf # Garbled

\* Load: what the structs Config and Context have no field for is lost.
Loaded == [Parsed(conf) EXCEPT !.extra = {}]

\* The context is replaced as a whole, without nodes, and selected.
SetContextFromPEM(config, name) ==
    [current  |-> name,
     contexts |-> config.contexts \cup {name},
     nodes    |-> config.nodes \ {name},
     extra    |-> config.extra \ {name}]

\* If the context was the selected one, none is.
RemoveContext(config, name) ==
    [current  |-> IF config.current = name THEN NoContext ELSE config.current,
     contexts |-> config.contexts \ {name},
     nodes    |-> config.nodes \ {name},
     extra    |-> config.extra \ {name}]

\* What a name or an open file holds after f is unlinked or replaced.
Unlink(f) == [q \in Procs |-> IF handle[q] = f THEN "gone" ELSE handle[q]]

-----------------------------------------------------------------------------
LoadInto(p, config) ==
    /\ stage[p] = "idle"
    /\ Readable
    /\ mem' = [mem EXCEPT ![p] = config]
    /\ stage' = [stage EXCEPT ![p] = "loaded"]
    /\ UNCHANGED <<conf, tmp, handle>>

\* Load, then SetContextFromPEM in memory.
LoadAndSet(p) == LoadInto(p, SetContextFromPEM(Loaded, Own[p]))

\* Load, then RemoveContext in memory, if the context is there.
LoadAndRemove(p) ==
    Own[p] \in Parsed(conf).contexts /\ LoadInto(p, RemoveContext(Loaded, Own[p]))

\* Mutant of OpenTmp: the configuration file itself is written.
OpenInPlace(p) ==
    /\ stage[p] = "loaded"
    /\ conf' = Empty
    /\ handle' = [handle EXCEPT ![p] = "conf"]
    /\ stage' = [stage EXCEPT ![p] = "open"]
    /\ UNCHANGED <<tmp, mem>>

\* os.WriteFile opens and truncates the temporary file ...
OpenTmp(p) ==
    /\ stage[p] = "loaded"
    /\ tmp' = Empty
    /\ handle' = [handle EXCEPT ![p] = "tmp"]
    /\ stage' = [stage EXCEPT ![p] = "open"]
    /\ UNCHANGED <<conf, mem>>

\* conf and tmp once the file that p has open holds c.
ConfWith(p, c) == IF handle[p] = "conf" THEN c ELSE conf
TmpWith(p, c) == IF handle[p] = "tmp" THEN c ELSE tmp

\* The content of the file that p has open.
Opened(p) == CASE handle[p] = "tmp"  -> tmp
               [] handle[p] = "conf" -> conf
               [] OTHER              -> Empty

\* ... and writes it.  Over the bytes of another process the result is the
\* last writer's or a mixture.
WriteTmp(p) ==
    /\ stage[p] = "open"
    /\ \E c \in IF Opened(p) = Empty THEN {mem[p]} ELSE {mem[p], Garbled} :
         conf' = ConfWith(p, c) /\ tmp' = TmpWith(p, c)
    /\ handle' = [handle EXCEPT ![p] = "none"]
    /\ stage' = [stage EXCEPT ![p] = "written"]
    /\ UNCHANGED mem

\* The command is over with the file: it has returned or it is dead.
Leave(p) ==
    /\ stage' = [stage EXCEPT ![p] = "idle"]
    /\ mem' = [mem EXCEPT ![p] = Empty]

\* The directory or the temporary file cannot be created: Save returns.
OpenFails(p) ==
    /\ stage[p] = "loaded"
    /\ UNCHANGED <<conf, tmp, handle>>
    /\ Leave(p)

\* What p leaves behind under the temporary name.
Abandoned(p, c) ==
    IF \E q \in Procs \ {p} : stage[q] \in {"open", "written"}
    THEN c ELSE Absent

\* The write fails half way (a full disk): Save returns, the temporary file
\* stays as it is.
WriteFails(p) ==
    /\ stage[p] = "open"
    /\ conf' = ConfWith(p, Garbled)
    /\ tmp' = Abandoned(p, TmpWith(p, Garbled))
    /\ handle' = [handle EXCEPT ![p] = "none"]
    /\ Leave(p)

\* Every file open under the temporary name goes on under the other name.
Rename(p) ==
    /\ stage[p] = "written"
    /\ tmp # Absent
    /\ conf' = tmp
    /\ tmp' = Absent
    /\ handle' = [q \in Procs |-> IF handle[q] = "tmp" THEN "conf"
                                  ELSE Unlink("conf")[q]]
    /\ Leave(p)

\* A rename that fails, for one because another process renamed the file
\* first, removes the temporary file.
RenameFails(p) ==
    /\ stage[p] = "written"
    /\ tmp' = Absent
    /\ handle' = Unlink("tmp")
    /\ UNCHANGED conf
    /\ Leave(p)

\* The process dies; the files stay as they are.
Die(p) ==
    /\ tmp' = Abandoned(p, tmp)
    /\ handle' = [handle EXCEPT ![p] = "none"]
    /\ UNCHANGED conf
    /\ Leave(p)

-----------------------------------------------------------------------------
(* Commands that do nothing but change the file, in any number *)

ConfigNext ==
    \E p \in Procs :
      \/ LoadAndSet(p)
      \/ LoadAndRemove(p)
      \/ OpenTmp(p)
      \/ OpenFails(p)
      \/ WriteTmp(p)
      \/ WriteFails(p)
      \/ Rename(p)
      \/ RenameFails(p)
      \/ stage[p] # "idle" /\ Die(p)

ConfigSpec == ConfigInit /\ [][ConfigNext]_configVars

\* Saves replace the file as a whole, so it always parses and keeps the
\* contexts that nobody sets or removes, whatever command fails or is killed.
ConfigWhole == conf # Garbled /\ OtherContexts \subseteq Parsed(conf).contexts
=============================================================================
