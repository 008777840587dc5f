------------------------------ MODULE Station ------------------------------
(***************************************************************************)
(* The name and address of the station and its identification data: DCP    *)
(* Set and factory reset (pf_dcp.c, pf_cmina.c), I&M records (pf_fspm.c),  *)
(* and how they get into files (pf_bg_worker.c, pf_file.c) against crashes *)
(* at any point.                                                           *)
(*                                                                         *)
(* Three threads: the Ethernet thread takes a DCP frame block by block,    *)
(* the main thread connects, resets and writes I&M records, the worker     *)
(* saves.  An address is the IP suite.  DHCP is not configured; HELLO      *)
(* frames, and blocks that are refused before they change anything, are    *)
(* left out.  The other fields of the record with the name and address     *)
(* only change at start-up.                                                *)
(***************************************************************************)
EXTENDS Naturals, Sequences

CONSTANTS
    Names, Addrs,        \* station names and addresses that are set
    CfgName, CfgAddr,    \* the application's configuration
    ImValues,            \* I&M data a controller writes
    CfgIm, BlankIm,      \* I&M data configured, and after a reset
    MaxFrame,            \* bound: blocks in a DCP Set frame
    MaxChanges,          \* bound: frames, resets and I&M records
    MaxCrashes,          \* bound: restarts
    MaxFails             \* bound: files that cannot be written

None == "none"           \* no name, no address

ASSUME StationAssumption ==
    /\ None \notin Names \cup Addrs
    /\ {CfgName, CfgAddr} \subseteq Names \cup Addrs \cup {None}
    /\ {MaxFrame, MaxChanges, MaxCrashes, MaxFails} \subseteq Nat

VARIABLES
    nv,        \* cmina_nonvolatile_dcp_ase
    cur,       \* cmina_current_dcp_ase
    state,     \* cmina_state
    commit,    \* cmina_commit_ip_suite
    netif,     \* the address the network interface was given
    linked,    \* is there an AR?
    frame,     \* the blocks of the DCP frame that are left, with the commit
    im,        \* fspm_cfg.im_..._data
    events,    \* pf_bg_worker.events
    job,       \* job[t]: where thread t is in saving
    asefile,   \* pnet_data_ip.bin
    imfile,    \* pnet_data_im.bin
    crossed,   \* have two threads saved I&M data at once?
    spent      \* what the bounds leave

memory == <<nv, cur, state, commit, netif, linked, frame, im>>
svars == <<memory, events, job, asefile, imfile, crossed, spent>>

Ase(n, a) == [name |-> n, addr |-> a]
Empty == Ase(None, None)
Threads == {"main", "worker"}
\* What pf_file_load gives if there is no file, or not the whole of it.
NoData == "?"
NoAse == Ase(NoData, NoData)
\* A thread that saves: what it loaded from the file and, for I&M data, the
\* copy it saves; `flags' are the events the worker was woken with.
Rest == [at |-> "idle", flags |-> {}, old |-> NoData, copy |-> NoData]

Blocks ==
    [op : {"name"}, val : Names \cup {None}, temp : BOOLEAN]
    \cup [op : {"addr"}, val : Addrs \cup {None}, temp : BOOLEAN]
    \cup [op : {"reset"}, mode : {0, 1, 2, 99}]
Commit == [op |-> "commit"]

(***************************************************************************)
(* Start-up, the first thing a program does and after each crash.          *)
(***************************************************************************)
\* pf_fspm_init: the I&M data are loaded, and saved by this thread, before the
\* other threads are started.
Booted ==
    /\ nv' = Empty /\ cur' = Empty /\ state' = "SETUP"
    /\ commit' = FALSE /\ netif' = None
    /\ linked' = FALSE /\ frame' = <<>>
    /\ im' = IF imfile = NoData THEN CfgIm ELSE imfile
    /\ events' = {}
    /\ job' = [t \in Threads |-> IF t = "main" THEN [Rest EXCEPT !.at = "im"] ELSE Rest]
    /\ crossed' = FALSE
    /\ UNCHANGED <<asefile, imfile>>

StationInit ==
    /\ nv = Empty /\ cur = Empty /\ state = "SETUP"
    /\ commit = FALSE /\ netif = None
    /\ linked = FALSE /\ frame = <<>>
    /\ im = CfgIm
    /\ events = {}
    /\ job = [t \in Threads |-> IF t = "main" THEN [Rest EXCEPT !.at = "im"] ELSE Rest]
    /\ asefile = NoAse /\ imfile = NoData /\ crossed = FALSE
    /\ spent = [changes |-> 0, crashes |-> 0, fails |-> 0]

MainIdle == job["main"].at = "idle"
Running == state # "SETUP"

\* pf_cmina_init, with the commit of the address
Stored(file) == IF file = NoAse THEN Ase(CfgName, CfgAddr) ELSE file
CminaInit ==
    LET ase == Stored(asefile)
    IN  /\ ~Running /\ MainIdle
        /\ nv' = ase /\ cur' = ase
        /\ state' = IF ase.name = None THEN "SET_NAME"
                    ELSE IF ase.addr = None THEN "SET_IP" ELSE "W_CONNECT"
        /\ netif' = ase.addr
        /\ events' = {"ase"}
        /\ UNCHANGED <<commit, linked, frame, im, job, asefile, imfile, crossed, spent>>

Spend(what, max) == spent[what] < max /\ spent' = [spent EXCEPT ![what] = @ + 1]

\* Power fails at any point; what is in the files stays.
Crash == Spend("crashes", MaxCrashes) /\ Booted

(***************************************************************************)
(* pf_cmina_set_default_cfg                                                *)
(***************************************************************************)
Mut2_Default(mode) ==
    LET ase == IF mode = 0 THEN Stored(asefile) ELSE IF mode >= 2 THEN Empty ELSE nv
        application == mode = 1 \/ mode >= 3
    IN  /\ nv' = ase /\ cur' = ase
        /\ asefile' = IF mode >= 2 THEN NoAse ELSE asefile
        /\ im' = IF application THEN BlankIm ELSE im
        /\ events' = events \cup {"ase"}

Mut_Default(mode) ==
    LET ase == IF mode = 0 THEN Stored(asefile) ELSE IF mode >= 2 THEN Empty ELSE nv
        application == mode = 1 \/ mode >= 3
    IN  /\ nv' = ase /\ cur' = ase
        /\ asefile' = IF mode >= 2 THEN NoAse ELSE asefile
        /\ im' = IF application THEN BlankIm ELSE im
        /\ events' = events \cup (IF application THEN {"im"} ELSE {"ase"})

Default(mode) ==
    LET ase == IF mode = 0 THEN Stored(asefile) ELSE IF mode >= 2 THEN Empty ELSE nv
        application == mode = 1 \/ mode >= 3
    IN  /\ nv' = ase /\ cur' = ase
        /\ asefile' = IF mode >= 2 THEN NoAse ELSE asefile
        /\ im' = IF application THEN BlankIm ELSE im
        /\ events' = events \cup {"ase"} \cup (IF application THEN {"im"} ELSE {})

(***************************************************************************)
(* The Ethernet thread: pf_dcp_get_set, a frame of Set blocks.             *)
(***************************************************************************)
Receive(f) ==
    /\ Running /\ frame = <<>> /\ f # <<>>
    /\ Spend("changes", MaxChanges)
    /\ frame' = Append(f, Commit)
    /\ UNCHANGED <<nv, cur, state, commit, netif, linked, im, events, job, asefile, imfile, crossed>>

\* pf_cmina_dcp_set_ind, after the values were taken: where the machine goes.
Evaluated(c, newName, newAddr, reset) ==
    LET name == c.name # None
        addr == c.addr # None
        both(s) == IF s # "W_CONNECT" /\ name /\ addr THEN "W_CONNECT" ELSE s
    IN  IF state # "W_CONNECT"
        THEN [to |-> IF ~newName /\ ~newAddr THEN both(state)
                     ELSE IF name /\ addr THEN "W_CONNECT"
                     ELSE IF ~name THEN "SET_NAME" ELSE "SET_IP",
              commit |-> (newName \/ newAddr) /\ name /\ addr, abort |-> FALSE]
        ELSE IF ~newName /\ ~newAddr /\ ~reset
        THEN [to |-> state, commit |-> FALSE, abort |-> FALSE]
        ELSE IF ~name \/ reset
        THEN [to |-> state, commit |-> FALSE, abort |-> TRUE]
        ELSE IF newName \/ ~addr
        THEN [to |-> both("SET_IP"), commit |-> ~linked, abort |-> TRUE]
        ELSE [to |-> state, commit |-> ~linked, abort |-> FALSE]

\* A name or an address: the current values and those to be saved.  They are
\* taken even if the machine then refuses them.
Set(b) ==
    LET c == IF b.op = "name" THEN [cur EXCEPT !.name = b.val] ELSE [cur EXCEPT !.addr = b.val]
        kept == IF b.temp THEN None ELSE b.val
        e == Evaluated(c, c.name # cur.name, c.addr # cur.addr, FALSE)
    IN  /\ b.op \in {"name", "addr"}
        /\ cur' = c
        /\ nv' = IF b.op = "name" THEN [nv EXCEPT !.name = kept] ELSE [nv EXCEPT !.addr = kept]
        /\ events' = events \cup {"ase"}
        /\ state' = e.to /\ commit' = (commit \/ e.commit) /\ linked' = (linked /\ ~e.abort)
        /\ UNCHANGED <<netif, im, asefile>>

Reset(b) ==
    LET e == Evaluated(cur, FALSE, FALSE, TRUE)
    IN  /\ b.op = "reset"
        /\ Default(b.mode)
        /\ state' = e.to /\ commit' = (commit \/ e.commit) /\ linked' = (linked /\ ~e.abort)
        /\ UNCHANGED netif

\* pf_cmina_dcp_set_commit, after the response was sent
SetCommit(b) ==
    /\ b.op = "commit"
    /\ netif' = IF commit THEN cur.addr ELSE netif
    /\ commit' = FALSE
    /\ UNCHANGED <<nv, cur, state, linked, im, events, asefile>>

Block ==
    /\ frame # <<>>
    /\ frame' = Tail(frame)
    /\ Set(Head(frame)) \/ Reset(Head(frame)) \/ SetCommit(Head(frame))
    /\ UNCHANGED <<job, imfile, crossed, spent>>

(***************************************************************************)
(* The main thread.                                                        *)
(***************************************************************************)
Connect ==
    /\ Running /\ MainIdle /\ ~linked /\ linked' = TRUE
    /\ UNCHANGED <<nv, cur, state, commit, netif, frame, im, events, job, asefile, imfile, crossed, spent>>
Disconnect ==
    /\ MainIdle /\ linked /\ linked' = FALSE
    /\ UNCHANGED <<nv, cur, state, commit, netif, frame, im, events, job, asefile, imfile, crossed, spent>>

\* pnet_factory_reset
FactoryReset ==
    /\ Running /\ MainIdle
    /\ Spend("changes", MaxChanges)
    /\ Default(99)
    /\ linked' = FALSE
    /\ netif' = IF commit THEN None ELSE netif
    /\ commit' = FALSE
    /\ UNCHANGED <<state, frame, job, imfile, crossed>>

\* pf_fspm_cm_write_ind: a record is written, and saved by this thread.
WriteIm(v) ==
    /\ MainIdle /\ linked
    /\ Spend("changes", MaxChanges)
    /\ im' = v
    /\ job' = [job EXCEPT !["main"].at = "im"]
    /\ UNCHANGED <<nv, cur, state, commit, netif, linked, frame, events, asefile, imfile, crossed>>

(***************************************************************************)
(* Saving.  A file is first loaded and compared.  Then it is opened, which *)
(* empties it, and written; a write that fails leaves it so.               *)
(***************************************************************************)
At(t, where) == job[t].at = where
Goes(t, where) == job' = [job EXCEPT ![t].at = where]

\* pf_fspm_save_im: a copy under the mutex
CopyIm(t) ==
    /\ At(t, "im")
    /\ job' = [job EXCEPT ![t].at = "imLoaded", ![t].copy = im, ![t].old = imfile]
    /\ crossed' = (crossed \/ \E u \in Threads \ {t} : At(u, "imLoaded") \/ At(u, "imWrite"))
    /\ UNCHANGED <<memory, events, asefile, imfile, spent>>
CompareIm(t) ==
    /\ At(t, "imLoaded")
    /\ IF job[t].old = job[t].copy
       THEN job' = [job EXCEPT ![t] = Rest] /\ UNCHANGED imfile
       ELSE Goes(t, "imWrite") /\ imfile' = NoData
    /\ UNCHANGED <<memory, events, asefile, crossed, spent>>
StoreIm(t) ==
    /\ At(t, "imWrite")
    /\ \/ imfile' = job[t].copy /\ UNCHANGED spent
       \/ Spend("fails", MaxFails) /\ UNCHANGED imfile
    /\ job' = [job EXCEPT ![t] = Rest]
    /\ UNCHANGED <<memory, events, asefile, crossed>>

\* bg_worker_task.  The events are taken one after the other: each is cleared
\* before its data are saved.
Wake ==
    /\ At("worker", "idle") /\ events # {}
    /\ job' = [job EXCEPT !["worker"].at = "ase", !["worker"].flags = events]
    /\ UNCHANGED <<memory, events, asefile, imfile, crossed, spent>>

Mut_Cleared(when, e) == IF when = "saved" THEN events \ {e} ELSE events
Cleared(when, e) == IF when = "loading" THEN events \ {e} ELSE events

\* pf_cmina_save_ase: what is compared and written is not the copy it took
\* under the mutex but the record itself, the name first.
LoadAse ==
    /\ At("worker", "ase") /\ "ase" \in job["worker"].flags
    /\ events' = Cleared("loading", "ase")
    /\ job' = [job EXCEPT !["worker"].at = "aseLoaded", !["worker"].old = asefile]
    /\ UNCHANGED <<memory, asefile, imfile, crossed, spent>>
CompareAse ==
    /\ At("worker", "aseLoaded")
    /\ IF job["worker"].old = nv
       THEN Goes("worker", "aseDone") /\ UNCHANGED asefile
       ELSE Goes("worker", "aseName") /\ asefile' = NoAse
    /\ UNCHANGED <<memory, events, imfile, crossed, spent>>
WriteName ==
    /\ At("worker", "aseName")
    /\ job' = [job EXCEPT !["worker"].at = "aseAddr", !["worker"].old = nv]
    /\ UNCHANGED <<memory, events, asefile, imfile, crossed, spent>>
WriteAddr ==
    /\ At("worker", "aseAddr")
    /\ \/ asefile' = Ase(job["worker"].old.name, nv.addr) /\ UNCHANGED spent
       \/ Spend("fails", MaxFails) /\ UNCHANGED asefile
    /\ Goes("worker", "aseDone")
    /\ UNCHANGED <<memory, events, imfile, crossed>>
NextIm ==
    /\ \/ At("worker", "aseDone") /\ events' = Cleared("saved", "ase")
       \/ At("worker", "ase") /\ "ase" \notin job["worker"].flags /\ UNCHANGED events
    /\ IF "im" \in job["worker"].flags
       THEN Goes("worker", "imClear")
       ELSE job' = [job EXCEPT !["worker"] = Rest]
    /\ UNCHANGED <<memory, asefile, imfile, crossed, spent>>
ClearIm ==
    /\ At("worker", "imClear")
    /\ events' = Cleared("loading", "im")
    /\ Goes("worker", "im")
    /\ UNCHANGED <<memory, asefile, imfile, crossed, spent>>

Worker ==
    \/ Wake \/ LoadAse \/ CompareAse \/ WriteName \/ WriteAddr \/ NextIm \/ ClearIm
    \/ CopyIm("worker") \/ CompareIm("worker") \/ StoreIm("worker")
SavesIm == CopyIm("main") \/ CompareIm("main") \/ StoreIm("main")
\* pnet_init runs to its end.
Starting == (~Running /\ SavesIm) \/ CminaInit

Frames == UNION {[1 .. n -> Blocks] : n \in 1 .. MaxFrame}

StationNext ==
    \/ \E f \in Frames : Receive(f)
    \/ Block
    \/ Connect \/ Disconnect \/ FactoryReset
    \/ \E v \in ImValues : WriteIm(v)
    \/ SavesIm \/ CminaInit
    \/ Worker
    \/ Crash

StationSpec == StationInit /\ [][StationNext]_svars
                  /\ WF_svars(Worker) /\ WF_svars(Starting)

(***************************************************************************)
(* Properties                                                              *)
(***************************************************************************)
\* Nothing is forgotten: when the worker has nothing left to do for the name
\* and address, the file has the values to be kept, whatever was set while it
\* saved, wherever power failed; unless the file could not be written.
AseSettled == /\ Running /\ "ase" \notin events
              /\ At("worker", "idle") \/ "ase" \notin job["worker"].flags
Kept == AseSettled => asefile = nv \/ (asefile = NoAse /\ spent.fails > 0)

\* The I&M data likewise, whoever saves them, as long as the main thread and
\* the worker do not save them at once: the copy of one may then be older and
\* be written later (pf_fspm_save_im is "intended to be called from the
\* background worker"; pf_fspm_cm_write_ind calls it on the main thread).
ImSettled == /\ "im" \notin events /\ MainIdle
             /\ At("worker", "idle") \/ "im" \notin job["worker"].flags
ImKept == ImSettled /\ ~crossed => imfile = im \/ (imfile = NoData /\ spent.fails > 0)

\* Values that are set are saved in the end, if the worker runs and can write.
SavedAtLast == []<>(asefile = nv \/ spent.fails > 0)
=============================================================================
