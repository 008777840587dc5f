---------------------------- MODULE StationProofs ----------------------------
(***************************************************************************)
(* Proofs about Station: what was set is in the files when nothing is left *)
(* to do, for any names, addresses and I&M data, frames of any length, and *)
(* any number of changes, crashes and failures.                            *)
(***************************************************************************)
EXTENDS Station, TLAPS

Values == Names \cup Addrs \cup {None, NoData}
Ases == [name : Values, addr : Values]
ImData == ImValues \cup {CfgIm, BlankIm, NoData}
Stages == {"idle", "ase", "aseLoaded", "aseName", "aseAddr", "aseDone",
           "imClear", "im", "imLoaded", "imWrite"}
Job == [at : Stages, flags : SUBSET {"ase", "im"}, old : Ases \cup ImData, copy : ImData]

StationTypeOK ==
    /\ nv \in Ases /\ asefile \in Ases
    /\ im \in ImData /\ imfile \in ImData
    /\ events \in SUBSET {"ase", "im"}
    /\ job \in [Threads -> Job]
    /\ spent \in [changes : Nat, crashes : Nat, fails : Nat]
    /\ crossed \in BOOLEAN
    /\ frame \in Seq(Blocks \cup {Commit})

\* Until the start-up is done, nothing happens but the saving of I&M data.
SetUp ==
    ~Running => /\ events = {} /\ frame = <<>> /\ ~linked
                /\ job["worker"] = Rest

(***************************************************************************)
(* The name and address.  The event stands for everything that was set     *)
(* since the worker has begun to save; without it the file, or what was    *)
(* loaded from it, or what is about to be written, is what is to be kept.  *)
(***************************************************************************)
AseGood == asefile = nv \/ (asefile = NoAse /\ spent.fails > 0)
AseInv ==
    LET w == job["worker"]
    IN  /\ w.at \in {"aseLoaded", "aseName", "aseAddr", "aseDone"} => "ase" \in w.flags
        /\ w.at = "ase" /\ "ase" \in w.flags => "ase" \in events
        /\ w.at \in {"aseName", "aseAddr"} => asefile = NoAse
        /\ w.at = "aseAddr" => w.old \in Ases
        /\ Running /\ "ase" \notin events =>
              /\ w.at = "aseLoaded" => w.old = asefile
              /\ w.at = "aseAddr" => w.old = nv
              /\ w.at \notin {"aseLoaded", "aseName", "aseAddr"} => AseGood

(***************************************************************************)
(* The I&M data.  A change is pending until a thread has copied them; the  *)
(* one that saves then has the newest copy, if it is the only one.         *)
(***************************************************************************)
ImGood == imfile = im \/ (imfile = NoData /\ spent.fails > 0)
Saving(t) == job[t].at \in {"imLoaded", "imWrite"}
Pending == "im" \in events \/ At("main", "im") \/ At("worker", "im")
ImInv ==
    LET w == job["worker"]
    IN  /\ w.at \in {"imClear", "im", "imLoaded", "imWrite"} => "im" \in w.flags
        /\ w.at \in {"ase", "aseLoaded", "aseName", "aseAddr", "aseDone", "imClear"}
             /\ "im" \in w.flags => "im" \in events
        /\ job["main"].at \in {"idle", "im", "imLoaded", "imWrite"}
Alone ==
    ~crossed =>
        /\ ~(Saving("main") /\ Saving("worker"))
        /\ \A t \in Threads : /\ At(t, "imWrite") => imfile = NoData
                              /\ At(t, "imLoaded") => job[t].old = imfile
        /\ ~Pending => /\ \A t \in Threads : Saving(t) => job[t].copy = im
                       /\ (\A t \in Threads : ~Saving(t)) => ImGood

IInv == StationTypeOK /\ SetUp /\ AseInv /\ ImInv /\ Alone

-----------------------------------------------------------------------------
\* What the bounds spend is counted.
LEMMA SpendFacts ==
    ASSUME spent \in [changes : Nat, crashes : Nat, fails : Nat],
           NEW what \in {"changes", "crashes", "fails"}, NEW max, Spend(what, max)
    PROVE  /\ spent' \in [changes : Nat, crashes : Nat, fails : Nat]
           /\ spent'.fails >= spent.fails
           /\ what = "fails" => spent'.fails > 0
<1>1. CASE what = "changes"
  BY <1>1 DEF Spend
<1>2. CASE what = "crashes"
  BY <1>2 DEF Spend
<1>3. CASE what = "fails"
  BY <1>3 DEF Spend
<1> QED BY <1>1, <1>2, <1>3

\* The values a program starts with have their types.
LEMMA Types ==
    /\ Empty \in Ases /\ NoAse \in Ases /\ NoAse.name = NoData
    /\ \A a \in Ases : Stored(a) \in Ases
    /\ Rest \in Job /\ Rest.at = "idle" /\ Rest.flags = {}
    /\ {CfgIm, BlankIm, NoData} \subseteq ImData
BY StationAssumption DEF Empty, NoAse, Ase, Ases, Values, Stored, Rest, Job, Stages, ImData

\* What a thread in a job remembers keeps its type.
LEMMA StageChange ==
    ASSUME NEW jobs \in [Threads -> Job], NEW t \in Threads, NEW a \in Stages
    PROVE  [jobs EXCEPT ![t].at = a] \in [Threads -> Job]
<1>1. [jobs[t] EXCEPT !.at = a] \in Job
  BY DEF Job
<1>2. [jobs EXCEPT ![t].at = a] = [jobs EXCEPT ![t] = [jobs[t] EXCEPT !.at = a]]
  BY DEF Job
<1> QED BY <1>1, <1>2

LEMMA OldChange ==
    ASSUME NEW jobs \in [Threads -> Job], NEW t \in Threads, NEW a \in Stages,
           NEW o \in Ases \cup ImData
    PROVE  [jobs EXCEPT ![t].at = a, ![t].old = o] \in [Threads -> Job]
<1>1. [jobs[t] EXCEPT !.at = a, !.old = o] \in Job
  BY DEF Job
<1>2. [jobs EXCEPT ![t].at = a, ![t].old = o]
        = [jobs EXCEPT ![t] = [jobs[t] EXCEPT !.at = a, !.old = o]]
  BY DEF Job
<1> QED BY <1>1, <1>2

LEMMA CopyChange ==
    ASSUME NEW jobs \in [Threads -> Job], NEW t \in Threads, NEW a \in Stages,
           NEW o \in Ases \cup ImData, NEW c \in ImData
    PROVE  [jobs EXCEPT ![t].at = a, ![t].copy = c, ![t].old = o] \in [Threads -> Job]
<1>1. [jobs[t] EXCEPT !.at = a, !.copy = c, !.old = o] \in Job
  BY DEF Job
<1>2. [jobs EXCEPT ![t].at = a, ![t].copy = c, ![t].old = o]
        = [jobs EXCEPT ![t] = [jobs[t] EXCEPT !.at = a, !.copy = c, !.old = o]]
  BY DEF Job
<1> QED BY <1>1, <1>2

LEMMA RestChange ==
    ASSUME NEW jobs \in [Threads -> Job], NEW t \in Threads
    PROVE  [jobs EXCEPT ![t] = Rest] \in [Threads -> Job]
BY Types

-----------------------------------------------------------------------------
(***************************************************************************)
(* Every action keeps the invariant, part by part.                         *)
(***************************************************************************)
LEMMA ConnectInv == ASSUME IInv, Connect PROVE IInv'
<1> USE DEF Connect, MainIdle
<1>1. StationTypeOK'
  BY Types DEF IInv, StationTypeOK, Job, Stages, At
<1>2. SetUp'
  BY Types DEF IInv, StationTypeOK, SetUp, Running, Threads, Job, Stages, At
<1>3. AseInv'
  BY Types DEF IInv, StationTypeOK, SetUp, AseInv, AseGood, Running, Threads, Job, Stages, At
<1>4. ImInv'
  BY Types DEF IInv, StationTypeOK, SetUp, ImInv, Threads, Job, Stages, At
<1>5. Alone'
  BY Types DEF IInv, StationTypeOK, SetUp, ImInv, Alone, ImGood, Saving, Pending, Threads, Job,
       Stages, At
<1> QED BY <1>1, <1>2, <1>3, <1>4, <1>5 DEF IInv

LEMMA DisconnectInv == ASSUME IInv, Disconnect PROVE IInv'
<1> USE DEF Disconnect, MainIdle
<1>1. StationTypeOK'
  BY Types DEF IInv, StationTypeOK, Job, Stages, At
<1>2. SetUp'
  BY Types DEF IInv, StationTypeOK, SetUp, Running, Threads, Job, Stages, At
<1>3. AseInv'
  BY Types DEF IInv, StationTypeOK, SetUp, AseInv, AseGood, Running, Threads, Job, Stages, At
<1>4. ImInv'
  BY Types DEF IInv, StationTypeOK, SetUp, ImInv, Threads, Job, Stages, At
<1>5. Alone'
  BY Types DEF IInv, StationTypeOK, SetUp, ImInv, Alone, ImGood, Saving, Pending, Threads, Job,
       Stages, At
<1> QED BY <1>1, <1>2, <1>3, <1>4, <1>5 DEF IInv

LEMMA CminaInitInv == ASSUME IInv, CminaInit PROVE IInv'
<1> USE DEF CminaInit, MainIdle, Ases, Values
<1>1. StationTypeOK'
  BY Types DEF IInv, StationTypeOK, Job, Stages, At
<1>2. SetUp'
  BY Types DEF IInv, StationTypeOK, SetUp, Running, Threads, Job, Stages, At
<1>3. AseInv'
  BY Types DEF IInv, StationTypeOK, SetUp, AseInv, AseGood, Running, Threads, Job, Stages, At
<1>4. ImInv'
  BY Types DEF IInv, StationTypeOK, SetUp, ImInv, Threads, Job, Stages, At
<1>5. Alone'
  BY Types DEF IInv, StationTypeOK, SetUp, ImInv, Alone, ImGood, Saving, Pending, Threads, Job,
       Stages, At
<1> QED BY <1>1, <1>2, <1>3, <1>4, <1>5 DEF IInv

LEMMA WakeInv == ASSUME IInv, Wake PROVE IInv'
<1> USE DEF Wake, memory
<1>1. StationTypeOK'
  BY Types DEF IInv, StationTypeOK, Job, Stages, At
<1>2. SetUp'
  BY Types DEF IInv, StationTypeOK, SetUp, Running, Threads, Job, Stages, At
<1>3. AseInv'
  BY Types DEF IInv, StationTypeOK, SetUp, AseInv, AseGood, Running, Threads, Job, Stages, At
<1>4. ImInv'
  BY Types DEF IInv, StationTypeOK, SetUp, ImInv, Threads, Job, Stages, At
<1>5. Alone'
  BY Types DEF IInv, StationTypeOK, SetUp, ImInv, Alone, ImGood, Saving, Pending, Threads, Job,
       Stages, At
<1> QED BY <1>1, <1>2, <1>3, <1>4, <1>5 DEF IInv

LEMMA LoadAseInv == ASSUME IInv, LoadAse PROVE IInv'
<1> USE DEF LoadAse, Cleared, memory
<1>1. StationTypeOK'
  <2>1. /\ job \in [Threads -> Job] /\ "worker" \in Threads /\ {"aseLoaded"} \subseteq Stages
        /\ asefile \in Ases \cup ImData
    BY DEF IInv, StationTypeOK, Threads, Stages
  <2>2. job' \in [Threads -> Job]
    BY <2>1, StageChange, OldChange, CopyChange, RestChange
  <2> QED BY <2>2, Types DEF IInv, StationTypeOK
<1>2. SetUp'
  BY Types DEF IInv, StationTypeOK, SetUp, Running, Threads, Job, Stages, At
<1>3. AseInv'
  BY Types DEF IInv, StationTypeOK, SetUp, AseInv, AseGood, Running, Threads, Job, Stages, At
<1>4. ImInv'
  BY Types DEF IInv, StationTypeOK, SetUp, ImInv, Threads, Job, Stages, At
<1>5. Alone'
  BY Types DEF IInv, StationTypeOK, SetUp, ImInv, Alone, ImGood, Saving, Pending, Threads, Job,
       Stages, At
<1> QED BY <1>1, <1>2, <1>3, <1>4, <1>5 DEF IInv

LEMMA CompareAseInv == ASSUME IInv, CompareAse PROVE IInv'
<1> USE DEF CompareAse, Goes, memory
<1>1. StationTypeOK'
  <2>1. /\ job \in [Threads -> Job] /\ "worker" \in Threads /\ {"aseDone", "aseName"} \subseteq Stages
    BY DEF IInv, StationTypeOK, Threads, Stages
  <2>2. ASSUME job' = [job EXCEPT !["worker"].at = "aseDone"]
      PROVE  job' \in [Threads -> Job]
    BY <2>1, <2>2, StageChange
  <2>3. ASSUME job' = [job EXCEPT !["worker"].at = "aseName"]
      PROVE  job' \in [Threads -> Job]
    BY <2>1, <2>3, StageChange
  <2>4. job' \in [Threads -> Job]
    BY <2>2, <2>3
  <2> QED BY <2>4, Types DEF IInv, StationTypeOK
<1>2. SetUp'
  BY Types DEF IInv, StationTypeOK, SetUp, Running, Threads, Job, Stages, At
<1>3. AseInv'
  BY Types DEF IInv, StationTypeOK, SetUp, AseInv, AseGood, Running, Threads, Job, Stages, At
<1>4. ImInv'
  BY Types DEF IInv, StationTypeOK, SetUp, ImInv, Threads, Job, Stages, At
<1>5. Alone'
  BY Types DEF IInv, StationTypeOK, SetUp, ImInv, Alone, ImGood, Saving, Pending, Threads, Job,
       Stages, At
<1> QED BY <1>1, <1>2, <1>3, <1>4, <1>5 DEF IInv

LEMMA WriteNameInv == ASSUME IInv, WriteName PROVE IInv'
<1> USE DEF WriteName, memory
<1>1. StationTypeOK'
  <2>1. /\ job \in [Threads -> Job] /\ "worker" \in Threads /\ {"aseAddr"} \subseteq Stages
        /\ nv \in Ases \cup ImData
    BY DEF IInv, StationTypeOK, Threads, Stages
  <2>2. job' \in [Threads -> Job]
    BY <2>1, StageChange, OldChange, CopyChange, RestChange
  <2> QED BY <2>2, Types DEF IInv, StationTypeOK
<1>2. SetUp'
  BY Types DEF IInv, StationTypeOK, SetUp, Running, Threads, Job, Stages, At
<1>3. AseInv'
  BY Types DEF IInv, StationTypeOK, SetUp, AseInv, AseGood, Running, Threads, Job, Stages, At
<1>4. ImInv'
  BY Types DEF IInv, StationTypeOK, SetUp, ImInv, Threads, Job, Stages, At
<1>5. Alone'
  BY Types DEF IInv, StationTypeOK, SetUp, ImInv, Alone, ImGood, Saving, Pending, Threads, Job,
       Stages, At
<1> QED BY <1>1, <1>2, <1>3, <1>4, <1>5 DEF IInv

LEMMA NextImInv == ASSUME IInv, NextIm PROVE IInv'
<1> USE DEF NextIm, Goes, Cleared, memory
<1>1. StationTypeOK'
  <2>1. /\ job \in [Threads -> Job] /\ "worker" \in Threads /\ {"imClear"} \subseteq Stages
    BY DEF IInv, StationTypeOK, Threads, Stages
  <2>2. ASSUME job' = [job EXCEPT !["worker"] = Rest]
      PROVE  job' \in [Threads -> Job]
    BY <2>1, <2>2, RestChange
  <2>3. ASSUME job' = [job EXCEPT !["worker"].at = "imClear"]
      PROVE  job' \in [Threads -> Job]
    BY <2>1, <2>3, StageChange
  <2>4. job' \in [Threads -> Job]
    BY <2>2, <2>3
  <2> QED BY <2>4, Types DEF IInv, StationTypeOK
<1>2. SetUp'
  BY Types DEF IInv, StationTypeOK, SetUp, Running, Threads, Job, Stages, At
<1>3. AseInv'
  BY Types DEF IInv, StationTypeOK, SetUp, AseInv, AseGood, Running, Threads, Job, Stages, At
<1>4. ImInv'
  BY Types DEF IInv, StationTypeOK, SetUp, ImInv, Threads, Job, Stages, At
<1>5. Alone'
  BY Types DEF IInv, StationTypeOK, SetUp, ImInv, Alone, ImGood, Saving, Pending, Threads, Job,
       Stages, At
<1> QED BY <1>1, <1>2, <1>3, <1>4, <1>5 DEF IInv

LEMMA ClearImInv == ASSUME IInv, ClearIm PROVE IInv'
<1> USE DEF ClearIm, Goes, Cleared, memory
<1>1. StationTypeOK'
  <2>1. /\ job \in [Threads -> Job] /\ "worker" \in Threads /\ {"im"} \subseteq Stages
    BY DEF IInv, StationTypeOK, Threads, Stages
  <2>2. job' \in [Threads -> Job]
    BY <2>1, StageChange, OldChange, CopyChange, RestChange
  <2> QED BY <2>2, Types DEF IInv, StationTypeOK
<1>2. SetUp'
  BY Types DEF IInv, StationTypeOK, SetUp, Running, Threads, Job, Stages, At
<1>3. AseInv'
  BY Types DEF IInv, StationTypeOK, SetUp, AseInv, AseGood, Running, Threads, Job, Stages, At
<1>4. ImInv'
  BY Types DEF IInv, StationTypeOK, SetUp, ImInv, Threads, Job, Stages, At
<1>5. Alone'
  BY Types DEF IInv, StationTypeOK, SetUp, ImInv, Alone, ImGood, Saving, Pending, Threads, Job,
       Stages, At
<1> QED BY <1>1, <1>2, <1>3, <1>4, <1>5 DEF IInv

\* No block of a frame leads back into the start-up.
LEMMA Moves ==
    ASSUME Running, NEW c, NEW a, NEW b, NEW r
    PROVE  Evaluated(c, a, b, r).to # "SETUP"
BY DEF Evaluated, Running

LEMMA ReceiveInv == ASSUME IInv, NEW f \in Frames, Receive(f) PROVE IInv'
<1>0. /\ spent' \in [changes : Nat, crashes : Nat, fails : Nat]
      /\ spent'.fails >= spent.fails
  BY SpendFacts DEF IInv, StationTypeOK, Receive
<1>a. f \in Seq(Blocks \cup {Commit})
  BY DEF Frames
<1>b. Append(f, Commit) \in Seq(Blocks \cup {Commit})
  BY <1>a
<1> USE DEF Receive
<1>1. StationTypeOK'
  BY <1>0, <1>b, Types DEF IInv, StationTypeOK, Job, Stages, At
<1>2. SetUp'
  BY <1>0, Types DEF IInv, StationTypeOK, SetUp, Running, Threads, Job, Stages, At
<1>3. AseInv'
  BY <1>0, Types DEF IInv, StationTypeOK, SetUp, AseInv, AseGood, Running, Threads, Job, Stages, At
<1>4. ImInv'
  BY <1>0, Types DEF IInv, StationTypeOK, SetUp, ImInv, Threads, Job, Stages, At
<1>5. Alone'
  BY <1>0, Types DEF IInv, StationTypeOK, SetUp, ImInv, Alone, ImGood, Saving, Pending, Threads,
       Job, Stages, At
<1> QED BY <1>1, <1>2, <1>3, <1>4, <1>5 DEF IInv

LEMMA WriteImInv == ASSUME IInv, NEW v \in ImValues, WriteIm(v) PROVE IInv'
<1>0. /\ spent' \in [changes : Nat, crashes : Nat, fails : Nat]
      /\ spent'.fails >= spent.fails
  BY SpendFacts DEF IInv, StationTypeOK, WriteIm
<1>a. v \in ImData
  BY DEF ImData
<1> USE DEF WriteIm, MainIdle
<1>1. StationTypeOK'
  <2>1. /\ job \in [Threads -> Job] /\ "main" \in Threads /\ {"im"} \subseteq Stages
    BY DEF IInv, StationTypeOK, Threads, Stages
  <2>2. job' \in [Threads -> Job]
    BY <2>1, StageChange, OldChange, CopyChange, RestChange
  <2> QED BY <2>2, <1>0, <1>a, Types DEF IInv, StationTypeOK
<1>2. SetUp'
  BY <1>0, Types DEF IInv, StationTypeOK, SetUp, Running, Threads, Job, Stages, At
<1>3. AseInv'
  BY <1>0, Types DEF IInv, StationTypeOK, SetUp, AseInv, AseGood, Running, Threads, Job, Stages, At
<1>4. ImInv'
  BY <1>0, Types DEF IInv, StationTypeOK, SetUp, ImInv, Threads, Job, Stages, At
<1>5. Alone'
  BY <1>0, Types DEF IInv, StationTypeOK, SetUp, ImInv, Alone, ImGood, Saving, Pending, Threads,
       Job, Stages, At
<1> QED BY <1>1, <1>2, <1>3, <1>4, <1>5 DEF IInv

LEMMA FactoryResetInv == ASSUME IInv, FactoryReset PROVE IInv'
<1>0. /\ spent' \in [changes : Nat, crashes : Nat, fails : Nat]
      /\ spent'.fails >= spent.fails
  BY SpendFacts DEF IInv, StationTypeOK, FactoryReset
<1> USE DEF FactoryReset, MainIdle, Default, Ase, Empty, NoAse
<1>1. StationTypeOK'
  BY <1>0, Types DEF IInv, StationTypeOK, Job, Stages, At
<1>2. SetUp'
  BY <1>0, Types DEF IInv, StationTypeOK, SetUp, Running, Threads, Job, Stages, At
<1>3. AseInv'
  BY <1>0, Types DEF IInv, StationTypeOK, SetUp, AseInv, AseGood, Running, Threads, Job, Stages, At
<1>4. ImInv'
  BY <1>0, Types DEF IInv, StationTypeOK, SetUp, ImInv, Threads, Job, Stages, At
<1>5. Alone'
  BY <1>0, Types DEF IInv, StationTypeOK, SetUp, ImInv, Alone, ImGood, Saving, Pending, Threads,
       Job, Stages, At
<1> QED BY <1>1, <1>2, <1>3, <1>4, <1>5 DEF IInv

LEMMA SetInv == ASSUME IInv, frame # <<>>, frame' = Tail(frame), Set(Head(frame)),
       UNCHANGED <<job, imfile, crossed, spent>> PROVE IInv'
<1>0. Running
  BY DEF IInv, SetUp
<1>a. state' # "SETUP"
  BY <1>0, Moves DEF Running, Set
<1> USE DEF Set, Evaluated, Blocks, Commit, Ases, Values
<1>1. StationTypeOK'
  BY Types DEF IInv, StationTypeOK, Job, Stages, At
<1>2. SetUp'
  BY <1>a, Types DEF IInv, StationTypeOK, SetUp, Running, Threads, Job, Stages, At
<1>3. AseInv'
  BY Types DEF IInv, StationTypeOK, SetUp, AseInv, AseGood, Running, Threads, Job, Stages, At
<1>4. ImInv'
  BY Types DEF IInv, StationTypeOK, SetUp, ImInv, Threads, Job, Stages, At
<1>5. Alone'
  BY Types DEF IInv, StationTypeOK, SetUp, ImInv, Alone, ImGood, Saving, Pending, Threads, Job,
       Stages, At
<1> QED BY <1>1, <1>2, <1>3, <1>4, <1>5 DEF IInv

LEMMA ResetInv == ASSUME IInv, frame # <<>>, frame' = Tail(frame), Reset(Head(frame)),
       UNCHANGED <<job, imfile, crossed, spent>> PROVE IInv'
<1>0. Running
  BY DEF IInv, SetUp
<1>a. state' # "SETUP"
  BY <1>0, Moves DEF Running, Reset
<1> USE DEF Reset, Evaluated, Default
<1>1. StationTypeOK'
  BY Types DEF IInv, StationTypeOK, Job, Stages, At
<1>2. SetUp'
  BY <1>a, Types DEF IInv, StationTypeOK, SetUp, Running, Threads, Job, Stages, At
<1>3. AseInv'
  BY Types DEF IInv, StationTypeOK, SetUp, AseInv, AseGood, Running, Threads, Job, Stages, At
<1>4. ImInv'
  BY Types DEF IInv, StationTypeOK, SetUp, ImInv, Threads, Job, Stages, At
<1>5. Alone'
  BY Types DEF IInv, StationTypeOK, SetUp, ImInv, Alone, ImGood, Saving, Pending, Threads, Job,
       Stages, At
<1> QED BY <1>1, <1>2, <1>3, <1>4, <1>5 DEF IInv

LEMMA SetCommitInv == ASSUME IInv, frame # <<>>, frame' = Tail(frame), SetCommit(Head(frame)),
       UNCHANGED <<job, imfile, crossed, spent>> PROVE IInv'
<1> USE DEF SetCommit
<1>1. StationTypeOK'
  BY Types DEF IInv, StationTypeOK, Job, Stages, At
<1>2. SetUp'
  BY Types DEF IInv, StationTypeOK, SetUp, Running, Threads, Job, Stages, At
<1>3. AseInv'
  BY Types DEF IInv, StationTypeOK, SetUp, AseInv, AseGood, Running, Threads, Job, Stages, At
<1>4. ImInv'
  BY Types DEF IInv, StationTypeOK, SetUp, ImInv, Threads, Job, Stages, At
<1>5. Alone'
  BY Types DEF IInv, StationTypeOK, SetUp, ImInv, Alone, ImGood, Saving, Pending, Threads, Job,
       Stages, At
<1> QED BY <1>1, <1>2, <1>3, <1>4, <1>5 DEF IInv

LEMMA CopyImInv == ASSUME IInv, NEW t \in Threads, CopyIm(t) PROVE IInv'
<1> USE DEF CopyIm, memory
<1>1. StationTypeOK'
  <2>1. /\ job \in [Threads -> Job] /\ t \in Threads /\ {"imLoaded"} \subseteq Stages
        /\ im \in ImData /\ imfile \in Ases \cup ImData
    BY DEF IInv, StationTypeOK, Threads, Stages
  <2>2. job' \in [Threads -> Job]
    BY <2>1, StageChange, OldChange, CopyChange, RestChange
  <2> QED BY <2>2, Types DEF IInv, StationTypeOK
<1>2. SetUp'
  BY Types DEF IInv, StationTypeOK, SetUp, Running, Threads, Job, Stages, At
<1>3. AseInv'
  BY Types DEF IInv, StationTypeOK, SetUp, AseInv, AseGood, Running, Threads, Job, Stages, At
<1>4. ImInv'
  BY Types DEF IInv, StationTypeOK, SetUp, ImInv, Threads, Job, Stages, At
<1>5. Alone'
  <2> SUFFICES ASSUME ~crossed' PROVE Alone'
    BY DEF Alone
  <2>1. ~crossed /\ \A u \in Threads \ {t} : ~Saving(u)
    BY DEF Saving, At
  <2>2. /\ job'[t].at = "imLoaded" /\ job'[t].old = imfile /\ job'[t].copy = im
        /\ \A u \in Threads \ {t} : job'[u] = job[u]
    BY DEF IInv, StationTypeOK, Job
  <2> QED BY <2>1, <2>2 DEF IInv, Alone, ImGood, Saving, Pending, Threads, At
<1> QED BY <1>1, <1>2, <1>3, <1>4, <1>5 DEF IInv

LEMMA CompareImInv == ASSUME IInv, NEW t \in Threads, CompareIm(t) PROVE IInv'
<1> USE DEF CompareIm, Goes, memory
<1>1. StationTypeOK'
  <2>1. /\ job \in [Threads -> Job] /\ t \in Threads /\ {"imWrite"} \subseteq Stages
    BY DEF IInv, StationTypeOK, Threads, Stages
  <2>2. ASSUME job' = [job EXCEPT ![t] = Rest]
      PROVE  job' \in [Threads -> Job]
    BY <2>1, <2>2, RestChange
  <2>3. ASSUME job' = [job EXCEPT ![t].at = "imWrite"]
      PROVE  job' \in [Threads -> Job]
    BY <2>1, <2>3, StageChange
  <2>4. job' \in [Threads -> Job]
    BY <2>2, <2>3
  <2> QED BY <2>4, Types DEF IInv, StationTypeOK
<1>2. SetUp'
  BY Types DEF IInv, StationTypeOK, SetUp, Running, Threads, Job, Stages, At
<1>3. AseInv'
  BY Types DEF IInv, StationTypeOK, SetUp, AseInv, AseGood, Running, Threads, Job, Stages, At
<1>4. ImInv'
  BY Types DEF IInv, StationTypeOK, SetUp, ImInv, Threads, Job, Stages, At
<1>5. Alone'
  BY Types DEF IInv, StationTypeOK, SetUp, ImInv, Alone, ImGood, Saving, Pending, Threads, Job,
       Stages, At
<1> QED BY <1>1, <1>2, <1>3, <1>4, <1>5 DEF IInv

LEMMA WriteAddrInv == ASSUME IInv, WriteAddr PROVE IInv'
<1>0. /\ spent' \in [changes : Nat, crashes : Nat, fails : Nat]
      /\ spent'.fails >= spent.fails
      /\ spent'.fails > 0 \/ UNCHANGED spent
      /\ spent'.fails > 0 \/ ~Spend("fails", MaxFails)
  BY SpendFacts DEF IInv, StationTypeOK, WriteAddr
<1> USE DEF WriteAddr, Goes, memory
<1>a. Ase(job["worker"].old.name, nv.addr) \in Ases
  BY DEF IInv, StationTypeOK, AseInv, At, Ase, Ases
<1>b. job["worker"].old = nv => Ase(job["worker"].old.name, nv.addr) = nv
  BY DEF IInv, StationTypeOK, Ase, Ases
<1>1. StationTypeOK'
  <2>1. /\ job \in [Threads -> Job] /\ "worker" \in Threads /\ {"aseDone"} \subseteq Stages
    BY DEF IInv, StationTypeOK, Threads, Stages
  <2>2. job' \in [Threads -> Job]
    BY <2>1, StageChange, OldChange, CopyChange, RestChange
  <2> QED BY <2>2, <1>0, <1>a, Types DEF IInv, StationTypeOK
<1>2. SetUp'
  BY <1>0, Types DEF IInv, StationTypeOK, SetUp, Running, Threads, Job, Stages, At
<1>3. AseInv'
  BY <1>0, <1>b, Types DEF IInv, StationTypeOK, SetUp, AseInv, AseGood, Running, Threads, Job,
       Stages, At
<1>4. ImInv'
  BY <1>0, Types DEF IInv, StationTypeOK, SetUp, ImInv, Threads, Job, Stages, At
<1>5. Alone'
  BY <1>0, Types DEF IInv, StationTypeOK, SetUp, ImInv, Alone, ImGood, Saving, Pending, Threads,
       Job, Stages, At
<1> QED BY <1>1, <1>2, <1>3, <1>4, <1>5 DEF IInv

LEMMA StoreImInv == ASSUME IInv, NEW t \in Threads, StoreIm(t) PROVE IInv'
<1>0. /\ spent' \in [changes : Nat, crashes : Nat, fails : Nat]
      /\ spent'.fails >= spent.fails
      /\ spent'.fails > 0 \/ UNCHANGED spent
      /\ spent'.fails > 0 \/ ~Spend("fails", MaxFails)
  BY SpendFacts DEF IInv, StationTypeOK, StoreIm
<1> USE DEF StoreIm, memory
<1>1. StationTypeOK'
  <2>1. /\ job \in [Threads -> Job] /\ t \in Threads /\ {"idle"} \subseteq Stages
    BY DEF IInv, StationTypeOK, Threads, Stages
  <2>2. job' \in [Threads -> Job]
    BY <2>1, StageChange, OldChange, CopyChange, RestChange
  <2>3. imfile' \in ImData
    BY DEF IInv, StationTypeOK, Job
  <2> QED BY <2>2, <2>3, <1>0 DEF IInv, StationTypeOK
<1>2. SetUp'
  BY <1>0, Types DEF IInv, StationTypeOK, SetUp, Running, Threads, Job, Stages, At
<1>3. AseInv'
  BY <1>0, Types DEF IInv, StationTypeOK, SetUp, AseInv, AseGood, Running, Threads, Job, Stages, At
<1>4. ImInv'
  BY <1>0, Types DEF IInv, StationTypeOK, SetUp, ImInv, Threads, Job, Stages, At
<1>5. Alone'
  BY <1>0, Types DEF IInv, StationTypeOK, SetUp, ImInv, Alone, ImGood, Saving, Pending, Threads,
       Job, Stages, At
<1> QED BY <1>1, <1>2, <1>3, <1>4, <1>5 DEF IInv

\* Start-up, after a crash: nothing is under way, and the main thread saves.
LEMMA BootedInv ==
    ASSUME IInv, Booted, spent' \in [changes : Nat, crashes : Nat, fails : Nat]
    PROVE  IInv'
<1> USE DEF Booted, Running
<1>1. StationTypeOK'
  <2>1. job' \in [Threads -> Job]
    BY Types DEF Threads, Job, Stages, Rest, ImData
  <2>2. nv' \in Ases /\ asefile' \in Ases /\ im' \in ImData /\ imfile' \in ImData
    BY Types DEF IInv, StationTypeOK
  <2>3. frame' \in Seq(Blocks \cup {Commit})
    OBVIOUS
  <2> QED BY <2>1, <2>2, <2>3 DEF StationTypeOK
<1>2. /\ job'["worker"] = Rest /\ job'["main"].at = "im"
  BY DEF Threads, Rest
<1>3. SetUp'
  BY <1>2, Types DEF SetUp
<1>4. AseInv'
  BY <1>2, Types DEF AseInv
<1>5. ImInv'
  BY <1>2, Types DEF ImInv
<1>6. Alone'
  BY <1>2, Types DEF Alone, Saving, Pending, At, Threads
<1> QED BY <1>1, <1>3, <1>4, <1>5, <1>6 DEF IInv

LEMMA InitInv == StationInit => IInv
<1> SUFFICES ASSUME StationInit PROVE IInv
  OBVIOUS
<1> USE DEF StationInit, Running
<1>1. StationTypeOK
  <2>1. job \in [Threads -> Job]
    BY Types DEF Threads, Job, Stages, Rest, ImData
  <2>2. nv \in Ases /\ asefile \in Ases /\ im \in ImData /\ imfile \in ImData
    BY Types
  <2>3. frame \in Seq(Blocks \cup {Commit}) /\ spent \in [changes : Nat, crashes : Nat, fails : Nat]
    OBVIOUS
  <2> QED BY <2>1, <2>2, <2>3 DEF StationTypeOK
<1>2. /\ job["worker"] = Rest /\ job["main"].at = "im"
  BY DEF Threads, Rest
<1>3. SetUp
  BY <1>2, Types DEF SetUp
<1>4. AseInv
  BY <1>2, Types DEF AseInv
<1>5. ImInv
  BY <1>2, Types DEF ImInv
<1>6. Alone
  BY <1>2, Types DEF Alone, Saving, Pending, At, Threads
<1> QED BY <1>1, <1>3, <1>4, <1>5, <1>6 DEF IInv

LEMMA StutterInv == ASSUME IInv, UNCHANGED svars PROVE IInv'
BY DEF IInv, StationTypeOK, SetUp, AseInv, AseGood, ImInv, Alone, ImGood, Saving, Pending, At,
       Running, svars, memory

LEMMA StepInv == IInv /\ [StationNext]_svars => IInv'
<1> SUFFICES ASSUME IInv, [StationNext]_svars PROVE IInv'
  OBVIOUS
<1>1. ASSUME NEW f \in Frames, Receive(f) PROVE IInv'
  BY <1>1, ReceiveInv
<1>2. CASE Block
  <2>1. /\ frame # <<>> /\ frame' = Tail(frame)
        /\ UNCHANGED <<job, imfile, crossed, spent>>
    BY <1>2 DEF Block
  <2>2. CASE Set(Head(frame))
    BY <2>1, <2>2, SetInv
  <2>3. CASE Reset(Head(frame))
    BY <2>1, <2>3, ResetInv
  <2>4. CASE SetCommit(Head(frame))
    BY <2>1, <2>4, SetCommitInv
  <2> QED BY <1>2, <2>2, <2>3, <2>4 DEF Block
<1>3. CASE Connect
  BY <1>3, ConnectInv
<1>4. CASE Disconnect
  BY <1>4, DisconnectInv
<1>5. CASE FactoryReset
  BY <1>5, FactoryResetInv
<1>6. ASSUME NEW v \in ImValues, WriteIm(v) PROVE IInv'
  BY <1>6, WriteImInv
<1>7. CASE SavesIm
  <2>1. "main" \in Threads
    BY DEF Threads
  <2> QED BY <1>7, <2>1, CopyImInv, CompareImInv, StoreImInv DEF SavesIm
<1>8. CASE CminaInit
  BY <1>8, CminaInitInv
<1>9. CASE Worker
  <2>1. "worker" \in Threads
    BY DEF Threads
  <2> QED BY <1>9, <2>1, WakeInv, LoadAseInv, CompareAseInv, WriteNameInv, WriteAddrInv, NextImInv,
             ClearImInv, CopyImInv, CompareImInv, StoreImInv DEF Worker
<1>10. CASE Crash
  <2>1. spent' \in [changes : Nat, crashes : Nat, fails : Nat]
    BY <1>10, SpendFacts DEF Crash, IInv, StationTypeOK
  <2> QED BY <1>10, <2>1, BootedInv DEF Crash
<1>11. CASE UNCHANGED svars
  BY <1>11, StutterInv
<1> QED BY <1>1, <1>2, <1>3, <1>4, <1>5, <1>6, <1>7, <1>8, <1>9, <1>10, <1>11 DEF StationNext

\* The inductive invariant: what the worker and the main thread rely on between
\* the steps of saving (pf_bg_worker.c, pf_cmina_save_ase, pf_fspm_save_im).
THEOREM StationInvariant == StationSpec => []IInv
<1>1. IInv /\ [StationNext]_svars => IInv'
  BY StepInv
<1> QED BY <1>1, InitInv, PTL DEF StationSpec

\* The name and address that were set are in the file whenever the worker has
\* nothing left to do for them, for any sequence of settings, resets, crashes
\* and failures (bg_worker_task clears the event before it saves).
THEOREM AseIsKept == StationSpec => []Kept
<1>1. IInv => Kept
  BY DEF IInv, SetUp, AseInv, AseGood, Kept, AseSettled, At
<1> QED BY <1>1, StationInvariant, PTL

\* The I&M data likewise, as long as the two threads do not save them at once
\* (pf_fspm_save_im).
THEOREM ImIsKept == StationSpec => []ImKept
<1>1. IInv => ImKept
  BY DEF IInv, StationTypeOK, Threads, Job, Stages, ImInv, Alone, ImGood, Saving, Pending, ImKept,
         ImSettled, MainIdle, At
<1> QED BY <1>1, StationInvariant, PTL

=============================================================================
