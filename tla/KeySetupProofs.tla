--------------------------- MODULE KeySetupProofs ---------------------------
(***************************************************************************)
(* What holds of KeySetup for every number of requests, keys, passwords,   *)
(* slices and restarts.                                                    *)
(***************************************************************************)
EXTENDS KeySetup, FiniteSetTheorems, TLAPS

(* TypeOK is not inductive: a key file is written with what a request got  *)
(* several steps before.                                                   *)
JobInv ==
  \A q \in Request :
    /\ step[q] \in AtES => sent[q] \in madeOtps \union {None}
    /\ step[q] \in {"read", "received", "emptied", "writing"} => got[q] \in madeKeys
    /\ step[q] = "writing" => under[q] \in madeKeys

(* What TypeOK says of the local state of the requests.                    *)
LocalsOK ==
  /\ step \in [Request -> Step]
  /\ sent \in [Request -> Otp \union {None}]
  /\ got \in [Request -> Key \union {None}]
  /\ under \in [Request -> Key \union {None}]
  /\ todo \in [Request -> SUBSET Slice]
  /\ orphans \subseteq InStep(AtES)
  /\ JobInv

-----------------------------------------------------------------------------
(* The first of some files is one of them.                                 *)
LEMMA FirstFileIsOne ==
  ASSUME NEW files, files # {}
  PROVE  FirstFile(files) \in files
BY DEF FirstFile

(* Requests that end keep nothing, and the others keep what they have.     *)
LEMMA EndLocals ==
  ASSUME LocalsOK, NEW S, EndTasks(S), orphans' \in {orphans \ S, InStep(AtES) \ S},
         madeKeys \subseteq madeKeys', madeOtps \subseteq madeOtps'
  PROVE  LocalsOK'
<1>1. PICK empty \in SUBSET Slice : empty = {}
  OBVIOUS
<1>2. todo' = [q \in Request |-> IF q \in S THEN empty ELSE todo[q]]
  BY <1>1 DEF EndTasks
<1>3. todo' \in [Request -> SUBSET Slice]
  BY <1>2 DEF LocalsOK
<1>4. /\ step' \in [Request -> Step]
      /\ sent' \in [Request -> Otp \union {None}]
      /\ got' \in [Request -> Key \union {None}]
      /\ under' \in [Request -> Key \union {None}]
  BY DEF EndTasks, LocalsOK, Step
<1>5. JobInv'
  BY DEF EndTasks, LocalsOK, JobInv, AtES
<1>6. orphans' \subseteq InStep(AtES)'
  BY DEF EndTasks, LocalsOK, InStep, AtES
<1> QED
  BY <1>3, <1>4, <1>5, <1>6 DEF LocalsOK

(* What a step of the system is for the requests' local state.             *)
LEMMA LocalsOfAdministrator ==
  ASSUME TypeOK, JobInv, Administrator
  PROVE  LocalsOK'
<1>1. /\ madeOtps \subseteq madeOtps'
      /\ UNCHANGED <<madeKeys, step, sent, got, under, todo, orphans>>
  BY DEF Administrator, GenerateOTP, SetOTP, ResetDownloadOTP, ExpireOTP, ResetKeys,
         UploadEVSKey, WriteUploadedKey, esvars, locals
<1> QED
  BY <1>1 DEF LocalsOK, TypeOK, JobInv, InStep

LEMMA LocalsOfDownload ==
  ASSUME TypeOK, JobInv, NEW q \in Request, Download(q)
  PROVE  LocalsOK'
<1> USE DEF esvars, vsvars
<1>0. LocalsOK
  BY DEF TypeOK, LocalsOK
<1>1. UNCHANGED <<madeKeys, madeOtps>>
  BY DEF Download, DownloadEVSKey, HasOTP, CheckOTP, ReadKeyFile, GiveKey,
         DeleteKeyFiles, WriteKeyFile
<1>2. CASE End({q})
  BY <1>0, <1>1, <1>2, EndLocals DEF End
<1> USE DEF InStep, AtES
<1>3. ASSUME NEW o \in madeOtps \union {None}, DownloadEVSKey(q, o)
      PROVE  LocalsOK'
  BY <1>0, <1>1, <1>3 DEF DownloadEVSKey, Go, LocalsOK, JobInv, Step, TypeOK
<1>9. CASE HasOTP(q) /\ ~End({q})
  BY <1>0, <1>1, <1>9 DEF HasOTP, Go, LocalsOK, JobInv, Step
<1>4. CASE CheckOTP(q) /\ ~End({q})
  BY <1>0, <1>1, <1>4 DEF CheckOTP, Go, LocalsOK, JobInv, Step
<1>5. CASE ReadKeyFile(q) /\ ~End({q})
  <2>1. FirstFile(esFiles) \in madeKeys
    <3>1. esFiles # {}
      BY <1>5, FS_EmptySet DEF ReadKeyFile
    <3> QED
      BY <3>1, FirstFileIsOne DEF TypeOK
  <2> QED
    BY <1>0, <1>1, <1>5, <2>1 DEF ReadKeyFile, Go, LocalsOK, JobInv, Step, TypeOK
<1>6. CASE GiveKey(q) /\ ~End({q})
  BY <1>0, <1>1, <1>6 DEF GiveKey, Go, LocalsOK, JobInv, Step
<1>7. CASE DeleteKeyFiles(q)
  BY <1>0, <1>1, <1>7 DEF DeleteKeyFiles, Go, LocalsOK, JobInv, Step
<1>8. CASE WriteKeyFile(q)
  BY <1>2, <1>8 DEF WriteKeyFile
<1> QED
  BY <1>2, <1>3, <1>4, <1>5, <1>6, <1>7, <1>8, <1>9 DEF Download

LEMMA LocalsOfGeneration ==
  ASSUME TypeOK, JobInv, NEW q \in Request, Generation(q)
  PROVE  LocalsOK'
<1> USE DEF esvars, vsvars
<1>0. LocalsOK
  BY DEF TypeOK, LocalsOK
<1>1. UNCHANGED <<madeKeys, madeOtps>>
  BY DEF Generation, GuardianKeyGen, GenKeys, WriteSlice, SetFlag
<1>2. CASE End({q})
  BY <1>0, <1>1, <1>2, EndLocals DEF End
<1> USE DEF InStep, AtES
<1>3. CASE GuardianKeyGen(q)
  BY <1>0, <1>1, <1>3 DEF GuardianKeyGen, Go, LocalsOK, JobInv, Step
<1>4. CASE GenKeys(q) /\ ~End({q})
  <2>1. FirstFile(vsFiles) \in madeKeys
    BY <1>4, FirstFileIsOne DEF GenKeys, TypeOK
  <2>2. PICK k \in vsKeys : under' = [under EXCEPT ![q] = k]
    BY <1>4 DEF GenKeys
  <2>3. k \in madeKeys /\ k \in Key
    BY <2>2 DEF TypeOK
  <2>4. PICK all \in SUBSET Slice : all = Slice
    OBVIOUS
  <2>5. todo' = [todo EXCEPT ![q] = all]
    BY <1>4, <2>4 DEF GenKeys
  <2>6. todo' \in [Request -> SUBSET Slice]
    BY <1>0, <2>5 DEF LocalsOK
  <2>7. /\ step' = [step EXCEPT ![q] = "writing"] /\ sent' = sent /\ orphans' = orphans
        /\ got' = [got EXCEPT ![q] = FirstFile(vsFiles)]
    BY <1>4 DEF GenKeys, Go
  <2>8. /\ step' \in [Request -> Step] /\ sent' \in [Request -> Otp \union {None}]
        /\ got' \in [Request -> Key \union {None}]
        /\ under' \in [Request -> Key \union {None}]
    BY <1>0, <2>1, <2>2, <2>3, <2>7 DEF LocalsOK, Step, TypeOK
  <2>9. JobInv'
    BY <1>0, <1>1, <2>1, <2>2, <2>3, <2>7 DEF LocalsOK, JobInv
  <2>10. orphans' \subseteq InStep(AtES)'
    BY <1>0, <1>4, <2>7 DEF LocalsOK, GenKeys
  <2> QED
    BY <2>6, <2>8, <2>9, <2>10 DEF LocalsOK
<1>5. ASSUME NEW i \in Slice, WriteSlice(q, i)
      PROVE  LocalsOK'
  <2>1. PICK left \in SUBSET Slice : left = todo[q] \ {i}
    BY <1>0 DEF LocalsOK
  <2>2. todo' = [todo EXCEPT ![q] = left]
    BY <1>5, <2>1 DEF WriteSlice
  <2>3. todo' \in [Request -> SUBSET Slice]
    BY <1>0, <2>2 DEF LocalsOK
  <2> QED
    BY <1>0, <1>1, <1>5, <2>3 DEF WriteSlice, LocalsOK, JobInv
<1>6. CASE SetFlag(q)
  BY <1>2, <1>6 DEF SetFlag
<1> QED
  BY <1>2, <1>3, <1>4, <1>5, <1>6 DEF Generation
LEMMA LocalsTypes ==
  ASSUME TypeOK, JobInv, [Next]_vars
  PROVE  LocalsOK'
<1>0. LocalsOK
  BY DEF TypeOK, LocalsOK
<1>1. ASSUME madeKeys \subseteq madeKeys', madeOtps \subseteq madeOtps', UNCHANGED locals
      PROVE  LocalsOK'
  BY <1>0, <1>1 DEF LocalsOK, JobInv, locals, InStep
<1>2. CASE UNCHANGED vars
  BY <1>1, <1>2 DEF vars, esvars
<1>3. CASE LoadESElectionConfiguration
  BY <1>1, <1>3 DEF LoadESElectionConfiguration, esvars
<1>4. CASE (\E i \in Slice : TakeKey(i)) \/ ClearKeys
  BY <1>1, <1>4 DEF TakeKey, ClearKeys, esvars
<1>5. CASE RestartVS
  <2>1. PICK S : S = {q \in Request : step[q] \notin {"new"} \union AtES}
    OBVIOUS
  <2>2. EndTasks(S) /\ orphans' = InStep(AtES)
    BY <1>5, <2>1 DEF RestartVS, ForgetRequests
  <2>3. InStep(AtES) = InStep(AtES) \ S
    BY <2>1 DEF InStep
  <2> QED
    BY <1>0, <1>5, <2>2, <2>3, EndLocals DEF RestartVS, esvars
<1>6. CASE RestartES
  BY <1>0, <1>6, EndLocals DEF RestartES, End, vsvars
<1> QED
  BY <1>2, <1>3, <1>4, <1>5, <1>6, LocalsOfAdministrator, LocalsOfDownload,
     LocalsOfGeneration DEF Next

-----------------------------------------------------------------------------
(* What TypeOK says of the state that requests share.                      *)
SharedOK ==
  /\ esFiles \subseteq madeKeys /\ esKey \in madeKeys
  /\ vsFiles \subseteq madeKeys /\ vsKeys \subseteq madeKeys
  /\ madeKeys \subseteq Key
  /\ otp \in madeOtps \union {None} /\ madeOtps \subseteq Otp
  /\ expired \in BOOLEAN /\ drawing \in BOOLEAN /\ flag \in BOOLEAN
  /\ upload \in madeKeys \union {None}
  /\ loaded \in madeKeys \union {None}
  /\ temp \in [Slice -> Slices] /\ held \in [Slice -> Slices]
  /\ restarts \in 0 .. MaxRestarts

HistoryOK ==
  /\ given \subseteq Request \X (Otp \union {None})
  /\ beside \in [Request -> SUBSET Request]
  /\ recut \in BOOLEAN
  /\ racing \subseteq Request

LEMMA SharedOfAdministrator ==
  ASSUME SharedOK, Administrator
  PROVE  SharedOK'
<1> USE DEF esvars, vsvars, SharedOK
<1>1. CASE GenerateOTP \/ SetOTP \/ ResetDownloadOTP \/ ExpireOTP
  BY <1>1 DEF GenerateOTP, SetOTP, ResetDownloadOTP, ExpireOTP
<1>2. CASE ResetKeys \/ WriteUploadedKey
  BY <1>2 DEF ResetKeys, WriteUploadedKey
<1>3. ASSUME NEW k \in Upload, UploadEVSKey(k)
      PROVE  SharedOK'
  BY <1>3 DEF UploadEVSKey
<1> QED
  BY <1>1, <1>2, <1>3 DEF Administrator

LEMMA SharedOfDownload ==
  ASSUME SharedOK, JobInv, NEW q \in Request, Download(q)
  PROVE  SharedOK'
<1> USE DEF esvars, vsvars, SharedOK
<1>1. ASSUME NEW o \in madeOtps \union {None}, DownloadEVSKey(q, o)
      PROVE  SharedOK'
  BY <1>1 DEF DownloadEVSKey
<1>2. CASE HasOTP(q) \/ CheckOTP(q)
  BY <1>2 DEF HasOTP, CheckOTP
<1>3. CASE ReadKeyFile(q)
  BY <1>3 DEF ReadKeyFile
<1>4. CASE GiveKey(q)
  BY <1>4 DEF GiveKey
<1>5. CASE DeleteKeyFiles(q)
  BY <1>5 DEF DeleteKeyFiles
<1>6. CASE WriteKeyFile(q)
  <2>1. got[q] \in madeKeys
    BY <1>6 DEF WriteKeyFile, JobInv
  <2> QED
    BY <1>6, <2>1 DEF WriteKeyFile
<1> QED
  BY <1>1, <1>2, <1>3, <1>4, <1>5, <1>6 DEF Download

LEMMA SharedOfGeneration ==
  ASSUME SharedOK, JobInv, NEW q \in Request, Generation(q)
  PROVE  SharedOK'
<1> USE DEF esvars, vsvars, SharedOK
<1>1. CASE GuardianKeyGen(q) \/ GenKeys(q)
  BY <1>1 DEF GuardianKeyGen, GenKeys
<1>2. ASSUME NEW i \in Slice, WriteSlice(q, i)
      PROVE  SharedOK'
  <2> DEFINE s == [of |-> got[q], under |-> under[q]]
  <2>1. s \in Slices
    BY <1>2 DEF WriteSlice, JobInv, Slices
  <2>2. temp' = [temp EXCEPT ![i] = s]
    BY <1>2 DEF WriteSlice
  <2> HIDE DEF s
  <2>3. temp' \in [Slice -> Slices]
    BY <2>1, <2>2
  <2> QED
    BY <1>2, <2>3 DEF WriteSlice
<1>3. CASE SetFlag(q)
  BY <1>3 DEF SetFlag
<1> QED
  BY <1>1, <1>2, <1>3 DEF Generation

LEMMA SharedOfOthers ==
  ASSUME SharedOK
  PROVE  /\ LoadESElectionConfiguration => SharedOK'
         /\ \A i \in Slice : TakeKey(i) => SharedOK'
         /\ ClearKeys => SharedOK'
         /\ RestartVS => SharedOK'
         /\ RestartES => SharedOK'
<1> USE DEF esvars, vsvars, SharedOK
<1>1. ASSUME LoadESElectionConfiguration PROVE SharedOK'
  BY <1>1 DEF LoadESElectionConfiguration
<1>2. ASSUME NEW i \in Slice, TakeKey(i) PROVE SharedOK'
  BY <1>2 DEF TakeKey
<1>3. ASSUME ClearKeys PROVE SharedOK'
  <2>1. PICK s \in Slices : s = NoSlice
    BY DEF Slices
  <2>2. temp' = [i \in Slice |-> s]
    BY <1>3, <2>1 DEF ClearKeys
  <2>3. temp' \in [Slice -> Slices]
    BY <2>2
  <2> QED
    BY <1>3, <2>3 DEF ClearKeys
<1>4. ASSUME RestartVS PROVE SharedOK'
  <2>1. restarts' \in 0 .. MaxRestarts
    BY <1>4, SetupAssumption DEF RestartVS
  <2>2. /\ madeKeys \subseteq madeKeys' /\ madeKeys' \subseteq Key
        /\ vsFiles' \subseteq madeKeys' /\ vsKeys' \subseteq madeKeys'
    BY <1>4 DEF RestartVS
  <2>3. UNCHANGED <<esvars, loaded, flag, temp, held>>
    BY <1>4 DEF RestartVS
  <2> QED
    BY <2>1, <2>2, <2>3
<1>5. ASSUME RestartES PROVE SharedOK'
  <2>1. restarts' \in 0 .. MaxRestarts
    BY <1>5, SetupAssumption DEF RestartES
  <2>2. /\ madeKeys \subseteq madeKeys' /\ madeKeys' \subseteq Key
        /\ esFiles' \subseteq madeKeys' /\ esKey' \in madeKeys'
    BY <1>5, FirstFileIsOne DEF RestartES
  <2>3. /\ otp' = None /\ expired' = TRUE /\ drawing' = FALSE /\ upload' = None
        /\ UNCHANGED <<madeOtps, vsvars>>
    BY <1>5 DEF RestartES
  <2> QED
    BY <2>1, <2>2, <2>3
<1> QED
  BY <1>1, <1>2, <1>3, <1>4, <1>5

LEMMA HistoryTypes ==
  ASSUME HistoryOK, JobInv, madeOtps \subseteq Otp, [Next]_vars
  PROVE  HistoryOK'
<1> USE DEF HistoryOK
<1>1. CASE UNCHANGED vars
  BY <1>1 DEF vars, history
<1>2. CASE Administrator
  BY <1>2 DEF Administrator, GenerateOTP, SetOTP, ResetDownloadOTP, ExpireOTP,
              ResetKeys, UploadEVSKey, WriteUploadedKey, history
<1>3. ASSUME NEW q \in Request, Download(q)
      PROVE  HistoryOK'
  <2>1. ASSUME NEW o \in madeOtps \union {None}, DownloadEVSKey(q, o)
        PROVE  HistoryOK'
    BY <2>1 DEF DownloadEVSKey, history
  <2>6. CASE HasOTP(q)
    BY <2>6 DEF HasOTP, history
  <2>2. CASE CheckOTP(q)
    <3>1. InStep({"checked", "read"}) \in SUBSET Request
      BY DEF InStep
    <3> QED
      BY <2>2, <3>1 DEF CheckOTP
  <2>3. CASE ReadKeyFile(q)
    BY <2>3 DEF ReadKeyFile, history
  <2>4. CASE GiveKey(q)
    BY <2>4 DEF GiveKey, JobInv, AtES
  <2>5. CASE DeleteKeyFiles(q) \/ WriteKeyFile(q)
    BY <2>5 DEF DeleteKeyFiles, WriteKeyFile, Cut
  <2> QED
    BY <1>3, <2>1, <2>2, <2>3, <2>4, <2>5, <2>6 DEF Download
<1>4. ASSUME NEW q \in Request, Generation(q)
      PROVE  HistoryOK'
  BY <1>4 DEF Generation, GuardianKeyGen, GenKeys, WriteSlice, SetFlag, history
<1>5. CASE LoadESElectionConfiguration
  BY <1>5 DEF LoadESElectionConfiguration, InStep
<1>6. CASE (\E i \in Slice : TakeKey(i)) \/ ClearKeys \/ RestartVS \/ RestartES
  BY <1>6 DEF TakeKey, ClearKeys, RestartVS, RestartES, history
<1> QED
  BY <1>1, <1>2, <1>3, <1>4, <1>5, <1>6 DEF Next

-----------------------------------------------------------------------------
LEMMA TypesAtStart == Init => TypeOK /\ JobInv
<1> SUFFICES ASSUME Init PROVE TypeOK /\ JobInv
  OBVIOUS
<1>1. PICK empty \in SUBSET Slice : empty = {}
  OBVIOUS
<1>2. PICK none \in SUBSET Request : none = {}
  OBVIOUS
<1>3. PICK s \in Slices : s = NoSlice
  BY DEF Slices
<1>4. /\ todo = [q \in Request |-> empty] /\ beside = [q \in Request |-> none]
      /\ temp = [i \in Slice |-> s] /\ held = [i \in Slice |-> s]
  BY <1>1, <1>2, <1>3 DEF Init
<1>5. /\ todo \in [Request -> SUBSET Slice] /\ beside \in [Request -> SUBSET Request]
      /\ temp \in [Slice -> Slices] /\ held \in [Slice -> Slices]
  BY <1>4
<1>6. LocalsOK
  BY <1>5 DEF Init, LocalsOK, JobInv, Step, AtES
<1>7. SharedOK
  <2>1. /\ {FirstES} \subseteq {FirstES, FirstVS} /\ {FirstVS} \subseteq {FirstES, FirstVS}
        /\ {FirstES, FirstVS} \subseteq Key
    BY SetupAssumption
  <2>2. /\ esFiles \subseteq madeKeys /\ esKey \in madeKeys
        /\ vsFiles \subseteq madeKeys /\ vsKeys \subseteq madeKeys
        /\ madeKeys \subseteq Key
        /\ otp \in madeOtps \union {None} /\ madeOtps \subseteq Otp
        /\ loaded \in madeKeys \union {None} /\ upload \in madeKeys \union {None}
    BY <2>1 DEF Init
  <2>3. expired \in BOOLEAN /\ drawing \in BOOLEAN /\ flag \in BOOLEAN
    BY DEF Init
  <2>4. restarts \in 0 .. MaxRestarts
    BY SetupAssumption DEF Init
  <2> QED
    BY <1>5, <2>2, <2>3, <2>4 DEF SharedOK
<1>8. HistoryOK
  BY <1>5 DEF Init, HistoryOK
<1> QED
  BY <1>6, <1>7, <1>8 DEF LocalsOK, SharedOK, HistoryOK, TypeOK

LEMMA TypesKept ==
  ASSUME TypeOK, JobInv, [Next]_vars
  PROVE  (TypeOK /\ JobInv)'
<1>1. SharedOK /\ HistoryOK
  BY DEF TypeOK, SharedOK, HistoryOK
<1>2. LocalsOK'
  BY LocalsTypes
<1>3. SharedOK'
  <2>1. CASE UNCHANGED vars
    BY <1>1, <2>1 DEF vars, esvars, vsvars, SharedOK
  <2> QED
    BY <1>1, <2>1, SharedOfAdministrator, SharedOfDownload, SharedOfGeneration,
       SharedOfOthers DEF Next
<1>4. HistoryOK'
  BY <1>1, HistoryTypes DEF SharedOK
<1> QED
  BY <1>2, <1>3, <1>4 DEF LocalsOK, SharedOK, HistoryOK, TypeOK

(* Every reachable state is well typed, and a request that is to write a   *)
(* key file or a slice has a key to write.                                 *)
THEOREM TypeCorrect == Spec => [](TypeOK /\ JobInv)
<1>1. TypeOK /\ JobInv /\ [Next]_vars => (TypeOK /\ JobInv)'
  BY TypesKept
<1> QED
  BY TypesAtStart, <1>1, PTL DEF Spec
-----------------------------------------------------------------------------
(* The key of the loaded elections.                                        *)

Downloading == AtES \union {"received", "emptied"}

(* Once the elections are loaded no download begins, and those that had    *)
(* begun were noted, unless the voting system had forgotten them.          *)
KeepInv ==
  /\ LoadedKeyStays
  /\ loaded # None => InStep(Downloading) \ orphans \subseteq racing
  /\ Request = {} => vsKeys \subseteq vsFiles

LEMMA KeepOfDownload ==
  ASSUME TypeOK, KeepInv, NEW q \in Request, Download(q)
  PROVE  KeepInv'
<1> USE DEF KeepInv, LoadedKeyStays, InStep, Downloading, AtES, End, EndTasks, Go, TypeOK,
            esvars, vsvars, history
<1>1. ASSUME NEW o \in madeOtps \union {None}, DownloadEVSKey(q, o)
      PROVE  KeepInv'
  BY <1>1 DEF DownloadEVSKey
<1>7. CASE HasOTP(q)
  BY <1>7 DEF HasOTP
<1>2. CASE CheckOTP(q)
  BY <1>2 DEF CheckOTP
<1>3. CASE ReadKeyFile(q)
  BY <1>3 DEF ReadKeyFile
<1>4. CASE GiveKey(q)
  BY <1>4 DEF GiveKey
<1>5. CASE DeleteKeyFiles(q)
  BY <1>5 DEF DeleteKeyFiles
<1>6. CASE WriteKeyFile(q)
  BY <1>6 DEF WriteKeyFile
<1> QED
  BY <1>1, <1>2, <1>3, <1>4, <1>5, <1>6, <1>7 DEF Download

LEMMA KeepOfGeneration ==
  ASSUME TypeOK, KeepInv, NEW q \in Request, Generation(q)
  PROVE  KeepInv'
<1> USE DEF KeepInv, LoadedKeyStays, InStep, Downloading, AtES, End, EndTasks, Go, TypeOK,
            esvars, vsvars, history
<1>1. CASE GuardianKeyGen(q) \/ SetFlag(q)
  BY <1>1 DEF GuardianKeyGen, SetFlag
<1>2. CASE GenKeys(q)
  BY <1>2 DEF GenKeys
<1>3. CASE \E i \in Slice : WriteSlice(q, i)
  BY <1>3 DEF WriteSlice
<1> QED
  BY <1>1, <1>2, <1>3 DEF Generation

(* A load with a key whose file is there leaves only the downloads under   *)
(* way; with another key, every request may be to blame.                   *)
LEMMA KeepOfLoad ==
  ASSUME TypeOK, KeepInv, LoadESElectionConfiguration
  PROVE  KeepInv'
<1>1. CASE esKey \in vsFiles
  BY <1>1 DEF LoadESElectionConfiguration, KeepInv, LoadedKeyStays, InStep, Downloading,
              esvars, locals
<1>2. CASE esKey \notin vsFiles
  <2>1. Request # {}
    BY <1>2 DEF LoadESElectionConfiguration, KeepInv
  <2>2. racing' = Request
    BY <1>2 DEF LoadESElectionConfiguration
  <2> QED
    BY <2>1, <2>2 DEF KeepInv, LoadedKeyStays, InStep
<1> QED
  BY <1>1, <1>2

LEMMA KeepKept ==
  ASSUME TypeOK, KeepInv, [Next]_vars
  PROVE  KeepInv'
<1>1. ASSUME UNCHANGED <<loaded, vsFiles, vsKeys, racing, step, orphans>>
      PROVE  KeepInv'
  BY <1>1 DEF KeepInv, LoadedKeyStays, InStep
<1>2. CASE UNCHANGED vars
  BY <1>1, <1>2 DEF vars, vsvars, locals, history
<1>3. CASE Administrator
  BY <1>1, <1>3 DEF Administrator, GenerateOTP, SetOTP, ResetDownloadOTP, ExpireOTP,
                    ResetKeys, UploadEVSKey, WriteUploadedKey, vsvars, locals, history
<1>4. CASE (\E i \in Slice : TakeKey(i)) \/ ClearKeys
  BY <1>1, <1>4 DEF TakeKey, ClearKeys, locals, history
<1>5. CASE RestartVS
  <2>1. InStep(Downloading)' \subseteq orphans'
    BY <1>5 DEF RestartVS, ForgetRequests, EndTasks, InStep, Downloading, AtES, TypeOK
  <2>2. UNCHANGED <<loaded, racing>> /\ vsKeys' = vsFiles'
    BY <1>5 DEF RestartVS, history
  <2>3. LoadedKeyStays'
    BY <1>5, <2>2 DEF RestartVS, KeepInv, LoadedKeyStays
  <2> QED
    BY <2>1, <2>2, <2>3 DEF KeepInv
<1>6. CASE RestartES
  BY <1>6 DEF RestartES, KeepInv, LoadedKeyStays, End, EndTasks, InStep, Downloading, AtES,
              vsvars, history
<1> QED
  BY <1>2, <1>3, <1>4, <1>5, <1>6, KeepOfDownload, KeepOfGeneration, KeepOfLoad DEF Next

(* The voting system keeps the key its elections were loaded with, unless  *)
(* a download was under way (HomeController.cs:485, 507-509).              *)
THEOREM LoadedKeyStaysHolds == Spec => []LoadedKeyStays
<1>1. Init => KeepInv
  BY DEF Init, KeepInv, LoadedKeyStays, InStep
<1>2. TypeOK /\ KeepInv /\ [Next]_vars => KeepInv'
  BY KeepKept
<1>3. KeepInv => LoadedKeyStays
  BY DEF KeepInv
<1> QED
  BY <1>1, <1>2, <1>3, TypeCorrect, PTL DEF Spec
-----------------------------------------------------------------------------
(* The one-time password.                                                  *)

(* q is in GetEncryptionKey, with a password that was the right one.       *)
Inside(q) == step[q] \in {"checked", "read"}

Beside(q, r) == q \in beside[r] \/ r \in beside[q]

(* The password of a download that was given the key is gone for good, so  *)
(* whoever still holds it was inside at the same time.                     *)
OnceInv ==
  /\ SecondDownloadOverlapped
  /\ \A g \in given :
       /\ step[g[1]] \in {"received", "emptied", "done"}
       /\ g[2] \in madeOtps \union {None}
       /\ g[2] # None => otp # g[2]
  /\ \A q, r \in Request :
       Inside(q) /\ Inside(r) /\ q # r /\ sent[q] = sent[r] => Beside(q, r)
  /\ \A g \in given, r \in Request :
       Inside(r) /\ sent[r] = g[2] /\ g[2] # None => Beside(g[1], r)

(* Every step but the check and the gift only loses requests that are      *)
(* inside, and passwords.                                                  *)
LEMMA OnceLost ==
  ASSUME TypeOK, OnceInv,
         UNCHANGED <<given, beside>>,
         madeOtps \subseteq madeOtps',
         otp' = otp \/ otp' \notin madeOtps,
         \A q \in Request : Inside(q)' => Inside(q) /\ sent'[q] = sent[q],
         \A q \in Request : step[q] \in {"received", "emptied", "done"}
                            => step'[q] \in {"received", "emptied", "done"}
  PROVE  OnceInv'
<1>1. SecondDownloadOverlapped'
  BY DEF OnceInv, SecondDownloadOverlapped
<1>2. \A g \in given : g[1] \in Request
  BY DEF TypeOK
<1>3. (\A g \in given : /\ step[g[1]] \in {"received", "emptied", "done"}
                        /\ g[2] \in madeOtps \union {None}
                        /\ g[2] # None => otp # g[2])'
  BY <1>2 DEF OnceInv
<1>4. (\A q, r \in Request :
         Inside(q) /\ Inside(r) /\ q # r /\ sent[q] = sent[r] => Beside(q, r))'
  BY DEF OnceInv, Beside
<1>5. (\A g \in given, r \in Request :
         Inside(r) /\ sent[r] = g[2] /\ g[2] # None => Beside(g[1], r))'
  BY DEF OnceInv, Beside
<1> QED
  BY <1>1, <1>3, <1>4, <1>5 DEF OnceInv

(* A request that gets inside has the password of the moment, which nobody *)
(* was given the key for, and notes who is inside.                         *)
LEMMA OnceChecked ==
  ASSUME TypeOK, JobInv, OnceInv, NEW q \in Request, CheckOTP(q)
  PROVE  OnceInv'
<1> USE DEF TypeOK
<1>1. UNCHANGED <<given, madeOtps>> /\ otp' \in {otp, None}
  BY DEF CheckOTP, history
<1>2. None \notin madeOtps
  BY SetupAssumption
<1>3. CASE otp' # sent[q]
  <2>1. End({q}) /\ UNCHANGED beside
    BY <1>3 DEF CheckOTP
  <2>2. \A r \in Request : Inside(r)' => Inside(r) /\ sent'[r] = sent[r]
    BY <2>1 DEF End, EndTasks, Inside
  <2>3. \A r \in Request : step[r] \in {"received", "emptied", "done"}
                           => step'[r] \in {"received", "emptied", "done"}
    BY <2>1 DEF End, EndTasks
  <2> QED
    BY <1>1, <1>2, <2>1, <2>2, <2>3, OnceLost
<1>4. CASE otp' = sent[q]
  <2>1. /\ step[q] = "found" /\ step' = [step EXCEPT ![q] = "checked"] /\ sent' = sent
        /\ beside' = [beside EXCEPT ![q] = InStep({"checked", "read"})]
    BY <1>4 DEF CheckOTP, Go
  <2>2. sent[q] = None \/ sent[q] = otp
    BY <1>1, <1>4
  <2>3. \A g \in given : g[1] \in Request /\ g[1] # q /\ (g[2] # None => g[2] # sent[q])
    BY <2>1, <2>2 DEF OnceInv
  <2>4. \A r \in Request : r # q => beside'[r] = beside[r] /\ step'[r] = step[r]
    BY <2>1
  <2>5. \A r \in Request : r # q /\ Inside(r) => r \in beside'[q]
    BY <2>1 DEF InStep, Inside
  <2>6. SecondDownloadOverlapped'
    <3> SUFFICES ASSUME NEW r \in Request, NEW s \in Request, NEW o \in Otp,
                        r # s, <<r, o>> \in given, <<s, o>> \in given
                 PROVE  r \in beside'[s] \/ s \in beside'[r]
      BY <1>1 DEF SecondDownloadOverlapped
    <3>1. r # q /\ s # q
      BY <2>3
    <3> QED
      BY <2>4, <3>1 DEF OnceInv, SecondDownloadOverlapped
  <2>7. (\A g \in given : /\ step[g[1]] \in {"received", "emptied", "done"}
                          /\ g[2] \in madeOtps \union {None}
                          /\ g[2] # None => otp # g[2])'
    BY <1>1, <1>2, <2>3, <2>4 DEF OnceInv
  <2>8. (\A r, s \in Request :
           Inside(r) /\ Inside(s) /\ r # s /\ sent[r] = sent[s] => Beside(r, s))'
    BY <2>1, <2>4, <2>5 DEF OnceInv, Inside, Beside
  <2>9. (\A g \in given, r \in Request :
           Inside(r) /\ sent[r] = g[2] /\ g[2] # None => Beside(g[1], r))'
    BY <1>1, <2>1, <2>3, <2>4 DEF OnceInv, Inside, Beside
  <2> QED
    BY <2>6, <2>7, <2>8, <2>9 DEF OnceInv
<1> QED
  BY <1>3, <1>4

(* A request that is given the key leaves; those it was beside may follow. *)
LEMMA OnceGiven ==
  ASSUME TypeOK, JobInv, OnceInv, NEW q \in Request, GiveKey(q)
  PROVE  OnceInv'
<1> USE DEF TypeOK
<1>1. /\ step[q] = "read" /\ sent[q] \in madeOtps \union {None} /\ otp' = None
      /\ UNCHANGED <<madeOtps, beside>>
      /\ given' = given \union {<<q, sent[q]>>}
  BY DEF GiveKey, JobInv, AtES
<1>2. None \notin madeOtps
  BY SetupAssumption
<1>3. /\ \A r \in Request : r # q => step'[r] = step[r] /\ sent'[r] = sent[r]
      /\ step'[q] \in {"received", "done"}
  BY DEF GiveKey, Go, End, EndTasks
<1>4. \A g \in given : g[1] \in Request /\ g[1] # q
  BY <1>1 DEF OnceInv
<1>5. SecondDownloadOverlapped'
  <2> SUFFICES ASSUME NEW r \in Request, NEW s \in Request, NEW o \in Otp,
                      r # s, <<r, o>> \in given', <<s, o>> \in given'
               PROVE  r \in beside[s] \/ s \in beside[r]
    BY <1>1 DEF SecondDownloadOverlapped
  <2>1. CASE <<r, o>> \in given /\ <<s, o>> \in given
    BY <2>1 DEF OnceInv, SecondDownloadOverlapped
  <2>2. CASE <<r, o>> \in given /\ s = q /\ o = sent[q]
    BY <1>1, <1>2, <2>2, SetupAssumption DEF OnceInv, Inside, Beside
  <2>3. CASE <<s, o>> \in given /\ r = q /\ o = sent[q]
    BY <1>1, <1>2, <2>3, SetupAssumption DEF OnceInv, Inside, Beside
  <2> QED
    BY <1>1, <2>1, <2>2, <2>3
<1>6. (\A g \in given : /\ step[g[1]] \in {"received", "emptied", "done"}
                        /\ g[2] \in madeOtps \union {None}
                        /\ g[2] # None => otp # g[2])'
  BY <1>1, <1>2, <1>3, <1>4 DEF OnceInv
<1>7. (\A r, s \in Request :
         Inside(r) /\ Inside(s) /\ r # s /\ sent[r] = sent[s] => Beside(r, s))'
  BY <1>1, <1>3 DEF OnceInv, Inside, Beside
<1>8. (\A g \in given, r \in Request :
         Inside(r) /\ sent[r] = g[2] /\ g[2] # None => Beside(g[1], r))'
  BY <1>1, <1>3 DEF OnceInv, Inside, Beside
<1> QED
  BY <1>5, <1>6, <1>7, <1>8 DEF OnceInv

LEMMA OnceKept ==
  ASSUME TypeOK, JobInv, OnceInv, [Next]_vars
  PROVE  OnceInv'
<1>1. ASSUME UNCHANGED <<given, beside>>, madeOtps \subseteq madeOtps',
             otp' = otp \/ otp' \notin madeOtps, UNCHANGED <<step, sent>>
      PROVE  OnceInv'
  BY <1>1, OnceLost DEF Inside
<1>2. ASSUME UNCHANGED <<given, beside>>, madeOtps \subseteq madeOtps',
             otp' = otp \/ otp' \notin madeOtps, NEW S, EndTasks(S),
             S \intersect {q \in Request : step[q] = "new"} = {}
      PROVE  OnceInv'
  <2>1. \A q \in Request : Inside(q)' => Inside(q) /\ sent'[q] = sent[q]
    BY <1>2 DEF EndTasks, Inside
  <2>2. \A q \in Request : step[q] \in {"received", "emptied", "done"}
                           => step'[q] \in {"received", "emptied", "done"}
    BY <1>2 DEF EndTasks
  <2> QED
    BY <1>2, <2>1, <2>2, OnceLost
<1>3. None \notin madeOtps
  BY SetupAssumption DEF TypeOK
<1>4. CASE UNCHANGED vars
  BY <1>1, <1>4 DEF vars, esvars, locals, history
<1>5. CASE Administrator
  BY <1>1, <1>3, <1>5 DEF Administrator, GenerateOTP, SetOTP, ResetDownloadOTP, ExpireOTP,
                          ResetKeys, UploadEVSKey, WriteUploadedKey, vsvars, locals,
                          history
<1>6. ASSUME NEW q \in Request, Download(q)
      PROVE  OnceInv'
  <2> USE DEF esvars, history
  <2>1. ASSUME NEW o \in madeOtps \union {None}, DownloadEVSKey(q, o)
        PROVE  OnceInv'
    <3>1. \A r \in Request : Inside(r)' => Inside(r) /\ sent'[r] = sent[r]
      BY <2>1 DEF DownloadEVSKey, Go, Inside, TypeOK
    <3>2. \A r \in Request : step[r] \in {"received", "emptied", "done"}
                             => step'[r] \in {"received", "emptied", "done"}
      BY <2>1 DEF DownloadEVSKey, Go, TypeOK
    <3> QED
      BY <2>1, <3>1, <3>2, OnceLost DEF DownloadEVSKey
  <2>5. CASE HasOTP(q)
    <3>1. \A r \in Request : Inside(r)' => Inside(r) /\ sent'[r] = sent[r]
      BY <2>5 DEF HasOTP, Go, End, EndTasks, Inside, TypeOK
    <3>2. \A r \in Request : step[r] \in {"received", "emptied", "done"}
                             => step'[r] \in {"received", "emptied", "done"}
      BY <2>5 DEF HasOTP, Go, End, EndTasks, TypeOK
    <3>3. otp' \in {otp, None} /\ UNCHANGED <<given, beside, madeOtps>>
      BY <2>5 DEF HasOTP
    <3> QED
      BY <1>3, <3>1, <3>2, <3>3, OnceLost
  <2>2. CASE ReadKeyFile(q)
    <3>1. \A r \in Request : Inside(r)' => Inside(r) /\ sent'[r] = sent[r]
      BY <2>2 DEF ReadKeyFile, Go, End, EndTasks, Inside, TypeOK
    <3>2. \A r \in Request : step[r] \in {"received", "emptied", "done"}
                             => step'[r] \in {"received", "emptied", "done"}
      BY <2>2 DEF ReadKeyFile, Go, End, EndTasks, TypeOK
    <3> QED
      BY <2>2, <3>1, <3>2, OnceLost DEF ReadKeyFile
  <2>3. CASE DeleteKeyFiles(q)
    <3>1. \A r \in Request : Inside(r)' => Inside(r) /\ sent'[r] = sent[r]
      BY <2>3 DEF DeleteKeyFiles, Go, Inside, TypeOK
    <3>2. \A r \in Request : step[r] \in {"received", "emptied", "done"}
                             => step'[r] \in {"received", "emptied", "done"}
      BY <2>3 DEF DeleteKeyFiles, Go, TypeOK
    <3> QED
      BY <2>3, <3>1, <3>2, OnceLost DEF DeleteKeyFiles
  <2>4. CASE WriteKeyFile(q)
    BY <1>2, <2>4 DEF WriteKeyFile, End
  <2> QED
    BY <1>6, <2>1, <2>2, <2>3, <2>4, <2>5, OnceChecked, OnceGiven DEF Download
<1>7. ASSUME NEW q \in Request, Generation(q)
      PROVE  OnceInv'
  <2> USE DEF esvars, history
  <2>1. CASE GuardianKeyGen(q)
    <3>1. \A r \in Request : Inside(r)' => Inside(r) /\ sent'[r] = sent[r]
      BY <2>1 DEF GuardianKeyGen, Go, Inside, TypeOK
    <3>2. \A r \in Request : step[r] \in {"received", "emptied", "done"}
                             => step'[r] \in {"received", "emptied", "done"}
      BY <2>1 DEF GuardianKeyGen, Go, TypeOK
    <3> QED
      BY <2>1, <3>1, <3>2, OnceLost DEF GuardianKeyGen
  <2>2. CASE GenKeys(q)
    <3>1. \A r \in Request : Inside(r)' => Inside(r) /\ sent'[r] = sent[r]
      BY <2>2 DEF GenKeys, Go, End, EndTasks, Inside, TypeOK
    <3>2. \A r \in Request : step[r] \in {"received", "emptied", "done"}
                             => step'[r] \in {"received", "emptied", "done"}
      BY <2>2 DEF GenKeys, Go, End, EndTasks, TypeOK
    <3> QED
      BY <2>2, <3>1, <3>2, OnceLost DEF GenKeys
  <2>3. CASE \E i \in Slice : WriteSlice(q, i)
    BY <1>1, <2>3 DEF WriteSlice
  <2>4. CASE SetFlag(q)
    BY <1>2, <2>4 DEF SetFlag, End
  <2> QED
    BY <1>7, <2>1, <2>2, <2>3, <2>4 DEF Generation
<1>8. CASE LoadESElectionConfiguration
  BY <1>1, <1>8 DEF LoadESElectionConfiguration, esvars, locals
<1>9. CASE (\E i \in Slice : TakeKey(i)) \/ ClearKeys
  BY <1>1, <1>9 DEF TakeKey, ClearKeys, esvars, locals, history
<1>10. CASE RestartVS
  BY <1>2, <1>10 DEF RestartVS, ForgetRequests, esvars, history
<1>11. CASE RestartES
  <2>1. InStep(AtES) \intersect {q \in Request : step[q] = "new"} = {}
    BY DEF InStep, AtES
  <2>2. EndTasks(InStep(AtES))
    BY <1>11 DEF RestartES, End
  <2>3. UNCHANGED <<given, beside, madeOtps>> /\ otp' = None
    BY <1>11 DEF RestartES, history
  <2> HIDE DEF InStep
  <2> QED
    BY <1>2, <1>3, <2>1, <2>2, <2>3
<1> QED
  BY <1>4, <1>5, <1>6, <1>7, <1>8, <1>9, <1>10, <1>11 DEF Next

(* "One Time is One Time": for any number of downloads and passwords, two  *)
(* are given the key for one password only when each was between check and *)
(* reset (EligereESAPI.cs:279-287) while the other was.                    *)
THEOREM SecondDownloadOverlappedHolds == Spec => []SecondDownloadOverlapped
<1>1. Init => OnceInv
  BY DEF Init, OnceInv, SecondDownloadOverlapped, Inside
<1>2. TypeOK /\ JobInv /\ OnceInv /\ [Next]_vars => OnceInv'
  BY OnceKept
<1>3. OnceInv => SecondDownloadOverlapped
  BY DEF OnceInv
<1> QED
  BY <1>1, <1>2, <1>3, TypeCorrect, PTL DEF Spec
-----------------------------------------------------------------------------
(* The slices of the guardians.                                            *)

(* A slice of the key file that is there; if it is protected with that key *)
(* it can be read.                                                         *)
Good(s) ==
  /\ s.of = FirstFile(vsFiles)
  /\ s.of = s.under => s.under \in vsKeys

(* Unless key files changed after they were cut: the slices that the       *)
(* guardians hold, those that they can take, and those that a generation   *)
(* has written or will write, are good.                                    *)
CutInv ==
  /\ ~flag => \A i \in Slice : held[i] = NoSlice
  /\ ~recut =>
       /\ Cut => vsFiles # {}
       /\ \A i \in Slice : held[i] # NoSlice => Good(held[i])
       /\ flag => \A i \in Slice : temp[i] # NoSlice => Good(temp[i])
       /\ \A q \in Request : step[q] = "writing" =>
            /\ got[q] = FirstFile(vsFiles) /\ under[q] \in vsKeys
            /\ \A i \in Slice \ todo[q] : temp[i] # NoSlice => Good(temp[i])

LEMMA CutUntouched ==
  ASSUME CutInv, UNCHANGED <<vsFiles, vsKeys, flag, temp, held, recut>>,
         \A q \in Request : step'[q] = "writing" =>
           /\ step[q] = "writing"
           /\ got'[q] = got[q] /\ under'[q] = under[q] /\ todo'[q] = todo[q]
  PROVE  CutInv'
BY DEF CutInv, Cut, Good

LEMMA CutOfDownload ==
  ASSUME TypeOK, CutInv, NEW q \in Request, Download(q)
  PROVE  CutInv'
<1> USE DEF TypeOK, history
<1>1. ASSUME NEW o \in madeOtps \union {None}, DownloadEVSKey(q, o)
      PROVE  CutInv'
  BY <1>1, CutUntouched DEF DownloadEVSKey, Go, vsvars
<1>7. CASE HasOTP(q)
  BY <1>7, CutUntouched DEF HasOTP, Go, End, EndTasks, vsvars
<1>2. CASE CheckOTP(q)
  BY <1>2, CutUntouched DEF CheckOTP, Go, End, EndTasks, vsvars
<1>3. CASE ReadKeyFile(q)
  BY <1>3, CutUntouched DEF ReadKeyFile, Go, End, EndTasks, vsvars
<1>4. CASE GiveKey(q)
  BY <1>4, CutUntouched DEF GiveKey, Go, End, EndTasks, vsvars
<1>5. CASE DeleteKeyFiles(q)
  <2>1. UNCHANGED <<vsKeys, flag, temp, held>> /\ recut' = (recut \/ Cut)
    BY <1>5 DEF DeleteKeyFiles
  <2>2. \A r \in Request : step'[r] = "writing" => step[r] = "writing"
    BY <1>5 DEF DeleteKeyFiles, Go
  <2>3. CASE recut \/ Cut
    BY <2>1, <2>3 DEF CutInv
  <2>4. CASE ~recut /\ ~Cut
    <3>1. ~flag' /\ ~Cut' /\ \A i \in Slice : held'[i] = NoSlice
      BY <2>1, <2>2, <2>4 DEF Cut, CutInv
    <3> QED
      BY <3>1 DEF Cut, CutInv
  <2> QED
    BY <2>3, <2>4
<1>6. CASE WriteKeyFile(q)
  <2>1. UNCHANGED <<vsKeys, flag, temp, held>> /\ recut' = (recut \/ Cut)
    BY <1>6 DEF WriteKeyFile
  <2>2. \A r \in Request : step'[r] = "writing" => step[r] = "writing"
    BY <1>6 DEF WriteKeyFile, End, EndTasks
  <2>3. CASE recut \/ Cut
    BY <2>1, <2>3 DEF CutInv
  <2>4. CASE ~recut /\ ~Cut
    <3>1. ~flag' /\ ~Cut' /\ \A i \in Slice : held'[i] = NoSlice
      BY <2>1, <2>2, <2>4 DEF Cut, CutInv
    <3> QED
      BY <3>1 DEF Cut, CutInv
  <2> QED
    BY <2>3, <2>4
<1> QED
  BY <1>1, <1>2, <1>3, <1>4, <1>5, <1>6, <1>7 DEF Download

LEMMA CutOfGeneration ==
  ASSUME TypeOK, JobInv, CutInv, NEW q \in Request, Generation(q)
  PROVE  CutInv'
<1> USE DEF TypeOK, history
<1>1. CASE GuardianKeyGen(q)
  BY <1>1, CutUntouched DEF GuardianKeyGen, Go, vsvars
<1>2. CASE GenKeys(q)
  <2>1. CASE vsFiles = {}
    BY <1>2, <2>1, CutUntouched DEF GenKeys, End, EndTasks, vsvars
  <2>2. CASE vsFiles # {}
    <3>1. UNCHANGED <<vsFiles, vsKeys, flag, temp, held, recut>>
      BY <1>2 DEF GenKeys, vsvars
    <3>2. step' = [step EXCEPT ![q] = "writing"] /\ got' = [got EXCEPT ![q] = FirstFile(vsFiles)]
      BY <1>2, <2>2 DEF GenKeys, Go
    <3>3. under'[q] \in vsKeys /\ \A r \in Request : r # q => under'[r] = under[r]
      BY <1>2, <2>2 DEF GenKeys
    <3>4. todo'[q] = Slice /\ \A r \in Request : r # q => todo'[r] = todo[r]
      BY <1>2, <2>2 DEF GenKeys
    <3> QED
      BY <2>2, <3>1, <3>2, <3>3, <3>4 DEF CutInv, Cut, Good
  <2> QED
    BY <2>1, <2>2
<1>3. ASSUME NEW i \in Slice, WriteSlice(q, i)
      PROVE  CutInv'
  <2> DEFINE s == [of |-> got[q], under |-> under[q]]
  <2>1. UNCHANGED <<vsFiles, vsKeys, flag, held, recut, step, got, under>>
    BY <1>3 DEF WriteSlice
  <2>2. /\ \A j \in Slice : j # i => temp'[j] = temp[j]
        /\ temp'[i] = s
    BY <1>3 DEF WriteSlice
  <2>3. /\ \A r \in Request : r # q => todo'[r] = todo[r]
        /\ todo'[q] = todo[q] \ {i}
    BY <1>3 DEF WriteSlice
  <2>4. step[q] = "writing"
    BY <1>3 DEF WriteSlice
  <2>5. ~recut => Good(s)
    BY <2>4 DEF CutInv, Good
  <2>6. ~recut => \A j \in Slice : temp'[j] # NoSlice => (temp'[j] = temp[j] \/ Good(temp'[j]))
    BY <2>2, <2>5
  <2> HIDE DEF s
  <2> QED
    BY <2>1, <2>2, <2>3, <2>5, <2>6 DEF CutInv, Cut, Good
<1>4. CASE SetFlag(q)
  <2>1. step[q] = "writing" /\ todo[q] = {} /\ flag' = TRUE
        /\ UNCHANGED <<vsFiles, vsKeys, temp, held, recut>>
    BY <1>4 DEF SetFlag, vsvars
  <2>2. \A r \in Request : step'[r] = "writing" =>
          /\ step[r] = "writing"
          /\ got'[r] = got[r] /\ under'[r] = under[r] /\ todo'[r] = todo[r]
    BY <1>4 DEF SetFlag, End, EndTasks
  <2> QED
    BY <2>1, <2>2 DEF CutInv, Cut, Good
<1> QED
  BY <1>1, <1>2, <1>3, <1>4 DEF Generation

LEMMA CutOfRestart ==
  ASSUME TypeOK, CutInv, RestartVS
  PROVE  CutInv'
<1>1. \A q \in Request : step'[q] # "writing"
  BY DEF RestartVS, ForgetRequests, EndTasks, AtES
<1>2. UNCHANGED <<flag, temp, held, recut>>
  BY DEF RestartVS, history
<1>3. CASE vsFiles # {}
  <2>1. vsFiles' = vsFiles /\ vsKeys' = vsFiles /\ FirstFile(vsFiles) \in vsFiles
    BY <1>3, FirstFileIsOne DEF RestartVS
  <2> QED
    BY <1>1, <1>2, <1>3, <2>1 DEF CutInv, Cut, Good
<1>4. CASE vsFiles = {}
  <2>1. recut \/ ~flag
    BY <1>4 DEF CutInv, Cut
  <2> QED
    BY <1>1, <1>2, <2>1 DEF CutInv, Cut
<1> QED
  BY <1>3, <1>4

LEMMA CutKept ==
  ASSUME TypeOK, JobInv, CutInv, [Next]_vars
  PROVE  CutInv'
<1> USE DEF history, locals, vsvars
<1>1. CASE UNCHANGED vars
  BY <1>1, CutUntouched DEF vars
<1>2. CASE Administrator
  BY <1>2, CutUntouched DEF Administrator, GenerateOTP, SetOTP, ResetDownloadOTP, ExpireOTP,
                            ResetKeys, UploadEVSKey, WriteUploadedKey
<1>3. CASE LoadESElectionConfiguration
  BY <1>3, CutUntouched DEF LoadESElectionConfiguration
<1>4. ASSUME NEW i \in Slice, TakeKey(i)
      PROVE  CutInv'
  <2>1. /\ flag /\ temp[i] # NoSlice
        /\ UNCHANGED <<vsFiles, vsKeys, flag, temp, recut, step, got, under, todo>>
    BY <1>4 DEF TakeKey
  <2>2. \A j \in Slice : held'[j] = held[j] \/ held'[j] = temp[j]
    BY <1>4 DEF TakeKey, TypeOK
  <2> QED
    BY <2>1, <2>2 DEF CutInv, Cut, Good
<1>5. CASE ClearKeys
  <2>1. UNCHANGED <<vsFiles, vsKeys, flag, held, recut, step, got, under, todo>>
    BY <1>5 DEF ClearKeys
  <2>2. \A j \in Slice : temp'[j] = NoSlice
    BY <1>5 DEF ClearKeys
  <2> QED
    BY <2>1, <2>2 DEF CutInv, Cut, Good
<1>6. CASE RestartES
  BY <1>6, CutUntouched DEF RestartES, End, EndTasks
<1> QED
  BY <1>1, <1>2, <1>3, <1>4, <1>5, <1>6, CutOfDownload, CutOfGeneration, CutOfRestart
     DEF Next

(* For any number of guardians, generations and restarts: what the         *)
(* guardians hold opens the tally, however their slices are mixed, unless  *)
(* key files were replaced after the cut (HomeController.cs:252-275).      *)
THEOREM GuardianKeysOpenHolds == Spec => []GuardianKeysOpen
<1>1. Init => CutInv
  BY DEF Init, CutInv, Cut
<1>2. TypeOK /\ JobInv /\ CutInv /\ [Next]_vars => CutInv'
  BY CutKept
<1>3. TypeOK /\ CutInv => GuardianKeysOpen
  <2> SUFFICES ASSUME TypeOK, CutInv, ~recut, NEW i \in Slice,
                      \A j \in Slice : held[j] # NoSlice /\ held[j].of = held[j].under
               PROVE  /\ held[i].under \in vsKeys /\ held[i].of = FirstFile(vsFiles)
                      /\ held[i].of # None
    BY DEF GuardianKeysOpen, JoinKeys
  <2>1. Good(held[i])
    BY DEF CutInv
  <2>2. held[i].of # None
    BY SetupAssumption DEF TypeOK, Slices
  <2> QED
    BY <2>1, <2>2 DEF Good
<1> QED
  BY <1>1, <1>2, <1>3, TypeCorrect, PTL DEF Spec

=============================================================================
