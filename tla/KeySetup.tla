------------------------------ MODULE KeySetup ------------------------------
(***************************************************************************)
(* The keys with which an election is set up.                              *)
(*                                                                         *)
(* The election system keeps in a directory the key that both services     *)
(* share.  An administrator generates a one-time password                  *)
(* (SetupController, DownloadOTPManager), with which an operator of the    *)
(* voting system downloads the key (HomeController.DownloadEVSKey, which   *)
(* calls EligereESAPI.GetEncryptionKey).  Then the key is cut into slices, *)
(* one per guardian (GuardianKeyGen): a tally needs them all to be joined  *)
(* into the key file again (JoinKeys).                                     *)
(*                                                                         *)
(* A service protects data with the keys it loaded from its directory when *)
(* it started, not with the files that are there now; with an empty        *)
(* directory it makes a key of its own.  That is the data protection of    *)
(* ASP.NET, and here RestartVS and RestartES.                              *)
(*                                                                         *)
(* An operator is signed in and the address of the election system is set: *)
(* without either a request returns before it changes anything.            *)
(***************************************************************************)
EXTENDS Naturals, FiniteSets

CONSTANTS
  Request,      \* the operators' requests, each answered once
  Key,          \* the keys that may be drawn, each with its file name
  Otp,          \* the one-time passwords that may be drawn
  FirstES,      \* the key the election system made when it first started
  FirstVS,      \* the key the voting system made then
  Upload,       \* the keys an administrator has a file of
  Slice,        \* one slice of the key per guardian
  MaxRestarts,  \* bound: restarts of the two services
  None

ASSUME SetupAssumption ==
  /\ MaxRestarts \in Nat
  /\ FirstES \in Key /\ FirstVS \in Key
  /\ Upload \subseteq Key
  /\ None \notin Key \union Otp

VARIABLES
  esFiles,   \* the key files of the election system
  esKey,     \* the key it protects with
  vsFiles,   \* the key files of the voting system
  vsKeys,    \* the keys it has loaded
  madeKeys,  \* the keys ever drawn
  otp,       \* _OTP
  expired,   \* its expiration has passed
  madeOtps,  \* the passwords ever drawn
  drawing,   \* GenerateOTP has set the expiration and not the password yet
  upload,    \* the key file that UploadEVSKey has still to write, or None
  loaded,    \* the key the configuration was loaded with, or None
  flag,      \* GuardiansKeyGenerated is set
  temp,      \* temp[i]: the key file of guardian i under wwwroot/temp
  held,      \* held[i]: what guardian i took from there
  step,      \* where each request is
  sent,      \* sent[q]: the password of a download
  got,       \* got[q]: the key it got, or the one whose file it slices
  under,     \* under[q]: the key it protects the slices with
  todo,      \* todo[q]: the slices it has still to write
  orphans,   \* the downloads the voting system has forgotten in a restart
  restarts,
  given,     \* the downloads that were given the key (history)
  beside,    \* beside[q]: those between check and reset when q checked (history)
  recut,     \* key files changed after they were cut for the guardians (history)
  racing     \* downloads under way when the configuration was loaded (history)

esvars == <<esFiles, esKey, otp, expired, madeOtps, drawing, upload>>
vsvars == <<vsFiles, vsKeys, loaded, flag, temp, held>>
locals == <<step, sent, got, under, todo, orphans>>
history == <<given, beside, recut, racing>>
vars == <<esvars, vsvars, madeKeys, locals, restarts, history>>

-----------------------------------------------------------------------------
NoSlice == [of |-> None, under |-> None]

Slices == [of: Key, under: Key] \union {NoSlice}

(* GetFiles()[0]: the order of the names decides.                          *)
FirstFile(files) == IF files = {} THEN None ELSE CHOOSE k \in files : TRUE

(* JoinKeys: every slice can be read with a key that is loaded, and        *)
(* together they are the key file.                                         *)
JoinKeys(slices) ==
  \A i \in Slice : /\ slices[i].under \in vsKeys
                   /\ slices[i].of = FirstFile(vsFiles)
                   /\ slices[i].of # None

Step == {"new", "asked", "found", "checked", "read", "received", "emptied",
         "generate", "writing", "done"}

(* The steps of a download inside the election system.                     *)
AtES == {"asked", "found", "checked", "read"}

InStep(steps) == {q \in Request : step[q] \in steps}

(* Type invariant.                                                         *)
TypeOK ==
  /\ esFiles \subseteq madeKeys /\ esKey \in madeKeys
  /\ vsFiles \subseteq madeKeys /\ vsKeys \subseteq madeKeys
  /\ madeKeys \subseteq Key
  /\ otp \in madeOtps \union {None} /\ madeOtps \subseteq Otp
  /\ expired \in BOOLEAN /\ drawing \in BOOLEAN /\ flag \in BOOLEAN
  /\ upload \in madeKeys \union {None}
  /\ loaded \in madeKeys \union {None}
  /\ temp \in [Slice -> Slices] /\ held \in [Slice -> Slices]
  /\ step \in [Request -> Step]
  /\ sent \in [Request -> Otp \union {None}]
  /\ got \in [Request -> Key \union {None}]
  /\ under \in [Request -> Key \union {None}]
  /\ todo \in [Request -> SUBSET Slice]
  /\ orphans \subseteq InStep(AtES)
  /\ restarts \in 0 .. MaxRestarts
  /\ given \subseteq Request \X (Otp \union {None})
  /\ beside \in [Request -> SUBSET Request]
  /\ recut \in BOOLEAN
  /\ racing \subseteq Request

(* Each service has started once with an empty directory.                  *)
Init ==
  /\ esFiles = {FirstES} /\ esKey = FirstES
  /\ vsFiles = {FirstVS} /\ vsKeys = {FirstVS}
  /\ madeKeys = {FirstES, FirstVS}
  /\ otp = None /\ expired = TRUE /\ madeOtps = {} /\ drawing = FALSE
  /\ upload = None
  /\ loaded = None /\ flag = FALSE
  /\ temp = [i \in Slice |-> NoSlice] /\ held = [i \in Slice |-> NoSlice]
  /\ step = [q \in Request |-> "new"]
  /\ sent = [q \in Request |-> None]
  /\ got = [q \in Request |-> None]
  /\ under = [q \in Request |-> None]
  /\ todo = [q \in Request |-> {}] /\ orphans = {}
  /\ restarts = 0
  /\ given = {} /\ beside = [q \in Request |-> {}]
  /\ recut = FALSE /\ racing = {}

-----------------------------------------------------------------------------
(* The administrator of the election system.                               *)

(* GenerateOTP sets the expiration, then the password.                     *)
GenerateOTP ==
  /\ ~drawing
  /\ madeOtps # Otp
  /\ drawing' = TRUE
  /\ expired' = FALSE
  /\ UNCHANGED <<esFiles, esKey, otp, madeOtps, upload, vsvars, madeKeys, locals, restarts, history>>

SetOTP ==
  /\ drawing
  /\ drawing' = FALSE
  /\ \E o \in Otp \ madeOtps : otp' = o /\ madeOtps' = madeOtps \union {o}
  /\ UNCHANGED <<esFiles, esKey, expired, upload, vsvars, madeKeys, locals, restarts,
                 history>>

ResetDownloadOTP ==
  /\ otp' = None
  /\ UNCHANGED <<esFiles, esKey, expired, madeOtps, drawing, upload, vsvars, madeKeys,
                 locals, restarts, history>>

ExpireOTP ==
  /\ ~expired
  /\ expired' = TRUE
  /\ UNCHANGED <<esFiles, esKey, otp, madeOtps, drawing, upload, vsvars, madeKeys,
                 locals, restarts, history>>

(* "It requires application restart": the key in use stays the same.       *)
ResetKeys ==
  /\ esFiles' = {}
  /\ UNCHANGED <<esKey, otp, expired, madeOtps, drawing, upload, vsvars, madeKeys,
                 locals, restarts, history>>

(* UploadEVSKey deletes the key files, then writes the one it was sent,    *)
(* which one of the services has drawn.                                    *)
UploadEVSKey(k) ==
  /\ upload = None
  /\ k \in madeKeys
  /\ esFiles' = {}
  /\ upload' = k
  /\ UNCHANGED <<esKey, otp, expired, madeOtps, drawing, vsvars, madeKeys, locals,
                 restarts, history>>

WriteUploadedKey ==
  /\ upload # None
  /\ esFiles' = esFiles \union {upload}
  /\ upload' = None
  /\ UNCHANGED <<esKey, otp, expired, madeOtps, drawing, vsvars, madeKeys, locals,
                 restarts, history>>

-----------------------------------------------------------------------------
(* DownloadEVSKey and GetEncryptionKey.                                    *)

Go(q, s) == step' = [step EXCEPT ![q] = s]

(* The requests of S end, and their local state with them.                 *)
EndTasks(S) ==
  /\ step' = [q \in Request |-> IF q \in S THEN "done" ELSE step[q]]
  /\ sent' = [q \in Request |-> IF q \in S THEN None ELSE sent[q]]
  /\ got' = [q \in Request |-> IF q \in S THEN None ELSE got[q]]
  /\ under' = [q \in Request |-> IF q \in S THEN None ELSE under[q]]
  /\ todo' = [q \in Request |-> IF q \in S THEN {} ELSE todo[q]]

End(S) == EndTasks(S) /\ orphans' = orphans \ S

AskKeyAnytime(q, o) ==  \* mutant: also when the elections are loaded
  /\ step[q] = "new"
  /\ sent' = [sent EXCEPT ![q] = o]
  /\ Go(q, "asked")
  /\ UNCHANGED <<esvars, vsvars, madeKeys, got, under, todo, orphans, restarts, history>>

(* Nothing must be loaded; the operator types a password that was shown,   *)
(* or leaves the field empty (None, null in the code).                     *)
DownloadEVSKey(q, o) ==
  /\ step[q] = "new"
  /\ loaded = None
  /\ sent' = [sent EXCEPT ![q] = o]
  /\ Go(q, "asked")
  /\ UNCHANGED <<esvars, vsvars, madeKeys, got, under, todo, orphans, restarts, history>>

(* GetEncryptionKey asks HasOTP and then compares with OTP; both forget a  *)
(* password that has expired.  "KO" ends the request.  Should the password *)
(* be forgotten between the two, an empty field is equal to it.            *)
HasOTP(q) ==
  /\ step[q] = "asked"
  /\ otp' = IF expired THEN None ELSE otp
  /\ IF otp' # None
       THEN Go(q, "found") /\ UNCHANGED <<sent, got, under, todo, orphans>>
       ELSE End({q})
  /\ UNCHANGED <<esFiles, esKey, expired, madeOtps, drawing, upload, vsvars, madeKeys,
                 restarts, history>>

CheckOTP(q) ==
  /\ step[q] = "found"
  /\ otp' = IF expired THEN None ELSE otp
  /\ IF otp' = sent[q]
       THEN /\ Go(q, "checked")
            /\ beside' = [beside EXCEPT ![q] = InStep({"checked", "read"})]
            /\ UNCHANGED <<sent, got, under, todo, orphans>>
       ELSE End({q}) /\ UNCHANGED beside
  /\ UNCHANGED <<esFiles, esKey, expired, madeOtps, drawing, upload, vsvars, madeKeys,
                 restarts, given, recut, racing>>

(* No file, or several, make it throw.                                     *)
ReadKeyFile(q) ==
  /\ step[q] = "checked"
  /\ IF Cardinality(esFiles) = 1
       THEN /\ got' = [got EXCEPT ![q] = FirstFile(esFiles)]
            /\ Go(q, "read")
            /\ UNCHANGED <<sent, under, todo, orphans>>
       ELSE End({q})
  /\ UNCHANGED <<esvars, vsvars, madeKeys, restarts, history>>

GiveKeyKeepingOTP(q) ==  \* mutant: the password is not reset
  /\ step[q] = "read"
  /\ given' = given \union {<<q, sent[q]>>}
  /\ \/ q \notin orphans /\ Go(q, "received") /\ UNCHANGED <<sent, got, under, todo, orphans>>
     \/ End({q})
  /\ UNCHANGED <<esvars, vsvars, madeKeys, restarts, beside, recut, racing>>

(* ResetOTP, whatever the password is by now; the answer may be lost, and  *)
(* is when the voting system has restarted.                                *)
GiveKey(q) ==
  /\ step[q] = "read"
  /\ otp' = None
  /\ given' = given \union {<<q, sent[q]>>}
  /\ \/ /\ q \notin orphans
        /\ Go(q, "received")
        /\ UNCHANGED <<sent, got, under, todo, orphans>>
     \/ End({q})
  /\ UNCHANGED <<esFiles, esKey, expired, madeOtps, drawing, upload, vsvars, madeKeys,
                 restarts, beside, recut, racing>>

(* The voting system deletes its key files and writes the one it got.      *)
Cut == flag \/ \E q \in Request : step[q] = "writing"

DeleteKeyFiles(q) ==
  /\ step[q] = "received"
  /\ vsFiles' = {}
  /\ recut' = (recut \/ Cut)
  /\ Go(q, "emptied")
  /\ UNCHANGED <<esvars, vsKeys, loaded, flag, temp, held, madeKeys, sent, got, under,
                 todo, orphans, restarts, given, beside, racing>>

WriteKeyFile(q) ==
  /\ step[q] = "emptied"
  /\ vsFiles' = vsFiles \union {got[q]}
  /\ recut' = (recut \/ Cut)
  /\ End({q})
  /\ UNCHANGED <<esvars, vsKeys, loaded, flag, temp, held, madeKeys, restarts, given,
                 beside, racing>>

-----------------------------------------------------------------------------
(* The other operations of the voting system.                              *)

(* LoadESElectionConfiguration as one step (ElectionDay has its calls):    *)
(* what the election system answers must be readable.                      *)
LoadESElectionConfiguration ==
  /\ loaded = None
  /\ esKey \in vsKeys
  /\ loaded' = esKey
  /\ racing' = IF esKey \in vsFiles
                 THEN InStep(AtES \union {"received", "emptied"}) \ orphans
                 ELSE Request
  /\ UNCHANGED <<esvars, vsFiles, vsKeys, flag, temp, held, madeKeys, locals, restarts,
                 given, beside, recut>>

(* GuardianKeyGen looks at the flag ...                                    *)
GuardianKeyGen(q) ==
  /\ step[q] = "new"
  /\ ~flag
  /\ Go(q, "generate")
  /\ UNCHANGED <<esvars, vsvars, madeKeys, sent, got, under, todo, orphans, restarts,
                 history>>

GenKeysUnchecked(q) ==  \* mutant: a missing key file is cut all the same
  /\ step[q] = "generate"
  /\ got' = [got EXCEPT ![q] = FirstFile(vsFiles)]
  /\ \E k \in vsKeys : under' = [under EXCEPT ![q] = k]
  /\ todo' = [todo EXCEPT ![q] = Slice]
  /\ Go(q, "writing")
  /\ UNCHANGED <<sent, orphans, esvars, vsvars, madeKeys, restarts, history>>

(* ... cuts the key file (without one it throws), writes a file for each   *)
(* guardian ...                                                            *)
GenKeys(q) ==
  /\ step[q] = "generate"
  /\ IF vsFiles = {}
       THEN End({q})
       ELSE /\ got' = [got EXCEPT ![q] = FirstFile(vsFiles)]
            /\ \E k \in vsKeys : under' = [under EXCEPT ![q] = k]
            /\ todo' = [todo EXCEPT ![q] = Slice]
            /\ Go(q, "writing")
            /\ UNCHANGED <<sent, orphans>>
  /\ UNCHANGED <<esvars, vsvars, madeKeys, restarts, history>>

WriteSlice(q, i) ==
  /\ step[q] = "writing"
  /\ i \in todo[q]
  /\ temp' = [temp EXCEPT ![i] = [of |-> got[q], under |-> under[q]]]
  /\ todo' = [todo EXCEPT ![q] = @ \ {i}]
  /\ UNCHANGED <<esvars, vsFiles, vsKeys, loaded, flag, held, madeKeys, step, sent, got,
                 under, orphans, restarts, history>>

(* ... and sets the flag.                                                  *)
SetFlag(q) ==
  /\ step[q] = "writing"
  /\ todo[q] = {}
  /\ flag' = TRUE
  /\ End({q})
  /\ UNCHANGED <<esvars, vsFiles, vsKeys, loaded, temp, held, madeKeys, restarts, history>>

(* The page links to the files: a guardian takes one.                      *)
TakeKey(i) ==
  /\ flag
  /\ temp[i] # NoSlice
  /\ held' = [held EXCEPT ![i] = temp[i]]
  /\ UNCHANGED <<esvars, vsFiles, vsKeys, loaded, flag, temp, madeKeys, locals, restarts,
                 history>>

ClearKeys ==
  /\ temp' = [i \in Slice |-> NoSlice]
  /\ UNCHANGED <<esvars, vsFiles, vsKeys, loaded, flag, held, madeKeys, locals, restarts,
                 history>>

-----------------------------------------------------------------------------
(* A service restarts: its requests end, and it loads its key files.  What *)
(* a download has under way in the election system goes on there when the  *)
(* voting system restarts; the other way round, the download fails.        *)

ForgetRequests ==
  /\ EndTasks({q \in Request : step[q] \notin {"new"} \union AtES})
  /\ orphans' = InStep(AtES)

RestartDrawing ==  \* mutant: a key is made even when there is one
  /\ restarts < MaxRestarts
  /\ restarts' = restarts + 1
  /\ ForgetRequests
  /\ \E k \in Key \ madeKeys :
       /\ vsFiles' = vsFiles \union {k} /\ vsKeys' = {k}
       /\ madeKeys' = madeKeys \union {k}
  /\ UNCHANGED <<esvars, loaded, flag, temp, held, history>>

RestartVS ==
  /\ restarts < MaxRestarts
  /\ restarts' = restarts + 1
  /\ ForgetRequests
  /\ IF vsFiles # {}
       THEN vsKeys' = vsFiles /\ UNCHANGED <<vsFiles, madeKeys>>
       ELSE \E k \in Key \ madeKeys :
              vsFiles' = {k} /\ vsKeys' = {k} /\ madeKeys' = madeKeys \union {k}
  /\ UNCHANGED <<esvars, loaded, flag, temp, held, history>>

RestartES ==
  /\ restarts < MaxRestarts
  /\ restarts' = restarts + 1
  /\ End(InStep(AtES))
  /\ otp' = None /\ expired' = TRUE /\ drawing' = FALSE /\ upload' = None
  /\ IF esFiles # {}
       THEN esKey' = FirstFile(esFiles) /\ UNCHANGED <<esFiles, madeKeys>>
       ELSE \E k \in Key \ madeKeys :
              esFiles' = {k} /\ esKey' = k /\ madeKeys' = madeKeys \union {k}
  /\ UNCHANGED <<madeOtps, vsvars, history>>

-----------------------------------------------------------------------------
Administrator ==
  \/ GenerateOTP \/ SetOTP \/ ResetDownloadOTP \/ ExpireOTP
  \/ ResetKeys \/ (\E k \in Upload : UploadEVSKey(k)) \/ WriteUploadedKey

Download(q) ==
  \/ \E o \in madeOtps \union {None} : DownloadEVSKey(q, o)
  \/ HasOTP(q) \/ CheckOTP(q) \/ ReadKeyFile(q) \/ GiveKey(q)
  \/ DeleteKeyFiles(q) \/ WriteKeyFile(q)

Generation(q) ==
  \/ GuardianKeyGen(q) \/ GenKeys(q)
  \/ \E i \in Slice : WriteSlice(q, i)
  \/ SetFlag(q)

Next ==
  \/ Administrator
  \/ \E q \in Request : Download(q) \/ Generation(q)
  \/ LoadESElectionConfiguration
  \/ \E i \in Slice : TakeKey(i)
  \/ ClearKeys
  \/ RestartVS \/ RestartES

Spec == Init /\ [][Next]_vars

-----------------------------------------------------------------------------
(* Two downloads are given the key for one password only when both were in *)
(* GetEncryptionKey at once: the check and the reset of EligereESAPI.cs    *)
(* 279-287 are not one step.  Setup/Index.cshtml says of the password that *)
(* "it can be used only once".  A request without a password is given the  *)
(* key when the password is forgotten between HasOTP and OTP, and is no    *)
(* use of a password.                                                      *)
SecondDownloadOverlapped ==
  \A q, r \in Request, o \in Otp :
    /\ q # r /\ <<q, o>> \in given /\ <<r, o>> \in given
    => q \in beside[r] \/ r \in beside[q]

(* Slices of several generations mixed (HomeController.cs:252-275 looks at *)
(* the flag under one lock and sets it under another) still open the       *)
(* tally, after any restart, unless key files were replaced after they     *)
(* were cut, or a generation ran on another key than the one in the        *)
(* directory (a download without a restart).                               *)
GuardianKeysOpen ==
  /\ \A i \in Slice : held[i] # NoSlice /\ held[i].of = held[i].under
  /\ ~recut
  => JoinKeys(held)

(* Once the elections are loaded the voting system keeps the key file it   *)
(* loaded them with, unless a download had passed its check by then        *)
(* (HomeController.cs:485, 507-509).                                       *)
LoadedKeyStays ==
  loaded # None /\ racing = {} => loaded \in vsFiles
=============================================================================
