------------------------------- MODULE Prepare -------------------------------
(* wdi_prepare_driver (libwdi.c) and what it calls of pki.c: a call extracts  *)
(* the binaries, writes the inf of a device, creates a catalog of both, and   *)
(* signs the catalog with a certificate it makes for the occasion, which it   *)
(* has the machine trust and whose key it destroys.                           *)
(*                                                                            *)
(* The mutex of the function is global, so that calls of all processes come   *)
(* one after the other (module ApiMutex); but a process may be killed in the  *)
(* middle of one, and two error paths leave without releasing the mutex.      *)
(* wdi_is_driver_supported, which has no mutex, extracts the same temporary   *)
(* file as the call, in any thread and process.  Each step of Windows that    *)
(* the code checks, or fails to check, may go wrong: these are the faults.    *)
(*                                                                            *)
(* Abstracted: the contents of the files (an inf is the number of the call    *)
(* that wrote it, its driver and its version), paths, GUIDs and vendor names. *)
EXTENDS Integers, FiniteSets, SequencesExt

CONSTANTS
  Procs,      \* the processes that use the library
  Admins,     \* those of them with elevated privileges
  Types,      \* the sequence of the driver types, in the order of the enum
  Embedded,   \* the types whose driver file is among the resources
  Supported,  \* the types the build and the platform support
  Options,    \* what calls are given: see OptionsType
  VendorSubject, \* the subject of the certificate among the resources
  Calls,      \* bound: the calls of a behaviour
  Budgets     \* bounds: the queries of wdi_is_driver_supported and the installs of a
              \* certificate beside the calls, the steps that fail, and the processes
              \* that exit or are killed

VARIABLES
  strict,   \* Windows 10 without test signing, where an unsigned driver is no use
  n,        \* the number of the current, or of the last, call
  run,      \* the call in progress
  leaked,   \* the process that left the function without closing the mutex, if any
  ask,      \* who looks for the version of a driver: the call, and another thread
  temp,     \* the temporary file of each driver
  cache,    \* driver_version[] of each process: the types whose entry is filled
  disk,     \* the inf and the catalog under each name
  opened,   \* the infs that a process left open: pairs of process and name
  stores,   \* the certificates in the two stores of the machine
  key,      \* the call whose key is in the key container, or 0
  budget,   \* the queries, faults and kills that are left
  hist      \* what the properties remember, see TypeOK

files == <<disk, opened>>
trust == <<stores, key>>
version == <<ask, temp, cache>>
vars == <<strict, n, run, leaked, version, files, trust, budget, hist>>

TypeSet == {Types[i] : i \in DOMAIN Types}
\* The types whose version is looked for: the CDC driver and the user's are not embedded.
Versioned == TypeSet \ {"cdc", "user"}
Names == {o.name : o \in Options}
Subjects == {VendorSubject} \cup {o.subject : o \in Options} \cup {o.dev : o \in Options} \cup TypeSet
Askers == {"call", "other"}
StoreNames == {"Root", "TrustedPublisher"}

\* desc: whether the device has a description; subject: cert_subject, "" if not given
OptionsType == [dev : STRING, desc : BOOLEAN, name : STRING, type : TypeSet,
                wcid : BOOLEAN, subject : STRING, cat : BOOLEAN, sign : BOOLEAN]

ASSUME PrepareAssumption ==
  /\ Admins \subseteq Procs /\ Options \subseteq OptionsType
  /\ Types \in Seq(STRING) /\ Embedded \subseteq Versioned /\ Supported \subseteq TypeSet
  \* What the build supports was built in: a platform may support less (embedder_files.h).
  /\ Supported \cap Versioned \subseteq Embedded
  /\ Calls \in Nat
  /\ Budgets \subseteq [queries : Nat, certs : Nat, faults : Nat, kills : Nat]

NoFile == [n |-> 0]
\* asked, disturbed: the type the call was asked for, and whether its search was disturbed
Infs == [n : 1..Calls, whole : BOOLEAN, type : TypeSet, version : TypeSet \cup {"none"},
         asked : TypeSet, disturbed : BOOLEAN]
\* A certificate is known by the call that made it: so is the key that belongs to it.
Certs == [n : 1..Calls, subject : Subjects]
\* The certificate among the resources belongs to a key that is not on the machine.
Vendor == [n |-> -1, subject |-> VendorSubject]
\* covers: every listed file has its hash in it; signer: the call whose certificate signed it
Cats == [n : 1..Calls, covers : BOOLEAN, signer : {NoFile} \cup Certs]

\* The steps of a call from the one that trusts its certificate to the one that destroys the key.
Exposed == {"add root", "add publisher", "sign", "delete key"}
Steps == {"check", "version", "type", "extract", "inf", "cat", "remove root",
          "remove publisher", "generate", "certificate", "again"} \cup Exposed
NoCall == [at |-> "none"]
NoAsk == [at |-> "none"]

TypeOK ==
  /\ strict \in BOOLEAN /\ n \in 0..Calls /\ leaked \subseteq Procs
  /\ run \in {NoCall} \cup [at : Steps, by : Procs, o : Options, type : TypeSet,
                            disturbed : BOOLEAN, signed : BOOLEAN]
  /\ ask \in [Askers -> {NoAsk} \cup [at : {"open", "write", "read", "delete"},
                                      by : Procs, type : Versioned]]
  /\ temp \in [Versioned -> [file : {"none", "empty", "whole"}, writer : Askers \cup {"none"}]]
  /\ \A t \in Versioned : temp[t].writer # "none" =>
       ask[temp[t].writer].at = "write" /\ ask[temp[t].writer].type = t
  /\ cache \in [Procs -> SUBSET Versioned]
  /\ disk \in [Names -> [inf : {NoFile} \cup Infs, cat : {NoFile} \cup Cats]]
  /\ opened \subseteq Procs \X Names
  /\ stores \in [StoreNames -> SUBSET (Certs \cup {Vendor})] /\ key \in 0..Calls
  /\ budget \in [queries : Nat, certs : Nat, faults : Nat, kills : Nat]
  \* kept: the calls that reported a package the machine trusts
  \* silent: the calls some step of which failed and was passed over
  \* spared: the calls whose key could not be destroyed, or that were killed before they did
  \* latest: the last call that signed for a subject
  /\ hist \in [kept : SUBSET (1..Calls), silent : SUBSET (1..Calls),
               spared : SUBSET (1..Calls), latest : [Subjects -> 0..Calls]]

Init ==
  /\ strict \in BOOLEAN /\ n = 0 /\ run = NoCall /\ leaked = {}
  /\ ask = [a \in Askers |-> NoAsk]
  /\ temp = [t \in Versioned |-> [file |-> "none", writer |-> "none"]]
  /\ cache = [p \in Procs |-> {}]
  /\ disk = [f \in Names |-> [inf |-> NoFile, cat |-> NoFile]] /\ opened = {}
  /\ stores = [s \in StoreNames |-> {}] /\ key = 0
  /\ budget \in Budgets
  /\ hist = [kept |-> {}, silent |-> {}, spared |-> {}, latest |-> [s \in Subjects |-> 0]]

--------------------------------------------------------------------------------
At(step) == run.at = step
Go(step) == run' = [run EXCEPT !.at = step]
Return == run' = NoCall
Fails == budget.faults > 0 /\ budget' = [budget EXCEPT !.faults = @ - 1]
Works == UNCHANGED budget
Silently == Fails /\ hist' = [hist EXCEPT !.silent = @ \cup {n}]

\* Only the promise of a package the machine trusts is worth remembering.
SucceedWith(h) ==
  /\ Return
  /\ hist' = IF strict /\ run.by \in Admins /\ run.o.cat /\ run.o.sign /\ run.type # "user"
               THEN [h EXCEPT !.kept = @ \cup {n}] ELSE h
Succeed == SucceedWith(hist)

\* Mutant: it is only warned about.
WarnWith(h) == SucceedWith(h) /\ UNCHANGED leaked

(* A failure is fatal where an unsigned driver is no use: and the mutex stays taken. *)
FailWith(h) == IF strict THEN Return /\ leaked' = {run.by} /\ hist' = h
                         ELSE SucceedWith(h) /\ UNCHANGED leaked

Begin(p, o) ==
  /\ At("none") /\ leaked = {} /\ n < Calls
  /\ n' = n + 1
  /\ run' = [at |-> "check", by |-> p, o |-> o, type |-> o.type, disturbed |-> FALSE,
             signed |-> FALSE]
  /\ UNCHANGED <<strict, leaked, version, files, trust, budget, hist>>

\* check_dir fails, or a parameter is missing, or its extension is not ".inf".
Refuse ==
  /\ At("check") /\ Fails /\ Return
  /\ UNCHANGED <<strict, n, leaked, version, files, trust, hist>>

\* Whether the two look for the version of the same driver, as far as <<t>> goes.
Overlap(t) == \E a \in Askers : ask[a].at # "none" /\ ask[a].type = t

(* The entry of the cache is where the version is to be put: wdi_is_driver_supported *)
(* clears it before get_version_info asks it whether it is known.                    *)
Check ==
  /\ At("check") /\ Works
  /\ IF run.type \in Versioned
       THEN /\ run' = [run EXCEPT !.at = "version", !.disturbed = Overlap(run.type)]
            /\ cache' = [cache EXCEPT ![run.by] = @ \ {run.type}]
            /\ ask' = [ask EXCEPT !["call"] = [at |-> "open", by |-> run.by, type |-> run.type]]
       ELSE Go("type") /\ UNCHANGED <<ask, cache>>
  /\ UNCHANGED <<strict, n, leaked, temp, files, trust, hist>>

\* wdi_is_driver_supported of another thread, of this process or of another one.
Query(p, t) ==
  /\ ask["other"].at = "none" /\ budget.queries > 0
  /\ budget' = [budget EXCEPT !.queries = @ - 1]
  /\ ask' = [ask EXCEPT !["other"] = [at |-> "open", by |-> p, type |-> t]]
  /\ run' = IF At("version") /\ run.type = t THEN [run EXCEPT !.disturbed = TRUE] ELSE run
  /\ UNCHANGED <<strict, n, leaked, temp, cache, files, trust, hist>>

\* A fault of the search for the version disturbs the call if it is the call's own.
Disturbs(a) == Fails /\ run' = IF a = "call" THEN [run EXCEPT !.disturbed = TRUE] ELSE run
AskEnds(a) == ask' = [ask EXCEPT ![a] = NoAsk]
AskGoes(a, step) == ask' = [ask EXCEPT ![a].at = step]

\* The version is known, or there is no such file: otherwise it is extracted, unless
\* another thread has it open for writing.
AskOpen(a) ==
  /\ ask[a].at = "open"
  /\ LET t == ask[a].type IN
     \/ /\ \/ t \in cache[ask[a].by] \cup (Versioned \ Embedded)
           \/ temp[t].writer # "none"
        /\ AskEnds(a) /\ Works /\ UNCHANGED <<temp, run>>
     \/ /\ t \in Embedded \ cache[ask[a].by]
        /\ Disturbs(a) /\ AskEnds(a) /\ UNCHANGED temp
     \/ /\ t \in Embedded \ cache[ask[a].by] /\ temp[t].writer = "none"
        /\ temp' = [temp EXCEPT ![t] = [file |-> "empty", writer |-> a]]
        /\ AskGoes(a, "write") /\ Works /\ UNCHANGED run
  /\ UNCHANGED <<strict, n, leaked, cache, files, trust, hist>>

AskWrite(a) ==
  /\ ask[a].at = "write"
  /\ \/ temp' = [temp EXCEPT ![ask[a].type] = [file |-> "whole", writer |-> "none"]] /\ Works /\ UNCHANGED run
     \/ temp' = [temp EXCEPT ![ask[a].type].writer = "none"] /\ Disturbs(a)
  /\ AskGoes(a, "read")
  /\ UNCHANGED <<strict, n, leaked, cache, files, trust, hist>>

\* Another thread may have created the file anew, or deleted it.
AskRead(a) ==
  /\ ask[a].at = "read"
  /\ LET t == ask[a].type IN
     \/ /\ temp[t].file = "whole" /\ Works
        /\ cache' = [cache EXCEPT ![ask[a].by] = @ \cup {t}] /\ UNCHANGED run
     \/ temp[t].file # "whole" /\ Works /\ UNCHANGED <<cache, run>>
     \/ Disturbs(a) /\ UNCHANGED cache
  /\ AskGoes(a, "delete")
  /\ UNCHANGED <<strict, n, leaked, temp, files, trust, hist>>

\* A file that is open for writing is not deleted.
AskDelete(a) ==
  /\ ask[a].at = "delete" /\ AskEnds(a)
  /\ temp' = [temp EXCEPT ![ask[a].type].file = IF temp[ask[a].type].writer = "none" THEN "none" ELSE @]
  /\ UNCHANGED <<strict, n, run, leaked, cache, files, trust, budget, hist>>

--------------------------------------------------------------------------------
(* The driver: the one asked for, or the first that is supported, whose version nobody *)
(* has looked for on behalf of this call.                                              *)
FirstSupported == SelectInSeq(Types, LAMBDA t : t \in Supported)

Choose ==
  /\ (At("version") /\ ask["call"].at = "none") \/ At("type")
  /\ IF run.type \in Supported THEN Go("extract")
     ELSE IF FirstSupported = 0 THEN Return
     ELSE run' = [run EXCEPT !.at = "extract", !.type = Types[FirstSupported]]
  /\ UNCHANGED <<strict, n, leaked, version, files, trust, budget, hist>>

\* For a driver of the user this is all there is to do.  A write is not checked.
Extract ==
  /\ At("extract")
  /\ \/ Works /\ run.type = "user" /\ Succeed
     \/ Works /\ run.type # "user" /\ run.o.desc /\ Go("inf") /\ UNCHANGED hist
     \/ Works /\ run.type # "user" /\ ~run.o.desc /\ Return /\ UNCHANGED hist
     \/ Fails /\ Return /\ UNCHANGED hist
     \/ Silently /\ run.type # "user" /\ run.o.desc /\ Go("inf")
  /\ UNCHANGED <<strict, n, leaked, version, files, trust>>

\* Mutant: the version is that of the driver that was asked for.
VersionOfAsked(p, t) == IF run.o.type \in cache[p] THEN run.o.type ELSE "none"

VersionOf(p, t) == IF t \in cache[p] THEN t ELSE "none"
Inf(whole) ==
  [n |-> n, whole |-> whole, type |-> run.type, version |-> VersionOf(run.by, run.type),
   asked |-> run.o.type, disturbed |-> run.disturbed]
PutInf(whole) == disk' = [disk EXCEPT ![run.o.name].inf = Inf(whole)]
Open(name) == \E p \in Procs : <<p, name>> \in opened

(* An inf that a process left open cannot be opened again.  A text that cannot be *)
(* converted leaves it so, and empty.                                             *)
WriteInf ==
  /\ At("inf")
  /\ \/ /\ Open(run.o.name) /\ Works
        /\ Return /\ UNCHANGED <<files, hist>>
     \/ Fails /\ Return /\ UNCHANGED <<files, hist>>
     \/ /\ ~Open(run.o.name) /\ Fails
        /\ PutInf(FALSE) /\ opened' = opened \cup {<<run.by, run.o.name>>}
        /\ Return /\ UNCHANGED hist
     \/ ~Open(run.o.name) /\ Silently /\ PutInf(FALSE) /\ Go("cat") /\ UNCHANGED opened
     \/ ~Open(run.o.name) /\ Works /\ PutInf(TRUE) /\ Go("cat") /\ UNCHANGED <<opened, hist>>
  /\ UNCHANGED <<strict, n, leaked, version, trust>>

\* Without the privileges, or the wish, for a catalog the one that is there stays there.
NoCat ==
  /\ At("cat") /\ (run.by \notin Admins \/ ~run.o.cat) /\ Succeed
  /\ UNCHANGED <<strict, n, leaked, version, files, trust, budget>>

PutCat(covers) ==
  disk' = [disk EXCEPT ![run.o.name].cat = [n |-> n, covers |-> covers, signer |-> NoFile]]
\* The catalog is there: it is signed, or the call is done.
Sign == IF run.o.sign THEN Go("remove root") ELSE Succeed

CatMade ==
  /\ Works /\ PutCat(TRUE) /\ Sign /\ UNCHANGED leaked
  /\ run.o.sign => UNCHANGED hist

\* AddFileHash: a file whose hash cannot be computed or added is passed over.
HashMissed ==
  /\ PutCat(FALSE) /\ UNCHANGED leaked
  /\ IF run.o.sign THEN Silently /\ Go("remove root") ELSE Fails /\ Succeed

\* The list of the files cannot be read.
ListMissing == Fails /\ Return /\ UNCHANGED <<disk, leaked, hist>>

\* The catalog cannot be created, or not be saved once the one before is gone.
CatFails == Fails /\ FailWith(hist) /\ (UNCHANGED disk \/ PutCat(FALSE))

CreateCat ==
  /\ At("cat") /\ run.by \in Admins /\ run.o.cat
  /\ CatMade \/ HashMissed \/ ListMissing \/ CatFails
  /\ UNCHANGED <<strict, n, version, opened, trust>>

--------------------------------------------------------------------------------
(* SelfSignFile.  The subject of the certificate is the hardware, or compatible, id, *)
(* unless the application gives one of its own.                                      *)
Subject == IF run.o.subject # "" THEN run.o.subject
           ELSE IF run.o.wcid THEN run.type ELSE run.o.dev
Own == [n |-> n, subject |-> Subject]
OfSubject(s) == {c \in stores[s] : c.subject = Subject}

\* RemoveCertFromStore gives up at the first certificate it cannot remove: nobody asks.
RemoveCert(step, s, next) ==
  /\ At(step) /\ Go(next)
  /\ \/ stores' = [stores EXCEPT ![s] = @ \ OfSubject(s)] /\ Works
     \/ Fails /\ \E some \in SUBSET OfSubject(s) : stores' = [stores EXCEPT ![s] = @ \ some]
  /\ hist' = [hist EXCEPT !.latest[Subject] = n]
  /\ UNCHANGED <<strict, n, leaked, version, files, key>>

RemoveOld == \/ RemoveCert("remove root", "Root", "remove publisher")
             \/ RemoveCert("remove publisher", "TrustedPublisher", "generate")

\* SelfSignFile returns, and what its caller makes of it.
SignReturns(signed, h) == IF signed THEN SucceedWith(h) /\ UNCHANGED leaked ELSE FailWith(h)

\* The container is opened or made, and a new key put into it in place of the old one.
GenerateKey ==
  /\ At("generate")
  /\ \/ key' = n /\ Works /\ Go("certificate") /\ UNCHANGED <<leaked, hist>>
     \/ Fails /\ SignReturns(FALSE, hist) /\ UNCHANGED key
  /\ UNCHANGED <<strict, n, version, files, stores>>

\* A key without a certificate stays in the container: nothing trusts it.
MakeCertificate ==
  /\ At("certificate")
  /\ \/ Works /\ Go("add root") /\ UNCHANGED <<leaked, hist>>
     \/ Fails /\ SignReturns(FALSE, hist)
  /\ UNCHANGED <<strict, n, version, files, trust>>

Add(s) == stores' = [stores EXCEPT ![s] = @ \cup {Own}]
\* Mutant: SelfSignFile returns at once when the certificate cannot be added.
AddCertOrReturn(step, s, next) ==
  /\ At(step)
  /\ \/ Add(s) /\ Works /\ Go(next) /\ UNCHANGED <<leaked, hist>>
     \/ Fails /\ SignReturns(FALSE, hist) /\ UNCHANGED stores
  /\ UNCHANGED <<strict, n, version, files, key>>

AddCert(step, s, next) ==
  /\ At(step)
  /\ \/ Add(s) /\ Works /\ Go(next)
     \/ Fails /\ Go("delete key") /\ UNCHANGED stores
  /\ UNCHANGED <<strict, n, leaked, version, files, key, hist>>

AddOwn == \/ AddCert("add root", "Root", "add publisher")
          \/ AddCert("add publisher", "TrustedPublisher", "sign")

SignFile ==
  /\ At("sign")
  /\ \/ /\ disk' = [disk EXCEPT ![run.o.name].cat.signer = Own] /\ Works
        /\ run' = [run EXCEPT !.at = "delete key", !.signed = TRUE]
     \/ Fails /\ Go("delete key") /\ UNCHANGED disk
  /\ UNCHANGED <<strict, n, leaked, version, opened, trust, hist>>

(* DeletePrivateKey: a key that cannot be acquired stays, and so does one that cannot be *)
(* deleted, which the code takes for deleted.                                            *)
DeleteKey ==
  LET spares == [hist EXCEPT !.spared = @ \cup {n}] IN
  /\ At("delete key")
  /\ \/ key' = 0 /\ Works /\ Go("again") /\ UNCHANGED <<leaked, hist>>
     \/ Fails /\ Go("again") /\ hist' = spares /\ UNCHANGED <<key, leaked>>
     \/ Fails /\ SignReturns(run.signed, spares) /\ UNCHANGED key
  /\ UNCHANGED <<strict, n, version, files, stores>>

(* The certificate is put into both stores again, to have them forget about the key: *)
(* into the one as well that had refused it.                                         *)
AddAgain ==
  /\ At("again") /\ SignReturns(run.signed, hist)
  /\ \/ Works /\ stores' = [s \in StoreNames |-> stores[s] \cup {Own}]
     \/ Fails /\ (UNCHANGED stores \/ \E s \in StoreNames : Add(s))
  /\ UNCHANGED <<strict, n, version, files, key>>

--------------------------------------------------------------------------------
\* AddCertToTrustedPublisher: the user may cancel it; what is there is not added again.
TrustVendor ==
  \/ stores' = [stores EXCEPT !["TrustedPublisher"] = @ \cup {Vendor}]
  \/ UNCHANGED stores

\* wdi_install_trusted_certificate has no mutex.
InstallCertificate(p) ==
  /\ p \in Admins /\ budget.certs > 0 /\ budget' = [budget EXCEPT !.certs = @ - 1]
  /\ TrustVendor
  /\ UNCHANGED <<strict, n, run, leaked, version, files, key, hist>>

\* A process that exits, or is killed in the middle of a call, releases what it holds.
ByProc(a, p) == ask[a].at # "none" /\ ask[a].by = p
Exit(p) ==
  LET calls == run # NoCall /\ run.by = p IN
  /\ budget.kills > 0 /\ budget' = [budget EXCEPT !.kills = @ - 1]
  /\ run' = IF calls THEN NoCall ELSE run
  /\ hist' = IF calls /\ run.at \in Exposed THEN [hist EXCEPT !.spared = @ \cup {n}] ELSE hist
  /\ leaked' = leaked \ {p}
  /\ opened' = opened \ ({p} \X Names)
  /\ cache' = [cache EXCEPT ![p] = {}]
  /\ temp' = [t \in Versioned |->
       IF temp[t].writer # "none" /\ ByProc(temp[t].writer, p)
         THEN [temp[t] EXCEPT !.writer = "none"] ELSE temp[t]]
  /\ ask' = [a \in Askers |-> IF ByProc(a, p) THEN NoAsk ELSE ask[a]]
  /\ UNCHANGED <<strict, n, disk, trust>>

Ask(a) == AskOpen(a) \/ AskWrite(a) \/ AskRead(a) \/ AskDelete(a)
Signs == RemoveOld \/ GenerateKey \/ MakeCertificate \/ AddOwn \/ SignFile
         \/ DeleteKey \/ AddAgain
Proceed == Refuse \/ Check \/ Choose \/ Extract \/ WriteInf \/ NoCat \/ CreateCat \/ Signs

Next == \/ \E p \in Procs, o \in Options : Begin(p, o)
        \/ \E p \in Procs, t \in Versioned : Query(p, t)
        \/ \E a \in Askers : Ask(a)
        \/ Proceed
        \/ \E p \in Procs : InstallCertificate(p)
        \/ \E p \in Procs : Exit(p)

Spec == Init /\ [][Next]_vars

--------------------------------------------------------------------------------
(* "we *MUST* ensure that the private key is destroyed, so that it cannot be reused" *)
(* (pki.c:1046): whenever no call is about to destroy it, no key is left in the      *)
(* container whose certificate a store of the machine trusts, whichever step failed, *)
(* but for a call whose deletion itself failed or that was killed before.            *)
KeyDestroyed ==
  run.at \notin Exposed =>
    \A s \in StoreNames : \A c \in stores[s] : c.n = key => c.n \in hist.spared

(* What wdi_prepare_driver promises where Windows asks for a signature: as long as the *)
(* inf of a call that succeeded is there, the catalog beside it is of the same call,   *)
(* covers the inf and the binaries unless a step was passed over, and is signed with a *)
(* certificate in both stores, until a call is about to sign for the same subject.     *)
PackageTrusted ==
  \A f \in Names : disk[f].inf.n \in hist.kept =>
    LET i == disk[f].inf.n
        c == disk[f].cat IN
    /\ c.n = i /\ c.signer.n = i
    /\ i \notin hist.silent => disk[f].inf.whole /\ c.covers
    /\ hist.latest[c.signer.subject] = i => \A s \in StoreNames : c.signer \in stores[s]

(* The version an inf gives, which makes Windows prefer one driver to another, is that of *)
(* its driver, unless it has none: the CDC driver, the driver that stands in for one that *)
(* is not supported, and the driver whose file another thread, or a fault, got hold of.   *)
VersionIsOwn ==
  \A f \in Names : LET i == disk[f].inf IN
    i.n # 0 => \/ i.version = i.type
               \/ /\ i.version = "none"
                  /\ i.disturbed \/ i.type # i.asked \/ i.type = "cdc"
=============================================================================
