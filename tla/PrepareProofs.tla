---------------------------- MODULE PrepareProofs ----------------------------
(* What holds of Prepare for any number of processes, devices, calls and faults: its *)
(* types; that no trusted key is left behind; that what a call promises of a package *)
(* stays true; and whose version an inf gives.                                       *)
EXTENDS Prepare, WellFoundedInduction, TLAPS

Runs == [at : Steps, by : Procs, o : Options, type : TypeSet, disturbed : BOOLEAN,
         signed : BOOLEAN]
Asks == [at : {"open", "write", "read", "delete"}, by : Procs, type : Versioned]
Hists == [kept : SUBSET (1..Calls), silent : SUBSET (1..Calls), spared : SUBSET (1..Calls),
          latest : [Subjects -> 0..Calls]]

\* The steps of SelfSignFile: the catalog is there.
Signing == Exposed \cup {"remove root", "remove publisher", "generate", "certificate", "again"}
\* The steps of a call whose certificate cannot be in a store yet.
Early == Steps \ {"add publisher", "sign", "delete key", "again"}

\* A call has a number, searches for a version at one step only, and works on the inf and
\* the catalog that it has put on the disk itself.
Located ==
  /\ run # NoCall => n > 0
  /\ ask["call"].at # "none" => At("version") /\ run.by = ask["call"].by
  /\ run.at \in {"cat"} \cup Signing => disk[run.o.name].inf.n = n
  /\ run.at \in Signing => disk[run.o.name].cat.n = n

PrepTypeInv == TypeOK /\ Located

--------------------------------------------------------------------------------
\* The driver that stands in for one that is not supported is supported.
LEMMA FirstIsSupported ==
  FirstSupported # 0 => FirstSupported \in DOMAIN Types /\ Types[FirstSupported] \in Supported
<1>. DEFINE I == {i \in 1..Len(Types) : Types[i] \in Supported}
            less == {p \in Nat \X Nat : p[1] < p[2]}
<1>1. FirstSupported = IF I # {} THEN Min(I) ELSE 0
  BY DEF FirstSupported, SelectInSeq
<1>2. I # {} => \E x \in I : \A y \in I : x <= y
  <2>1. IsWellFoundedOn(less, Nat)
    BY NatLessThanWellFounded DEF OpToRel
  <2>2. I \subseteq Nat
    OBVIOUS
  <2>3. ASSUME I # {} PROVE \E x \in I : \A y \in I : ~(<<y, x>> \in less)
    <3>. HIDE DEF I, less
    <3>. QED
      BY <2>1, <2>2, <2>3, WFMin
  <2>4. \A x, y \in Nat : <<y, x>> \in less <=> y < x
    OBVIOUS
  <2>5. \A x, y \in Nat : ~(y < x) => x <= y
    OBVIOUS
  <2>. HIDE DEF I, less
  <2>. QED
    BY <2>2, <2>3, <2>4, <2>5
<1>3. I # {} => Min(I) \in I
  BY <1>2 DEF Min
<1>. QED
  BY <1>1, <1>3, PrepareAssumption

\* What a call in progress is made of, and what it makes.
LEMMA CallTyped ==
  ASSUME PrepTypeInv, run.at # "none"
  PROVE  /\ run \in Runs /\ run # NoCall /\ n \in 1..Calls /\ n # 0
         /\ run.o.name \in Names /\ run.o.type \in TypeSet
         /\ Subject \in Subjects /\ Own \in Certs /\ Own.n = n /\ Own.subject = Subject
<1>1. run # NoCall
  BY DEF NoCall
<1>2. run \in Runs /\ n \in 1..Calls
  BY <1>1, PrepareAssumption DEF PrepTypeInv, TypeOK, Located, Runs
<1>3. run.o \in Options /\ run.o.type \in TypeSet /\ run.type \in TypeSet
  BY <1>2, PrepareAssumption DEF Runs, OptionsType
<1>4. run.o.name \in Names
  BY <1>3 DEF Names
<1>5. Subject \in Subjects
  BY <1>3 DEF Subject, Subjects
<1>6. Own \in Certs /\ Own.n = n /\ Own.subject = Subject
  BY <1>2, <1>5 DEF Own, Certs
<1>. QED
  BY <1>1, <1>2, <1>3, <1>4, <1>5, <1>6, PrepareAssumption

\* A call ends in success or in failure, and remembers a promise only in success.
LEMMA Endings ==
  ASSUME PrepTypeInv, run.at # "none", NEW h \in Hists, NEW signed \in BOOLEAN,
         \/ SignReturns(signed, h) \/ FailWith(h) \/ (SucceedWith(h) /\ UNCHANGED leaked)
  PROVE  /\ run' = NoCall /\ leaked' \subseteq Procs /\ hist' \in Hists
         /\ hist' = h \/ hist' = [h EXCEPT !.kept = @ \cup {n}]
<1>1. run.by \in Procs /\ n \in 1..Calls /\ leaked \subseteq Procs
  BY CallTyped DEF Runs, PrepTypeInv, TypeOK
<1>2. [h EXCEPT !.kept = @ \cup {n}] \in Hists
  BY <1>1 DEF Hists
<1>. QED
  BY <1>1, <1>2 DEF SignReturns, FailWith, SucceedWith, Return

\* The budget is only ever spent.
LEMMA BudgetTyped ==
  PrepTypeInv /\ [Next]_vars => budget' \in [queries : Nat, certs : Nat, faults : Nat, kills : Nat]
<1>. SUFFICES ASSUME PrepTypeInv, [Next]_vars
              PROVE  budget' \in [queries : Nat, certs : Nat, faults : Nat, kills : Nat]
  OBVIOUS
<1>1. budget \in [queries : Nat, certs : Nat, faults : Nat, kills : Nat]
  BY DEF PrepTypeInv, TypeOK
<1>2. /\ Works => budget' = budget
      /\ Fails \/ Silently => budget.faults > 0 /\ budget' = [budget EXCEPT !.faults = @ - 1]
      /\ \A a : Disturbs(a) => Fails
  BY DEF Works, Fails, Silently, Disturbs
<1>3. \/ budget' = budget
      \/ budget.faults > 0 /\ budget' = [budget EXCEPT !.faults = @ - 1]
      \/ budget.queries > 0 /\ budget' = [budget EXCEPT !.queries = @ - 1]
      \/ budget.certs > 0 /\ budget' = [budget EXCEPT !.certs = @ - 1]
      \/ budget.kills > 0 /\ budget' = [budget EXCEPT !.kills = @ - 1]
  <2>1. CASE Proceed
    BY <1>2, <2>1 DEF Proceed, Refuse, Check, Choose, Extract, WriteInf, NoCat, CreateCat, CatMade,
       HashMissed, ListMissing, CatFails, Signs, RemoveOld, RemoveCert, GenerateKey,
       MakeCertificate, AddOwn, AddCert, SignFile, DeleteKey, AddAgain
  <2>2. CASE \E a \in Askers : Ask(a)
    BY <1>2, <2>2 DEF Ask, AskOpen, AskWrite, AskRead, AskDelete
  <2>3. CASE UNCHANGED vars
    BY <2>3 DEF vars
  <2>. QED
    BY <2>1, <2>2, <2>3 DEF Next, Begin, Query, InstallCertificate, Exit
<1>. QED
  BY <1>1, <1>3

\* The steps of a call from one to the next.
LEMMA Stepping ==
  ASSUME NEW r \in Runs
  PROVE  /\ r.at \in Steps /\ r.by \in Procs /\ r.o \in Options /\ r.type \in TypeSet
         /\ \A step \in Steps : [r EXCEPT !.at = step] \in Runs
         /\ \A step \in Steps : \A b \in BOOLEAN :
              /\ [r EXCEPT !.at = step, !.disturbed = b] \in Runs
              /\ [r EXCEPT !.at = step, !.signed = b] \in Runs
         /\ \A step \in Steps : \A t \in TypeSet : [r EXCEPT !.at = step, !.type = t] \in Runs
         /\ [r EXCEPT !.disturbed = TRUE] \in Runs
BY DEF Runs

\* Where a step of the call in progress leads.
LEMMA ProceedRun ==
  ASSUME PrepTypeInv, Proceed
  PROVE  /\ run.at # "none" /\ n' = n /\ strict' = strict /\ leaked' \subseteq Procs
         /\ run' \in {NoCall} \cup Runs
<1>1. run.at # "none"
  BY DEF Proceed, Refuse, Check, Choose, Extract, WriteInf, NoCat, CreateCat,
     Signs, RemoveOld, RemoveCert, GenerateKey, MakeCertificate, AddOwn, AddCert, SignFile,
     DeleteKey, AddAgain, At
<1>2. run \in Runs /\ n \in 1..Calls /\ leaked \subseteq Procs /\ run.by \in Procs
  BY <1>1, CallTyped DEF PrepTypeInv, TypeOK, Runs
<1>3. \A step \in Steps : Go(step) => run' \in Runs
  BY <1>2, Stepping DEF Go
<1>4. /\ Return => run' = NoCall
      /\ \A h : SucceedWith(h) => run' = NoCall
      /\ \A h : FailWith(h) => run' = NoCall /\ leaked' \subseteq Procs
      /\ \A b, h : SignReturns(b, h) => run' = NoCall /\ leaked' \subseteq Procs
  BY <1>2 DEF Return, SucceedWith, FailWith, SignReturns
<1>5. {"check", "version", "type", "extract", "inf", "cat", "remove root", "remove publisher",
       "generate", "certificate", "again", "add root", "add publisher", "sign",
       "delete key"} = Steps
  BY DEF Steps, Exposed
<1>6. /\ n' = n /\ strict' = strict
  BY DEF Proceed, Refuse, Check, Choose, Extract, WriteInf, NoCat, CreateCat,
     Signs, RemoveOld, RemoveCert, GenerateKey, MakeCertificate, AddOwn, AddCert, SignFile,
     DeleteKey, AddAgain
<1>7. CASE Check
  <2>1. CASE run.type \in Versioned
    <3>1. Overlap(run.type) \in BOOLEAN
      BY DEF Overlap
    <3>2. run' = [run EXCEPT !.at = "version", !.disturbed = Overlap(run.type)]
      BY <1>7, <2>1 DEF Check
    <3>3. run' \in Runs
      BY <1>2, <1>5, <3>1, <3>2, Stepping
    <3>. QED
      BY <1>1, <1>2, <1>6, <1>7, <3>3 DEF Check
  <2>2. CASE run.type \notin Versioned
    BY <1>1, <1>2, <1>3, <1>5, <1>6, <1>7, <2>2 DEF Check
  <2>. QED
    BY <2>1, <2>2
<1>8. CASE Choose
  <2>1. FirstSupported # 0 => Types[FirstSupported] \in TypeSet
    BY FirstIsSupported DEF TypeSet
  <2>2. FirstSupported # 0 =>
          [run EXCEPT !.at = "extract", !.type = Types[FirstSupported]] \in Runs
    BY <1>2, <1>5, <2>1, Stepping
  <2>. QED
    BY <1>1, <1>2, <1>3, <1>4, <1>5, <1>6, <1>8, <2>2 DEF Choose
<1>9. CASE SignFile
  <2>1. [run EXCEPT !.at = "delete key", !.signed = TRUE] \in Runs
    BY <1>2, <1>5, Stepping
  <2>. QED
    BY <1>1, <1>2, <1>3, <1>5, <1>6, <1>9, <2>1 DEF SignFile
<1>10. CASE Refuse \/ Extract \/ WriteInf \/ NoCat
  BY <1>1, <1>2, <1>3, <1>4, <1>5, <1>6, <1>10 DEF Refuse, Extract, Succeed, WriteInf, NoCat
<1>11. CASE CreateCat
  BY <1>1, <1>2, <1>3, <1>4, <1>5, <1>6, <1>11 DEF CreateCat, CatMade, Sign, Succeed, HashMissed,
     ListMissing, CatFails
<1>12. CASE RemoveOld \/ GenerateKey \/ MakeCertificate
  BY <1>1, <1>2, <1>3, <1>4, <1>5, <1>6, <1>12 DEF RemoveOld, RemoveCert, GenerateKey,
     MakeCertificate
<1>13. CASE AddOwn \/ DeleteKey \/ AddAgain
  BY <1>1, <1>2, <1>3, <1>4, <1>5, <1>6, <1>13 DEF AddOwn, AddCert, DeleteKey, AddAgain
<1>. QED
  BY <1>7, <1>8, <1>9, <1>10, <1>11, <1>12, <1>13 DEF Proceed, Signs

\* The call in progress, and whatever else happens.
LEMMA RunTyped ==
  ASSUME PrepTypeInv, [Next]_vars
  PROVE  /\ strict' \in BOOLEAN /\ n' \in 0..Calls /\ leaked' \subseteq Procs
         /\ run' \in {NoCall} \cup Runs
<1>1. /\ strict \in BOOLEAN /\ n \in 0..Calls /\ leaked \subseteq Procs
      /\ run \in {NoCall} \cup Runs /\ Calls \in Nat
  BY PrepareAssumption DEF PrepTypeInv, TypeOK, Runs
<1>2. ASSUME NEW p \in Procs, NEW o \in Options, Begin(p, o)
      PROVE  /\ strict' \in BOOLEAN /\ n' \in 0..Calls /\ leaked' \subseteq Procs /\ run' \in Runs
  <2>1. o.type \in TypeSet /\ "check" \in Steps
    BY PrepareAssumption DEF OptionsType, Steps
  <2>. QED
    BY <1>1, <1>2, <2>1 DEF Begin, Runs
<1>3. run.at # "none" => run \in Runs /\ [run EXCEPT !.disturbed = TRUE] \in Runs
  BY CallTyped, Stepping
<1>4. ASSUME NEW p \in Procs, NEW t \in Versioned, Query(p, t)
      PROVE  /\ strict' \in BOOLEAN /\ n' \in 0..Calls /\ leaked' \subseteq Procs
             /\ run' \in {NoCall} \cup Runs
  BY <1>1, <1>3, <1>4 DEF Query, At
<1>5. ASSUME NEW a \in Askers, Ask(a)
      PROVE  /\ strict' \in BOOLEAN /\ n' \in 0..Calls /\ leaked' \subseteq Procs
             /\ run' \in {NoCall} \cup Runs
  <2>1. ask[a].at # "none"
    BY <1>5 DEF Ask, AskOpen, AskWrite, AskRead, AskDelete
  <2>2. a = "call" => run.at # "none"
    BY <2>1 DEF PrepTypeInv, Located, At
  <2>3. Disturbs(a) => run' \in {NoCall} \cup Runs
    BY <1>1, <1>3, <2>2 DEF Disturbs
  <2>. QED
    BY <1>1, <1>5, <2>3 DEF Ask, AskOpen, AskWrite, AskRead, AskDelete
<1>6. CASE \E p \in Procs : InstallCertificate(p)
  BY <1>1, <1>6 DEF InstallCertificate
<1>7. CASE \E p \in Procs : Exit(p)
  BY <1>1, <1>7 DEF Exit
<1>8. CASE UNCHANGED vars
  BY <1>1, <1>8 DEF vars
<1>9. CASE Proceed
  BY <1>1, <1>9, ProceedRun
<1>. QED
  BY <1>2, <1>4, <1>5, <1>6, <1>7, <1>8, <1>9 DEF Next

\* What a call leaves alone.
LEMMA ProceedFrame ==
  ASSUME Proceed
  PROVE  /\ Check \/ UNCHANGED version
         /\ WriteInf \/ CreateCat \/ SignFile \/ UNCHANGED disk
         /\ WriteInf \/ UNCHANGED opened
         /\ RemoveOld \/ AddOwn \/ AddAgain \/ UNCHANGED stores
         /\ GenerateKey \/ DeleteKey \/ UNCHANGED key
<1>1. Check \/ UNCHANGED version
  BY DEF Proceed, Refuse, Choose, Extract, WriteInf, NoCat, CreateCat, Signs,
     RemoveOld, RemoveCert, GenerateKey, MakeCertificate, AddOwn, AddCert, SignFile,
     DeleteKey, AddAgain
<1>2. WriteInf \/ CreateCat \/ SignFile \/ UNCHANGED disk
  BY DEF Proceed, Refuse, Check, Choose, Extract, NoCat, Signs,
     RemoveOld, RemoveCert, GenerateKey, MakeCertificate, AddOwn, AddCert,
     DeleteKey, AddAgain, files
<1>3. WriteInf \/ UNCHANGED opened
  BY DEF Proceed, Refuse, Check, Choose, Extract, NoCat, CreateCat, Signs,
     RemoveOld, RemoveCert, GenerateKey, MakeCertificate, AddOwn, AddCert, SignFile,
     DeleteKey, AddAgain, files
<1>4. RemoveOld \/ AddOwn \/ AddAgain \/ UNCHANGED stores
  BY DEF Proceed, Refuse, Check, Choose, Extract, WriteInf, NoCat, CreateCat, Signs,
     GenerateKey, MakeCertificate, SignFile, DeleteKey, trust
<1>5. GenerateKey \/ DeleteKey \/ UNCHANGED key
  BY DEF Proceed, Refuse, Check, Choose, Extract, WriteInf, NoCat, CreateCat, Signs,
     RemoveOld, RemoveCert, MakeCertificate, AddOwn, AddCert, SignFile, AddAgain, trust
<1>. QED
  BY <1>1, <1>2, <1>3, <1>4, <1>5

\* The searches for versions.
SearchOK ==
  /\ ask \in [Askers -> {NoAsk} \cup Asks]
  /\ temp \in [Versioned -> [file : {"none", "empty", "whole"}, writer : Askers \cup {"none"}]]
  /\ \A t \in Versioned : temp[t].writer # "none" =>
       ask[temp[t].writer].at = "write" /\ ask[temp[t].writer].type = t
  /\ cache \in [Procs -> SUBSET Versioned]

\* Whoever writes a file is at its step of writing.
LEMMA SearchTyped == PrepTypeInv /\ [Next]_vars => SearchOK'
<1>. SUFFICES ASSUME PrepTypeInv, [Next]_vars PROVE SearchOK'
  OBVIOUS
<1>1. SearchOK
  BY DEF PrepTypeInv, TypeOK, SearchOK, Asks
<1>2. UNCHANGED version => SearchOK'
  BY <1>1 DEF SearchOK, version
<1>3. NoAsk.at = "none" /\ \A r \in Asks : r.at # "none" /\ r.by \in Procs /\ r.type \in Versioned
  BY DEF NoAsk, Asks
<1>4. /\ "call" \in Askers /\ "other" \in Askers /\ "none" \notin Askers
      /\ \A a \in Askers : a = "call" \/ a = "other"
  BY DEF Askers
<1>5. CASE Check
  <2>1. CASE run.type \in Versioned
    <3>1. run.by \in Procs /\ ask["call"].at = "none"
      BY <1>5, CallTyped DEF Check, At, Runs, PrepTypeInv, Located
    <3>2. [at |-> "open", by |-> run.by, type |-> run.type] \in Asks
      BY <2>1, <3>1 DEF Asks
    <3>3. /\ ask' = [ask EXCEPT !["call"] = [at |-> "open", by |-> run.by, type |-> run.type]]
          /\ cache' = [cache EXCEPT ![run.by] = @ \ {run.type}] /\ temp' = temp
      BY <1>5, <2>1 DEF Check
    <3>4. ask' \in [Askers -> {NoAsk} \cup Asks] /\ cache' \in [Procs -> SUBSET Versioned]
      BY <1>1, <3>2, <3>3 DEF SearchOK
    <3>5. \A t \in Versioned : temp[t].writer # "call"
      BY <1>1, <1>4, <3>1 DEF SearchOK
    <3>6. \A t \in Versioned : temp[t].writer # "none" =>
            ask'[temp[t].writer] = ask[temp[t].writer]
      BY <1>1, <3>3, <3>5 DEF SearchOK
    <3>. QED
      BY <1>1, <3>3, <3>4, <3>6 DEF SearchOK
  <2>2. CASE run.type \notin Versioned
    BY <1>2, <1>5, <2>2 DEF Check, version
  <2>. QED
    BY <2>1, <2>2
<1>6. ASSUME NEW p \in Procs, NEW t \in Versioned, Query(p, t)
      PROVE  SearchOK'
  <2>1. /\ ask["other"].at = "none" /\ temp' = temp /\ cache' = cache
        /\ ask' = [ask EXCEPT !["other"] = [at |-> "open", by |-> p, type |-> t]]
    BY <1>6 DEF Query
  <2>2. [at |-> "open", by |-> p, type |-> t] \in Asks
    BY DEF Asks
  <2>3. ask' \in [Askers -> {NoAsk} \cup Asks]
    BY <1>1, <2>1, <2>2 DEF SearchOK
  <2>4. \A u \in Versioned : temp[u].writer # "none" =>
          ask'[temp[u].writer] = ask[temp[u].writer]
    BY <1>1, <1>4, <2>1 DEF SearchOK
  <2>. QED
    BY <1>1, <2>1, <2>3, <2>4 DEF SearchOK
<1>7. ASSUME NEW a \in Askers, Ask(a)
      PROVE  SearchOK'
  <2>1. ask[a] \in Asks
    <3>1. ask[a].at # "none"
      BY <1>7 DEF Ask, AskOpen, AskWrite, AskRead, AskDelete
    <3>. QED
      BY <1>1, <1>3, <3>1 DEF SearchOK
  <2>2. \A step \in {"open", "write", "read", "delete"} : [ask[a] EXCEPT !.at = step] \in Asks
    BY <2>1 DEF Asks
  <2>3. /\ AskEnds(a) => /\ ask' \in [Askers -> {NoAsk} \cup Asks] /\ ask'[a] = NoAsk
                         /\ \A b \in Askers : b # a => ask'[b] = ask[b]
    BY <1>1 DEF AskEnds, SearchOK
  <2>4. \A step \in {"open", "write", "read", "delete"} : AskGoes(a, step) =>
          /\ ask' \in [Askers -> {NoAsk} \cup Asks] /\ ask'[a].at = step
          /\ ask'[a].type = ask[a].type
          /\ \A b \in Askers : b # a => ask'[b] = ask[b]
    BY <1>1, <2>1, <2>2 DEF AskGoes, SearchOK, Asks
  <2>5. ask[a].type \in Versioned /\ ask[a].by \in Procs
    BY <1>3, <2>1
  <2>6. \A t \in Versioned : ask[a].at # "write" => temp[t].writer # a
    BY <1>1, <1>4 DEF SearchOK
  <2>7. \A t \in Versioned : temp[t].writer = a => t = ask[a].type
    BY <1>1, <1>4 DEF SearchOK
  <2>8. CASE AskOpen(a)
    <3>1. cache' = cache /\ ask[a].at = "open"
      BY <2>8 DEF AskOpen
    <3>2. CASE AskEnds(a) /\ UNCHANGED temp
      <4>1. \A t \in Versioned : temp[t].writer # "none" =>
              ask'[temp[t].writer] = ask[temp[t].writer]
        BY <1>1, <2>3, <2>6, <3>1, <3>2 DEF SearchOK
      <4>. QED
        BY <1>1, <2>3, <3>1, <3>2, <4>1 DEF SearchOK
    <3>3. CASE AskGoes(a, "write") /\
               temp' = [temp EXCEPT ![ask[a].type] = [file |-> "empty", writer |-> a]]
      <4>1. temp' \in [Versioned -> [file : {"none", "empty", "whole"}, writer : Askers \cup {"none"}]]
        BY <1>1, <3>3 DEF SearchOK
      <4>2. \A t \in Versioned : t # ask[a].type /\ temp'[t].writer # "none" =>
              temp'[t] = temp[t] /\ ask'[temp'[t].writer] = ask[temp[t].writer]
        BY <1>1, <2>4, <2>6, <3>1, <3>3 DEF SearchOK
      <4>3. temp'[ask[a].type].writer = a /\ ask'[a].at = "write" /\ ask'[a].type = ask[a].type
        BY <1>1, <2>4, <2>5, <3>3 DEF SearchOK
      <4>. QED
        BY <1>1, <2>4, <3>1, <3>3, <4>1, <4>2, <4>3 DEF SearchOK
    <3>. QED
      BY <2>8, <3>2, <3>3 DEF AskOpen
  <2>9. CASE AskWrite(a)
    <3>1. cache' = cache /\ AskGoes(a, "read")
          /\ \/ temp' = [temp EXCEPT ![ask[a].type] = [file |-> "whole", writer |-> "none"]]
             \/ temp' = [temp EXCEPT ![ask[a].type].writer = "none"]
      BY <2>9 DEF AskWrite
    <3>2. temp' \in [Versioned -> [file : {"none", "empty", "whole"}, writer : Askers \cup {"none"}]]
      BY <1>1, <3>1 DEF SearchOK
    <3>3. \A t \in Versioned : temp'[t].writer # "none" =>
            temp'[t].writer = temp[t].writer /\ temp[t].writer # a
      BY <1>1, <2>5, <2>7, <3>1 DEF SearchOK
    <3>4. \A t \in Versioned : temp'[t].writer # "none" =>
            ask'[temp'[t].writer] = ask[temp[t].writer]
      BY <1>1, <2>4, <3>1, <3>3 DEF SearchOK
    <3>. QED
      BY <1>1, <2>4, <3>1, <3>2, <3>3, <3>4 DEF SearchOK
  <2>10. CASE AskRead(a)
    <3>1. temp' = temp /\ AskGoes(a, "delete") /\ ask[a].at = "read"
          /\ \/ cache' = cache
             \/ cache' = [cache EXCEPT ![ask[a].by] = @ \cup {ask[a].type}]
      BY <2>10 DEF AskRead
    <3>2. cache' \in [Procs -> SUBSET Versioned]
      BY <1>1, <2>5, <3>1 DEF SearchOK
    <3>3. \A t \in Versioned : temp[t].writer # "none" =>
            ask'[temp[t].writer] = ask[temp[t].writer]
      BY <1>1, <2>4, <2>6, <3>1 DEF SearchOK
    <3>. QED
      BY <1>1, <2>4, <3>1, <3>2, <3>3 DEF SearchOK
  <2>11. CASE AskDelete(a)
    <3>1. /\ cache' = cache /\ AskEnds(a) /\ ask[a].at = "delete"
          /\ temp' = [temp EXCEPT ![ask[a].type].file =
                       IF temp[ask[a].type].writer = "none" THEN "none" ELSE @]
      BY <2>11 DEF AskDelete
    <3>2. /\ temp' \in [Versioned -> [file : {"none", "empty", "whole"},
                                      writer : Askers \cup {"none"}]]
          /\ \A t \in Versioned : temp'[t].writer = temp[t].writer
      <4>1. \/ temp' = [temp EXCEPT ![ask[a].type].file = "none"]
            \/ temp' = [temp EXCEPT ![ask[a].type].file = temp[ask[a].type].file]
        BY <1>1, <2>5, <3>1 DEF SearchOK
      <4>. QED
        BY <1>1, <2>5, <4>1 DEF SearchOK
    <3>3. \A t \in Versioned : temp[t].writer # "none" =>
            ask'[temp[t].writer] = ask[temp[t].writer]
      BY <1>1, <2>3, <2>6, <3>1 DEF SearchOK
    <3>4. \A t \in Versioned : temp'[t].writer # "none" =>
            ask'[temp'[t].writer].at = "write" /\ ask'[temp'[t].writer].type = t
      BY <1>1, <3>2, <3>3 DEF SearchOK
    <3>. QED
      BY <1>1, <2>3, <3>1, <3>2, <3>4 DEF SearchOK
  <2>. QED
    BY <1>7, <2>8, <2>9, <2>10, <2>11 DEF Ask
<1>8. ASSUME NEW p \in Procs, Exit(p)
      PROVE  SearchOK'
  <2>1. /\ cache' = [cache EXCEPT ![p] = {}]
        /\ ask' = [a \in Askers |-> IF ByProc(a, p) THEN NoAsk ELSE ask[a]]
        /\ temp' = [t \in Versioned |->
             IF temp[t].writer # "none" /\ ByProc(temp[t].writer, p)
               THEN [temp[t] EXCEPT !.writer = "none"] ELSE temp[t]]
    BY <1>8 DEF Exit
  <2>2. ask' \in [Askers -> {NoAsk} \cup Asks] /\ cache' \in [Procs -> SUBSET Versioned]
    BY <1>1, <2>1 DEF SearchOK
  <2>3. temp' \in [Versioned -> [file : {"none", "empty", "whole"}, writer : Askers \cup {"none"}]]
    BY <1>1, <2>1 DEF SearchOK
  <2>4. \A t \in Versioned : temp'[t].writer # "none" =>
          temp'[t] = temp[t] /\ ~ByProc(temp[t].writer, p)
    BY <1>1, <2>1 DEF SearchOK
  <2>5. \A t \in Versioned : temp'[t].writer # "none" =>
          ask'[temp'[t].writer] = ask[temp[t].writer]
    BY <1>1, <2>1, <2>4 DEF SearchOK
  <2>. QED
    BY <1>1, <2>2, <2>3, <2>4, <2>5 DEF SearchOK
<1>9. CASE Proceed
  BY <1>2, <1>5, <1>9, ProceedFrame
<1>10. ASSUME \/ \E p \in Procs, o \in Options : Begin(p, o)
              \/ \E p \in Procs : InstallCertificate(p)
              \/ UNCHANGED vars
       PROVE  UNCHANGED version
  BY <1>10 DEF Begin, InstallCertificate, vars, version
<1>. QED
  BY <1>2, <1>6, <1>7, <1>8, <1>9, <1>10 DEF Next

\* What is on the disk.
DiskOK ==
  /\ disk \in [Names -> [inf : {NoFile} \cup Infs, cat : {NoFile} \cup Cats]]
  /\ opened \subseteq Procs \X Names

\* What a call puts there.
LEMMA Made ==
  ASSUME PrepTypeInv, run.at # "none"
  PROVE  /\ \A b \in BOOLEAN : /\ Inf(b) \in Infs /\ Inf(b).n = n /\ Inf(b).whole = b
                               /\ [n |-> n, covers |-> b, signer |-> NoFile] \in Cats
         /\ disk[run.o.name].cat.n = n =>
              [disk[run.o.name].cat EXCEPT !.signer = Own] \in Cats
<1>1. /\ run \in Runs /\ n \in 1..Calls /\ n # 0 /\ run.o.name \in Names /\ run.o.type \in TypeSet
      /\ Own \in Certs /\ run.type \in TypeSet /\ run.disturbed \in BOOLEAN
  BY CallTyped DEF Runs
<1>2. VersionOf(run.by, run.type) \in TypeSet \cup {"none"}
  BY <1>1 DEF VersionOf
<1>3. ASSUME NEW b \in BOOLEAN
      PROVE  Inf(b) \in Infs /\ Inf(b).n = n /\ Inf(b).whole = b
  BY <1>1, <1>2 DEF Inf, Infs
<1>4. \A b \in BOOLEAN : [n |-> n, covers |-> b, signer |-> NoFile] \in Cats
  BY <1>1 DEF Cats
<1>5. ASSUME disk[run.o.name].cat.n = n
      PROVE  [disk[run.o.name].cat EXCEPT !.signer = Own] \in Cats
  <2>1. disk[run.o.name].cat \in {NoFile} \cup Cats
    BY <1>1 DEF PrepTypeInv, TypeOK
  <2>2. disk[run.o.name].cat \in Cats
    BY <1>1, <1>5, <2>1 DEF NoFile
  <2>. QED
    BY <1>1, <2>2 DEF Cats
<1>. QED
  BY <1>3, <1>4, <1>5

\* Only the files of its name are touched by a call: the inf at one step, the catalog at two.
LEMMA DiskSteps ==
  ASSUME PrepTypeInv, [Next]_vars
  PROVE  \/ UNCHANGED disk
         \/ At("inf") /\ \E b \in BOOLEAN : disk' = [disk EXCEPT ![run.o.name].inf = Inf(b)]
         \/ At("cat") /\ \E b \in BOOLEAN :
              disk' = [disk EXCEPT ![run.o.name].cat = [n |-> n, covers |-> b, signer |-> NoFile]]
         \/ At("sign") /\ disk' = [disk EXCEPT ![run.o.name].cat.signer = Own]
<1>1. CASE Proceed
  <2>1. CASE WriteInf
    BY <2>1 DEF WriteInf, PutInf, files
  <2>2. CASE CreateCat
    BY <2>2 DEF CreateCat, CatMade, HashMissed, ListMissing, CatFails, PutCat
  <2>3. CASE SignFile
    BY <2>3 DEF SignFile
  <2>. QED
    BY <1>1, <2>1, <2>2, <2>3, ProceedFrame
<1>2. CASE \E a \in Askers : Ask(a)
  BY <1>2 DEF Ask, AskOpen, AskWrite, AskRead, AskDelete, files
<1>3. CASE \/ \E p \in Procs, o \in Options : Begin(p, o)
           \/ \E p \in Procs, t \in Versioned : Query(p, t)
           \/ \E p \in Procs : InstallCertificate(p) \/ Exit(p)
           \/ UNCHANGED vars
  BY <1>3 DEF Begin, Query, InstallCertificate, Exit, vars, files
<1>. QED
  BY <1>1, <1>2, <1>3 DEF Next

\* The files keep their form.
LEMMA DiskTyped == PrepTypeInv /\ [Next]_vars => DiskOK'
<1>. SUFFICES ASSUME PrepTypeInv, [Next]_vars PROVE DiskOK'
  OBVIOUS
<1>1. DiskOK
  BY DEF PrepTypeInv, TypeOK, DiskOK
<1>2. disk' \in [Names -> [inf : {NoFile} \cup Infs, cat : {NoFile} \cup Cats]]
  <2>1. CASE UNCHANGED disk
    BY <1>1, <2>1 DEF DiskOK
  <2>2. ASSUME At("inf"), NEW b \in BOOLEAN, disk' = [disk EXCEPT ![run.o.name].inf = Inf(b)]
        PROVE  disk' \in [Names -> [inf : {NoFile} \cup Infs, cat : {NoFile} \cup Cats]]
    <3>1. Inf(b) \in Infs
      BY <2>2, Made DEF At
    <3>. QED
      BY <1>1, <2>2, <3>1 DEF DiskOK
  <2>3. ASSUME At("cat"), NEW b \in BOOLEAN,
               disk' = [disk EXCEPT ![run.o.name].cat = [n |-> n, covers |-> b, signer |-> NoFile]]
        PROVE  disk' \in [Names -> [inf : {NoFile} \cup Infs, cat : {NoFile} \cup Cats]]
    <3>1. [n |-> n, covers |-> b, signer |-> NoFile] \in Cats
      BY <2>3, Made DEF At
    <3>. QED
      BY <1>1, <2>3, <3>1 DEF DiskOK
  <2>4. ASSUME At("sign"), disk' = [disk EXCEPT ![run.o.name].cat.signer = Own]
        PROVE  disk' \in [Names -> [inf : {NoFile} \cup Infs, cat : {NoFile} \cup Cats]]
    <3>1. disk[run.o.name].cat.n = n
      BY <2>4 DEF PrepTypeInv, Located, Signing, Exposed, At
    <3>2. [disk[run.o.name].cat EXCEPT !.signer = Own] \in Cats
      BY <2>4, <3>1, Made DEF At
    <3>. QED
      BY <1>1, <2>4, <3>2 DEF DiskOK
  <2>. QED
    BY <2>1, <2>2, <2>3, <2>4, DiskSteps
<1>3. opened' \subseteq Procs \X Names
  <2>1. CASE WriteInf
    <3>1. run.by \in Procs /\ run.o.name \in Names
      BY <2>1, CallTyped DEF WriteInf, At, Runs
    <3>2. opened' = opened \/ opened' = opened \cup {<<run.by, run.o.name>>}
      BY <2>1 DEF WriteInf, files
    <3>. QED
      BY <1>1, <3>1, <3>2 DEF DiskOK
  <2>2. CASE Proceed
    BY <1>1, <2>1, <2>2, ProceedFrame DEF DiskOK
  <2>3. CASE \E a \in Askers : Ask(a)
    BY <1>1, <2>3 DEF DiskOK, Ask, AskOpen, AskWrite, AskRead, AskDelete, files
  <2>4. CASE \/ \E p \in Procs, o \in Options : Begin(p, o)
             \/ \E p \in Procs, t \in Versioned : Query(p, t)
             \/ \E p \in Procs : InstallCertificate(p) \/ Exit(p)
             \/ UNCHANGED vars
    BY <1>1, <2>4 DEF DiskOK, Begin, Query, InstallCertificate, Exit, vars, files
  <2>. QED
    BY <2>2, <2>3, <2>4 DEF Next
<1>. QED
  BY <1>2, <1>3 DEF DiskOK

\* What becomes of the stores and of the key.
LEMMA TrustSteps ==
  ASSUME PrepTypeInv, [Next]_vars
  PROVE  /\ \/ UNCHANGED stores
            \/ stores' = [stores EXCEPT !["TrustedPublisher"] = @ \cup {Vendor}]
            \/ /\ run.at \in {"remove root", "remove publisher"} /\ UNCHANGED key
               /\ run' = NoCall \/ run'.at \in {"remove publisher", "generate"}
               /\ \E s \in StoreNames : \E some \in SUBSET OfSubject(s) :
                    stores' = [stores EXCEPT ![s] = @ \ some]
               /\ hist' = [hist EXCEPT !.latest[Subject] = n]
            \/ /\ run.at \in {"add root", "add publisher", "again"} /\ UNCHANGED key
               /\ \/ \E s \in StoreNames : Add(s)
                  \/ stores' = [s \in StoreNames |-> stores[s] \cup {Own}]
         /\ \/ UNCHANGED key
            \/ At("generate") /\ key' = n
            \/ At("delete key") /\ key' = 0
<1>. DEFINE Stores ==
              \/ UNCHANGED stores
              \/ stores' = [stores EXCEPT !["TrustedPublisher"] = @ \cup {Vendor}]
              \/ /\ run.at \in {"remove root", "remove publisher"} /\ UNCHANGED key
                 /\ run' = NoCall \/ run'.at \in {"remove publisher", "generate"}
                 /\ \E s \in StoreNames : \E some \in SUBSET OfSubject(s) :
                      stores' = [stores EXCEPT ![s] = @ \ some]
                 /\ hist' = [hist EXCEPT !.latest[Subject] = n]
              \/ /\ run.at \in {"add root", "add publisher", "again"} /\ UNCHANGED key
                 /\ \/ \E s \in StoreNames : Add(s)
                    \/ stores' = [s \in StoreNames |-> stores[s] \cup {Own}]
            Key ==
              \/ UNCHANGED key
              \/ At("generate") /\ key' = n
              \/ At("delete key") /\ key' = 0
<1>1. CASE Proceed
  <2>1. Key
    <3>1. CASE GenerateKey \/ DeleteKey
      BY <3>1 DEF GenerateKey, DeleteKey
    <3>. QED
      BY <1>1, <3>1, ProceedFrame
  <2>2. Stores
    <3>1. "Root" \in StoreNames /\ "TrustedPublisher" \in StoreNames
      BY DEF StoreNames
    <3>2. ASSUME NEW step, NEW s \in StoreNames, NEW next, RemoveCert(step, s, next),
                 step \in {"remove root", "remove publisher"},
                 next \in {"remove publisher", "generate"}
          PROVE  Stores
      <4>1. run \in Runs
        BY <3>2, CallTyped DEF RemoveCert, At
      <4>2. run.at = step /\ run'.at = next
        BY <3>2, <4>1 DEF RemoveCert, At, Go, Runs
      <4>3. \E some \in SUBSET OfSubject(s) : stores' = [stores EXCEPT ![s] = @ \ some]
        BY <3>2 DEF RemoveCert
      <4>4. UNCHANGED key /\ hist' = [hist EXCEPT !.latest[Subject] = n]
        BY <3>2 DEF RemoveCert
      <4>. QED
        BY <3>2, <4>2, <4>3, <4>4
    <3>3. CASE RemoveOld
      BY <3>1, <3>2, <3>3 DEF RemoveOld
    <3>4. CASE AddOwn
      BY <3>1, <3>4 DEF AddOwn, AddCert, At
    <3>5. CASE AddAgain
      BY <3>5 DEF AddAgain, At
    <3>. QED
      BY <1>1, <3>3, <3>4, <3>5, ProceedFrame
  <2>. QED
    BY <2>1, <2>2
<1>2. CASE \E a \in Askers : Ask(a)
  BY <1>2 DEF Ask, AskOpen, AskWrite, AskRead, AskDelete, trust
<1>3. CASE \/ \E p \in Procs, o \in Options : Begin(p, o)
           \/ \E p \in Procs, t \in Versioned : Query(p, t)
           \/ \E p \in Procs : Exit(p)
           \/ UNCHANGED vars
  BY <1>3 DEF Begin, Query, Exit, vars, trust
<1>4. CASE \E p \in Procs : InstallCertificate(p)
  BY <1>4 DEF InstallCertificate, TrustVendor
<1>. QED
  BY <1>1, <1>2, <1>3, <1>4 DEF Next

\* The stores hold certificates, and the container the key of a call or none.
LEMMA TrustTyped ==
  ASSUME PrepTypeInv, [Next]_vars
  PROVE  stores' \in [StoreNames -> SUBSET (Certs \cup {Vendor})] /\ key' \in 0..Calls
<1>1. /\ stores \in [StoreNames -> SUBSET (Certs \cup {Vendor})] /\ key \in 0..Calls
      /\ "TrustedPublisher" \in StoreNames /\ 0 \in 0..Calls /\ n \in 0..Calls
  BY PrepareAssumption DEF PrepTypeInv, TypeOK, StoreNames
<1>2. run.at # "none" => Own \in Certs
  BY CallTyped
<1>3. key' \in 0..Calls
  BY <1>1, TrustSteps
<1>4. stores' \in [StoreNames -> SUBSET (Certs \cup {Vendor})]
  <2>1. CASE run.at \in {"add root", "add publisher", "again"} /\
               \E s \in StoreNames : Add(s)
    BY <1>1, <1>2, <2>1 DEF Add
  <2>2. CASE run.at \in {"add root", "add publisher", "again"} /\
               stores' = [s \in StoreNames |-> stores[s] \cup {Own}]
    BY <1>1, <1>2, <2>2
  <2>3. CASE \E s \in StoreNames : \E some \in SUBSET OfSubject(s) :
                stores' = [stores EXCEPT ![s] = @ \ some]
    BY <1>1, <2>3
  <2>4. CASE UNCHANGED stores
    BY <1>1, <2>4
  <2>5. CASE stores' = [stores EXCEPT !["TrustedPublisher"] = @ \cup {Vendor}]
    BY <1>1, <2>5
  <2>. QED
    BY <2>1, <2>2, <2>3, <2>4, <2>5, TrustSteps
<1>. QED
  BY <1>3, <1>4

\* What the properties remember: a promise is remembered where a call ends in success.
LEMMA HistSteps ==
  ASSUME PrepTypeInv, [Next]_vars
  PROVE  \/ UNCHANGED hist
         \/ /\ run.at # "none" /\ run' = NoCall /\ UNCHANGED strict
            /\ \E h \in {hist, [hist EXCEPT !.spared = @ \cup {n}]} :
                 hist' \in {h, [h EXCEPT !.kept = @ \cup {n}]}
         \/ run.at \in {"extract", "inf", "cat"} /\ hist' = [hist EXCEPT !.silent = @ \cup {n}]
         \/ run.at \in Exposed /\ hist' = [hist EXCEPT !.spared = @ \cup {n}]
         \/ /\ run.at \in {"remove root", "remove publisher"}
            /\ hist' = [hist EXCEPT !.latest[Subject] = n]
<1>. DEFINE spares == [hist EXCEPT !.spared = @ \cup {n}]
            Ends == /\ run.at # "none" /\ run' = NoCall /\ UNCHANGED strict
                    /\ \E h \in {hist, spares} : hist' \in {h, [h EXCEPT !.kept = @ \cup {n}]}
            Silent == run.at \in {"extract", "inf", "cat"} /\
                        hist' = [hist EXCEPT !.silent = @ \cup {n}]
            Goal == \/ UNCHANGED hist \/ Ends \/ Silent
                    \/ run.at \in Exposed /\ hist' = spares
                    \/ /\ run.at \in {"remove root", "remove publisher"}
                       /\ hist' = [hist EXCEPT !.latest[Subject] = n]
<1>1. \A h : \/ SucceedWith(h) \/ FailWith(h) \/ (\E b : SignReturns(b, h)) =>
               run' = NoCall /\ hist' \in {h, [h EXCEPT !.kept = @ \cup {n}]}
  BY DEF SucceedWith, FailWith, SignReturns, Return
<1>2. CASE Refuse \/ Check \/ Choose
  BY <1>2 DEF Refuse, Check, Choose
<1>3. CASE Extract
  <2>1. run.at = "extract" /\ UNCHANGED strict
    BY <1>3 DEF Extract, At
  <2>2. UNCHANGED hist \/ Succeed \/ Silently
    BY <1>3 DEF Extract
  <2>. QED
    BY <1>1, <2>1, <2>2 DEF Succeed, Silently
<1>4. CASE WriteInf
  BY <1>4 DEF WriteInf, Silently, At
<1>5. CASE NoCat
  BY <1>1, <1>5 DEF NoCat, Succeed, At
<1>6. CASE CreateCat
  <2>1. run.at = "cat" /\ UNCHANGED strict
    BY <1>6 DEF CreateCat, At
  <2>2. CASE CatMade
    BY <1>1, <2>1, <2>2 DEF CatMade, Sign, Succeed
  <2>3. CASE HashMissed
    BY <1>1, <2>1, <2>3 DEF HashMissed, Silently, Succeed
  <2>4. CASE ListMissing \/ CatFails
    BY <1>1, <2>1, <2>4 DEF ListMissing, CatFails
  <2>. QED
    BY <1>6, <2>2, <2>3, <2>4 DEF CreateCat
<1>7. CASE RemoveOld
  BY <1>7 DEF RemoveOld, RemoveCert, At
<1>8. CASE GenerateKey \/ MakeCertificate \/ AddAgain
  BY <1>1, <1>8 DEF GenerateKey, MakeCertificate, AddAgain, At
<1>9. CASE AddOwn \/ SignFile
  BY <1>9 DEF AddOwn, AddCert, SignFile
<1>10. CASE DeleteKey
  <2>1. run.at = "delete key" /\ "delete key" \in Exposed /\ UNCHANGED strict
    BY <1>10 DEF DeleteKey, At, Exposed
  <2>2. UNCHANGED hist \/ hist' = spares \/ SignReturns(run.signed, spares)
    BY <1>10 DEF DeleteKey
  <2>. QED
    BY <1>1, <2>1, <2>2
<1>11. CASE \E a \in Askers : Ask(a)
  BY <1>11 DEF Ask, AskOpen, AskWrite, AskRead, AskDelete
<1>12. CASE \E p \in Procs : Exit(p)
  BY <1>12 DEF Exit
<1>13. CASE \/ \E p \in Procs, o \in Options : Begin(p, o)
            \/ \E p \in Procs, t \in Versioned : Query(p, t)
            \/ \E p \in Procs : InstallCertificate(p)
            \/ UNCHANGED vars
  BY <1>13 DEF Begin, Query, InstallCertificate, vars
<1>. QED
  BY <1>2, <1>3, <1>4, <1>5, <1>6, <1>7, <1>8, <1>9, <1>10, <1>11, <1>12, <1>13
     DEF Next, Proceed, Signs

\* What is remembered keeps its types.
LEMMA HistTyped == PrepTypeInv /\ [Next]_vars => hist' \in Hists
<1>. SUFFICES ASSUME PrepTypeInv, [Next]_vars PROVE hist' \in Hists
  OBVIOUS
<1>1. hist \in Hists
  BY DEF PrepTypeInv, TypeOK, Hists
<1>2. ASSUME n \in 1..Calls, NEW h \in Hists
      PROVE  /\ [h EXCEPT !.kept = @ \cup {n}] \in Hists
             /\ [h EXCEPT !.silent = @ \cup {n}] \in Hists
             /\ [h EXCEPT !.spared = @ \cup {n}] \in Hists
  BY <1>2 DEF Hists
<1>3. run.at # "none" => n \in 1..Calls /\ Subject \in Subjects
  BY CallTyped
<1>4. n \in 1..Calls => [hist EXCEPT !.latest[Subject] = n] \in Hists
  BY <1>1 DEF Hists
<1>5. "none" \notin Exposed
  BY DEF Exposed
<1>6. CASE UNCHANGED hist
  BY <1>1, <1>6
<1>7. CASE run.at # "none" /\ \E h \in {hist, [hist EXCEPT !.spared = @ \cup {n}]} :
             hist' \in {h, [h EXCEPT !.kept = @ \cup {n}]}
  <2>1. PICK h \in {hist, [hist EXCEPT !.spared = @ \cup {n}]} :
          hist' \in {h, [h EXCEPT !.kept = @ \cup {n}]}
    BY <1>7
  <2>2. h \in Hists
    BY <1>1, <1>2, <1>3, <1>7
  <2>. QED
    BY <1>2, <1>3, <1>7, <2>1, <2>2
<1>8. CASE run.at # "none" /\ ~UNCHANGED hist
  BY <1>1, <1>2, <1>3, <1>4, <1>7, <1>8, HistSteps
<1>9. CASE run.at = "none"
  BY <1>5, <1>6, <1>9, HistSteps
<1>. QED
  BY <1>6, <1>8, <1>9

\* The steps of a call, in pairs.
Moves == {<<"check", "version">>, <<"check", "type">>, <<"version", "extract">>,
          <<"type", "extract">>, <<"extract", "inf">>, <<"inf", "cat">>, <<"cat", "remove root">>,
          <<"remove root", "remove publisher">>, <<"remove publisher", "generate">>,
          <<"generate", "certificate">>, <<"certificate", "add root">>,
          <<"add root", "add publisher">>, <<"add root", "delete key">>,
          <<"add publisher", "sign">>, <<"add publisher", "delete key">>,
          <<"sign", "delete key">>, <<"delete key", "again">>}

\* A call goes on, as the same call.
LEMMA CallSteps ==
  ASSUME PrepTypeInv, Proceed, run' # NoCall
  PROVE  /\ run # NoCall /\ run'.by = run.by /\ run'.o = run.o
         /\ <<run.at, run'.at>> \in Moves
         /\ run.at \in {"version", "type"} \/ run'.type = run.type
         /\ run.at = "check" \/ run'.disturbed = run.disturbed
         /\ run.at = "sign" \/ run'.signed = run.signed
<1>1. run \in Runs /\ run # NoCall
  BY ProceedRun, CallTyped
<1>2. \A step : Go(step) => /\ run'.at = step /\ run'.by = run.by /\ run'.o = run.o
                            /\ run'.type = run.type /\ run'.disturbed = run.disturbed
                            /\ run'.signed = run.signed
  BY <1>1 DEF Go, Runs
<1>3. /\ ~Return /\ ~Succeed
      /\ \A h : ~SucceedWith(h) /\ ~FailWith(h) /\ \A b : ~SignReturns(b, h)
  BY DEF Return, Succeed, SucceedWith, FailWith, SignReturns
<1>4. CASE Check
  BY <1>1, <1>2, <1>4 DEF Check, At, Runs, Moves
<1>5. CASE Choose
  BY <1>1, <1>2, <1>3, <1>5 DEF Choose, At, Runs, Moves
<1>6. CASE Refuse \/ Extract \/ WriteInf \/ NoCat
  BY <1>1, <1>2, <1>3, <1>6 DEF Refuse, Extract, WriteInf, NoCat, At, Moves
<1>7. CASE CreateCat
  BY <1>1, <1>2, <1>3, <1>7 DEF CreateCat, CatMade, Sign, HashMissed, ListMissing, CatFails, At,
     Moves
<1>8. CASE RemoveOld
  BY <1>1, <1>2, <1>8 DEF RemoveOld, RemoveCert, At, Moves
<1>9. CASE GenerateKey \/ MakeCertificate
  BY <1>1, <1>2, <1>3, <1>9 DEF GenerateKey, MakeCertificate, At, Moves
<1>10. CASE AddOwn
  BY <1>1, <1>2, <1>10 DEF AddOwn, AddCert, At, Moves
<1>11. CASE SignFile
  BY <1>1, <1>2, <1>11 DEF SignFile, At, Runs, Moves
<1>12. CASE DeleteKey \/ AddAgain
  BY <1>1, <1>2, <1>3, <1>12 DEF DeleteKey, AddAgain, At, Moves
<1>. QED
  BY <1>4, <1>5, <1>6, <1>7, <1>8, <1>9, <1>10, <1>11, <1>12 DEF Proceed, Signs

\* What happens beside the steps of a call: another one begins, it is disturbed, or killed.
LEMMA Besides ==
  ASSUME PrepTypeInv, [Next]_vars, ~Proceed
  PROVE  \/ \E p \in Procs, o \in Options : Begin(p, o)
         \/ /\ UNCHANGED <<strict, n, disk, key>>
            /\ \/ stores' = stores
               \/ stores' = [stores EXCEPT !["TrustedPublisher"] = @ \cup {Vendor}]
            /\ \/ run' = run /\ hist' = hist
               \/ run # NoCall /\ run' = [run EXCEPT !.disturbed = TRUE] /\ hist' = hist
               \/ /\ run # NoCall /\ run' = NoCall
                  /\ hist' = IF run.at \in Exposed
                               THEN [hist EXCEPT !.spared = @ \cup {n}] ELSE hist
<1>1. ASSUME NEW a \in Askers, Ask(a)
      PROVE  /\ UNCHANGED <<strict, n, disk, key, stores, hist>>
             /\ run' = run \/ (run # NoCall /\ run' = [run EXCEPT !.disturbed = TRUE])
  <2>1. a = "call" => run # NoCall
    BY <1>1 DEF Ask, AskOpen, AskWrite, AskRead, AskDelete, PrepTypeInv, Located, At, NoCall
  <2>. QED
    BY <1>1, <2>1 DEF Ask, AskOpen, AskWrite, AskRead, AskDelete, Disturbs, files, trust
<1>2. ASSUME NEW p \in Procs, NEW t \in Versioned, Query(p, t)
      PROVE  /\ UNCHANGED <<strict, n, disk, key, stores, hist>>
             /\ run' = run \/ (run # NoCall /\ run' = [run EXCEPT !.disturbed = TRUE])
  BY <1>2 DEF Query, At, NoCall, files, trust
<1>3. CASE \E p \in Procs : InstallCertificate(p)
  BY <1>3 DEF InstallCertificate, TrustVendor, files
<1>4. ASSUME NEW p \in Procs, Exit(p)
      PROVE  /\ UNCHANGED <<strict, n, disk, key, stores>>
             /\ \/ run' = run /\ hist' = hist
                \/ /\ run # NoCall /\ run' = NoCall
                   /\ hist' = IF run.at \in Exposed
                                THEN [hist EXCEPT !.spared = @ \cup {n}] ELSE hist
  BY <1>4 DEF Exit, trust
<1>5. CASE UNCHANGED vars
  BY <1>5 DEF vars, files, trust
<1>. QED
  BY <1>1, <1>2, <1>3, <1>4, <1>5 DEF Next

\* The steps of a call in their order: where it is, where it goes and what it has written.
LEMMA LocatedStep == PrepTypeInv /\ [Next]_vars => Located'
<1>. SUFFICES ASSUME PrepTypeInv, [Next]_vars PROVE Located'
  OBVIOUS
<1>. DEFINE Written == /\ run.at \in {"cat"} \cup Signing => disk[run.o.name].inf.n = n
                       /\ run.at \in Signing => disk[run.o.name].cat.n = n
            Number == run # NoCall => n > 0
            Asking == ask["call"].at # "none" => At("version") /\ run.by = ask["call"].by
<1>1. Number /\ Asking /\ Written
  BY DEF PrepTypeInv, Located
<1>2. Number'
  <2>1. n \in Nat /\ n' \in 0..Calls
    BY PrepareAssumption, RunTyped DEF PrepTypeInv, TypeOK
  <2>2. ASSUME NEW p \in Procs, NEW o \in Options, Begin(p, o) PROVE n' > 0
    BY <2>1, <2>2 DEF Begin
  <2>3. CASE Proceed
    BY <1>1, <2>1, <2>3, ProceedRun, CallTyped
  <2>4. ASSUME NEW a \in Askers, Ask(a) PROVE n' = n /\ (run = NoCall => run' = NoCall)
    <3>1. a = "call" => run # NoCall
      BY <1>1, <2>4 DEF Ask, AskOpen, AskWrite, AskRead, AskDelete, At, NoCall
    <3>. QED
      BY <2>4, <3>1 DEF Ask, AskOpen, AskWrite, AskRead, AskDelete, Disturbs
  <2>5. CASE \/ \E p \in Procs, t \in Versioned : Query(p, t)
             \/ \E p \in Procs : InstallCertificate(p) \/ Exit(p)
             \/ UNCHANGED vars
    BY <1>1, <2>5 DEF Query, At, NoCall, InstallCertificate, Exit, vars
  <2>. QED
    BY <1>1, <2>2, <2>3, <2>4, <2>5 DEF Next
<1>3. Asking'
  <2>1. "call" \in Askers /\ "other" \in Askers /\ ask \in [Askers -> {NoAsk} \cup Asks]
    BY DEF Askers, PrepTypeInv, TypeOK, Asks
  <2>2. CASE Check
    <3>1. CASE run.type \in Versioned
      <4>1. run \in Runs /\ ask' = [ask EXCEPT !["call"] =
                                     [at |-> "open", by |-> run.by, type |-> run.type]]
            /\ run' = [run EXCEPT !.at = "version", !.disturbed = Overlap(run.type)]
        BY <2>2, <3>1, CallTyped DEF Check, At
      <4>. QED
        BY <2>1, <4>1 DEF Runs, At
    <3>2. CASE run.type \notin Versioned
      BY <1>1, <2>2, <3>2 DEF Check, At
    <3>. QED
      BY <3>1, <3>2
  <2>3. CASE Proceed /\ ~Check
    <3>1. ask["call"].at = "none"
      <4>1. At("version") => Choose /\ ask["call"].at = "none"
        BY <2>3 DEF Proceed, Refuse, Check, Choose, Extract, WriteInf, NoCat, CreateCat,
           Signs, RemoveOld, RemoveCert, GenerateKey, MakeCertificate, AddOwn, AddCert,
           SignFile, DeleteKey, AddAgain, At
      <4>. QED
        BY <1>1, <4>1
    <3>2. ask' = ask
      BY <2>3, ProceedFrame DEF version
    <3>. QED
      BY <3>1, <3>2
  <2>4. ASSUME NEW p \in Procs, NEW t \in Versioned, Query(p, t) PROVE Asking'
    <3>1. ask'["call"] = ask["call"]
      BY <2>1, <2>4 DEF Query
    <3>2. At("version") => run \in Runs
      BY CallTyped DEF At
    <3>3. At("version") => run'.at = "version" /\ run'.by = run.by
      BY <2>4, <3>2 DEF Query, At, Runs
    <3>. QED
      BY <1>1, <3>1, <3>3 DEF At
  <2>5. ASSUME NEW a \in Askers, Ask(a) PROVE Asking'
    <3>1. ask'["call"].at # "none" => ask["call"].at # "none" /\ ask'["call"].by = ask["call"].by
      <4>1. ask[a].at # "none" /\ ask[a] \in Asks
        BY <2>1, <2>5 DEF Ask, AskOpen, AskWrite, AskRead, AskDelete, NoAsk
      <4>2. AskEnds(a) \/ \E step \in {"write", "read", "delete"} : AskGoes(a, step)
        BY <2>5 DEF Ask, AskOpen, AskWrite, AskRead, AskDelete
      <4>3. CASE a = "call"
        BY <2>1, <4>1, <4>2, <4>3 DEF AskEnds, AskGoes, NoAsk, Asks
      <4>4. CASE a # "call"
        BY <2>1, <4>2, <4>4 DEF AskEnds, AskGoes
      <4>. QED
        BY <4>3, <4>4
    <3>2. At("version") => run \in Runs
      BY CallTyped DEF At
    <3>3. At("version") => run'.at = "version" /\ run'.by = run.by
      BY <2>5, <3>2 DEF Ask, AskOpen, AskWrite, AskRead, AskDelete, Disturbs, At, Runs
    <3>. QED
      BY <1>1, <3>1, <3>3 DEF At
  <2>6. ASSUME NEW p \in Procs, Exit(p) PROVE Asking'
    <3>1. /\ ask'["call"] = IF ByProc("call", p) THEN NoAsk ELSE ask["call"]
          /\ run' = IF run # NoCall /\ run.by = p THEN NoCall ELSE run
      BY <2>1, <2>6 DEF Exit
    <3>2. NoAsk.at = "none"
      BY DEF NoAsk
    <3>. QED
      BY <1>1, <3>1, <3>2 DEF ByProc, At
  <2>7. CASE \E p \in Procs, o \in Options : Begin(p, o)
    BY <1>1, <2>7 DEF Begin, At, version
  <2>8. CASE \E p \in Procs : InstallCertificate(p)
    BY <1>1, <2>8 DEF InstallCertificate, version, At
  <2>9. CASE UNCHANGED vars
    BY <1>1, <2>9 DEF version, vars, At
  <2>. HIDE DEF Asking
  <2>. QED
    BY <2>2, <2>3, <2>4, <2>5, <2>6, <2>7, <2>8, <2>9 DEF Next
<1>4. Written'
  <2>1. CASE Proceed /\ run' # NoCall
    <3>1. /\ run # NoCall /\ n' = n /\ run'.o = run.o /\ <<run.at, run'.at>> \in Moves
          /\ run.at # "none" /\ run.o.name \in Names
      BY <2>1, CallSteps, CallTyped, ProceedRun
    <3>2. disk \in [Names -> [inf : {NoFile} \cup Infs, cat : {NoFile} \cup Cats]]
      BY DEF PrepTypeInv, TypeOK
    <3>3. CASE WriteInf
      <4>1. PICK b \in BOOLEAN : disk' = [disk EXCEPT ![run.o.name].inf = Inf(b)]
        BY <2>1, <3>3 DEF WriteInf, PutInf, Return
      <4>2. disk'[run.o.name].inf.n = n
        BY <3>1, <3>2, <4>1, Made
      <4>3. run'.at = "cat"
        BY <3>1, <3>3 DEF WriteInf, At, Moves
      <4>. QED
        BY <3>1, <4>2, <4>3 DEF Signing, Exposed
    <3>4. CASE CreateCat
      <4>1. run.at = "cat" /\ run'.at = "remove root"
        BY <3>1, <3>4 DEF CreateCat, At, Moves
      <4>2. PICK b \in BOOLEAN :
              disk' = [disk EXCEPT ![run.o.name].cat = [n |-> n, covers |-> b, signer |-> NoFile]]
        BY <2>1, <3>4 DEF CreateCat, CatMade, HashMissed, ListMissing, CatFails, FailWith,
           SucceedWith, Return, PutCat
      <4>. QED
        BY <1>1, <3>1, <3>2, <4>1, <4>2
    <3>5. CASE ~WriteInf /\ ~CreateCat
      <4>1. run.at \notin {"inf", "cat"}
        BY <2>1, <3>5 DEF Proceed, Refuse, Check, Choose, Extract, NoCat, Succeed, SucceedWith,
           Return, Signs, RemoveOld, RemoveCert, GenerateKey, MakeCertificate, AddOwn, AddCert,
           SignFile, DeleteKey, AddAgain, At
      <4>2. run'.at \in {"cat"} \cup Signing => run.at \in Signing
        BY <3>1, <4>1 DEF Moves, Signing, Exposed
      <4>3. /\ disk'[run.o.name].inf.n = disk[run.o.name].inf.n
            /\ disk'[run.o.name].cat.n = disk[run.o.name].cat.n
        <5>1. CASE UNCHANGED disk
          BY <5>1
        <5>2. CASE disk' = [disk EXCEPT ![run.o.name].cat.signer = Own] /\ run.at = "sign"
          <6>1. disk[run.o.name].cat \in Cats
            <7>1. disk[run.o.name].cat.n = n /\ n # 0
              BY <1>1, <3>1, <5>2, CallTyped DEF Signing, Exposed
            <7>. QED
              BY <3>1, <3>2, <7>1 DEF NoFile
          <6>2. disk'[run.o.name] = [disk[run.o.name] EXCEPT !.cat.signer = Own]
            BY <3>1, <3>2, <5>2
          <6>. QED
            BY <3>1, <3>2, <6>1, <6>2 DEF Cats
        <5>. QED
          BY <4>1, <5>1, <5>2, DiskSteps DEF At
      <4>4. "cat" \notin Signing
        BY DEF Signing, Exposed
      <4>. QED
        BY <1>1, <3>1, <4>1, <4>2, <4>3, <4>4
    <3>. QED
      BY <3>3, <3>4, <3>5
  <2>2. CASE ~Proceed /\ run' # NoCall
    <3>1. run # NoCall => run \in Runs
      BY DEF PrepTypeInv, TypeOK, Runs
    <3>2. "check" \notin {"cat"} \cup Signing
      BY DEF Signing, Exposed
    <3>3. CASE \E p \in Procs, o \in Options : Begin(p, o)
      BY <3>2, <3>3 DEF Begin
    <3>4. CASE ~\E p \in Procs, o \in Options : Begin(p, o)
      <4>1. run'.at = run.at /\ run'.o = run.o /\ n' = n /\ disk' = disk
        BY <2>2, <3>1, <3>4, Besides DEF Runs
      <4>. QED
        BY <1>1, <4>1
    <3>. QED
      BY <3>3, <3>4
  <2>3. CASE run' = NoCall
    BY <2>3 DEF NoCall, Signing, Exposed
  <2>. QED
    BY <2>1, <2>2, <2>3
<1>. QED
  BY <1>2, <1>3, <1>4 DEF Located

\* The types hold of the initial state ...
LEMMA PrepTypeInit == Init => PrepTypeInv
<1>. SUFFICES ASSUME Init PROVE PrepTypeInv
  OBVIOUS
<1>1. Calls \in Nat /\ Budgets \subseteq [queries : Nat, certs : Nat, faults : Nat, kills : Nat]
  BY PrepareAssumption
<1>2. TypeOK
  <2>1. strict \in BOOLEAN /\ n \in 0..Calls /\ leaked \subseteq Procs /\ run = NoCall
    BY <1>1 DEF Init
  <2>2. SearchOK
    BY DEF Init, SearchOK
  <2>3. DiskOK
    BY DEF Init, DiskOK
  <2>4. stores \in [StoreNames -> SUBSET (Certs \cup {Vendor})] /\ key \in 0..Calls
    BY <1>1 DEF Init
  <2>5. hist \in Hists
    BY <1>1 DEF Init, Hists
  <2>6. budget \in [queries : Nat, certs : Nat, faults : Nat, kills : Nat]
    BY <1>1 DEF Init
  <2>. QED
    BY <2>1, <2>2, <2>3, <2>4, <2>5, <2>6 DEF TypeOK, SearchOK, Asks, DiskOK, Hists
<1>3. Located
  BY DEF Init, Located, Askers, NoAsk, NoCall, Signing, Exposed
<1>. QED
  BY <1>2, <1>3 DEF PrepTypeInv

\* ... and every step keeps them.
LEMMA PrepTypeStep == PrepTypeInv /\ [Next]_vars => PrepTypeInv'
<1>. SUFFICES ASSUME PrepTypeInv, [Next]_vars PROVE PrepTypeInv'
  OBVIOUS
<1>1. TypeOK'
  BY RunTyped, SearchTyped, DiskTyped, TrustTyped, HistTyped, BudgetTyped
     DEF TypeOK, Runs, SearchOK, Asks, DiskOK, Hists
<1>. QED
  BY <1>1, LocatedStep DEF PrepTypeInv

\* The types of Prepare hold, whichever steps fail and whichever processes are killed.
THEOREM PrepareTypeCorrect == Spec => []TypeOK
<1>1. PrepTypeInv => TypeOK
  BY DEF PrepTypeInv
<1>. QED
  BY <1>1, PrepTypeInit, PrepTypeStep, PTL DEF Spec

--------------------------------------------------------------------------------
\* The key of the container is that of the call that is about to sign, and no certificate
\* in the stores is of a call that has not put one there.
KeyInv ==
  /\ KeyDestroyed
  /\ run.at \in Exposed \cup {"certificate"} => key = n
  /\ At("again") => key # n \/ n \in hist.spared
  /\ \A s \in StoreNames : \A c \in stores[s] : c.n <= n /\ (run.at \in Early => c.n # n)

\* Where a certificate in a store comes from, and what stays spared.
LEMMA Stored ==
  ASSUME PrepTypeInv, [Next]_vars
  PROVE  /\ \A s \in StoreNames : \A c \in stores'[s] :
              \/ c \in stores[s]
              \/ c = Vendor
              \/ run.at \in {"add root", "add publisher", "again"} /\ c = Own /\ c.n = n
         /\ \A i \in hist.spared : i \in hist'.spared
         /\ \A s \in StoreNames : \A c \in stores[s] : c = Vendor \/ c \in Certs
<1>1. stores \in [StoreNames -> SUBSET (Certs \cup {Vendor})] /\ hist \in Hists
  BY DEF PrepTypeInv, TypeOK, Hists
<1>2. run.at # "none" => Own.n = n
  BY CallTyped
<1>3. \A i \in hist.spared : i \in hist'.spared
  <2>1. [hist EXCEPT !.spared = @ \cup {n}].spared = hist.spared \cup {n}
    BY <1>1 DEF Hists
  <2>2. \A h \in {hist, [hist EXCEPT !.spared = @ \cup {n}]} :
          [h EXCEPT !.kept = @ \cup {n}].spared = h.spared
    BY <1>1 DEF Hists
  <2>3. /\ [hist EXCEPT !.silent = @ \cup {n}].spared = hist.spared
        /\ [hist EXCEPT !.latest[Subject] = n].spared = hist.spared
    BY <1>1 DEF Hists
  <2>4. hist'.spared = hist.spared \/ hist'.spared = hist.spared \cup {n}
    BY <2>1, <2>2, <2>3, HistSteps
  <2>. QED
    BY <2>4
<1>4. ASSUME NEW s \in StoreNames, NEW c \in stores'[s]
      PROVE  \/ c \in stores[s]
             \/ c = Vendor
             \/ run.at \in {"add root", "add publisher", "again"} /\ c = Own /\ c.n = n
  <2>1. CASE stores' = [stores EXCEPT !["TrustedPublisher"] = @ \cup {Vendor}]
    BY <1>1, <1>4, <2>1
  <2>2. CASE \E t \in StoreNames : \E some \in SUBSET OfSubject(t) :
                stores' = [stores EXCEPT ![t] = @ \ some]
    BY <1>1, <1>4, <2>2
  <2>3. CASE run.at \in {"add root", "add publisher", "again"} /\ \E t \in StoreNames : Add(t)
    BY <1>1, <1>2, <1>4, <2>3 DEF Add
  <2>4. CASE run.at \in {"add root", "add publisher", "again"} /\
               stores' = [t \in StoreNames |-> stores[t] \cup {Own}]
    BY <1>1, <1>2, <1>4, <2>4
  <2>5. CASE UNCHANGED stores
    BY <1>4, <2>5
  <2>. QED
    BY <2>1, <2>2, <2>3, <2>4, <2>5, TrustSteps
<1>. QED
  BY <1>1, <1>3, <1>4

\* What the steps of a call do to the key.
LEMMA KeySteps ==
  ASSUME PrepTypeInv, Proceed
  PROVE  /\ run.at = "generate" => key' = n \/ (run' = NoCall /\ key' = key)
         /\ run.at = "delete key" => key' = 0 \/ (key' = key /\ n \in hist'.spared)
         /\ run.at \in {"add root", "add publisher", "sign"} =>
              key' = key /\ run'.at \in Exposed
         /\ run.at \notin {"generate", "delete key"} => key' = key
<1>1. run \in Runs /\ run # NoCall /\ hist \in Hists
  BY ProceedRun, CallTyped DEF PrepTypeInv, TypeOK, Hists
<1>2. \A step : Go(step) => run'.at = step
  BY <1>1 DEF Go, Runs
<1>3. run.at = "generate" => GenerateKey
  BY DEF Proceed, Refuse, Check, Choose, Extract, WriteInf, NoCat, CreateCat, Signs, RemoveOld,
     RemoveCert, GenerateKey, MakeCertificate, AddOwn, AddCert, SignFile, DeleteKey, AddAgain, At
<1>4. run.at = "delete key" => DeleteKey
  BY DEF Proceed, Refuse, Check, Choose, Extract, WriteInf, NoCat, CreateCat, Signs, RemoveOld,
     RemoveCert, GenerateKey, MakeCertificate, AddOwn, AddCert, SignFile, DeleteKey, AddAgain, At
<1>5. run.at \in {"add root", "add publisher", "sign"} => AddOwn \/ SignFile
  BY DEF Proceed, Refuse, Check, Choose, Extract, WriteInf, NoCat, CreateCat, Signs, RemoveOld,
     RemoveCert, GenerateKey, MakeCertificate, AddOwn, AddCert, SignFile, DeleteKey, AddAgain, At
<1>6. GenerateKey => key' = n \/ (run' = NoCall /\ key' = key)
  BY DEF GenerateKey, SignReturns, FailWith, SucceedWith, Return
<1>7. DeleteKey => key' = 0 \/ (key' = key /\ n \in hist'.spared)
  <2>1. LET h == [hist EXCEPT !.spared = @ \cup {n}] IN
          n \in h.spared /\ n \in [h EXCEPT !.kept = @ \cup {n}].spared
    BY <1>1 DEF Hists
  <2>2. \A h, b : SignReturns(b, h) => hist' \in {h, [h EXCEPT !.kept = @ \cup {n}]}
    BY DEF SignReturns, FailWith, SucceedWith
  <2>. QED
    BY <2>1, <2>2 DEF DeleteKey
<1>8. AddOwn \/ SignFile => run'.at \in Exposed
  <2>1. AddOwn => run'.at \in Exposed
    BY <1>2 DEF AddOwn, AddCert, Exposed
  <2>2. SignFile => run'.at \in Exposed
    BY <1>1, <1>2 DEF SignFile, Exposed, Runs
  <2>. QED
    BY <2>1, <2>2
<1>9. run.at \notin {"generate", "delete key"} => key' = key
  BY ProceedFrame DEF GenerateKey, DeleteKey, At
<1>. QED
  BY <1>3, <1>4, <1>5, <1>6, <1>7, <1>8, <1>9

\* A key is trusted only from the step that trusts its certificate to the one that destroys it.
LEMMA KeyStep == PrepTypeInv /\ KeyInv /\ [Next]_vars => KeyInv'
<1>. SUFFICES ASSUME PrepTypeInv, KeyInv, [Next]_vars PROVE KeyInv'
  OBVIOUS
<1>. DEFINE Destroyed == run.at \notin Exposed =>
              \A s \in StoreNames : \A c \in stores[s] : c.n = key => c.n \in hist.spared
            Ready == run.at \in Exposed \cup {"certificate"} => key = n
            Gone == run.at = "again" => key # n \/ n \in hist.spared
            Older == \A s \in StoreNames : \A c \in stores[s] :
                       c.n <= n /\ (run.at \in Early => c.n # n)
<1>1. Destroyed /\ Ready /\ Gone /\ Older
  BY DEF KeyInv, KeyDestroyed, At
<1>2. n \in 0..Calls /\ n' \in 0..Calls /\ key \in 0..Calls /\ Calls \in Nat
  BY PrepareAssumption, RunTyped DEF PrepTypeInv, TypeOK
<1>3. Vendor.n = -1 /\ \A c \in Certs : c.n \in 1..Calls
  BY DEF Vendor, Certs
<1>4. \A s \in StoreNames : \A c \in stores[s] : c.n \in Int /\ c.n # 0
  <2>1. stores \in [StoreNames -> SUBSET (Certs \cup {Vendor})]
    BY DEF PrepTypeInv, TypeOK
  <2>2. \A i \in 1..Calls : i \in Int /\ i # 0
    BY <1>2
  <2>3. -1 \in Int /\ -1 # 0
    OBVIOUS
  <2>. QED
    BY <1>3, <2>1, <2>2, <2>3
<1>5. NoCall.at = "none" /\ "none" \notin Steps /\ "none" \notin Exposed
  BY DEF NoCall, Steps, Exposed
<1>6. CASE Proceed
  <2>1. n' = n /\ n # 0 /\ run.at # "none"
    BY <1>6, ProceedRun, CallTyped
  <2>2. run' # NoCall => <<run.at, run'.at>> \in Moves
    BY <1>6, CallSteps
  <2>3. Ready'
    <3>1. run'.at \in Exposed \cup {"certificate"} /\ run' # NoCall =>
            run.at = "generate" \/ (run.at \in Exposed \cup {"certificate"} /\ run.at # "delete key")
      BY <2>2 DEF Moves, Exposed
    <3>. QED
      BY <1>1, <1>5, <1>6, <2>1, <3>1, KeySteps
  <2>4. Gone'
    <3>1. run'.at = "again" /\ run' # NoCall => run.at = "delete key"
      BY <2>2 DEF Moves
    <3>. QED
      BY <1>1, <1>5, <1>6, <2>1, <3>1, KeySteps DEF Exposed
  <2>5. Older'
    <3>1. run'.at \in Early /\ run' # NoCall => run.at \in Early /\ run.at # "add root"
      BY <2>2 DEF Moves, Early, Steps, Exposed
    <3>2. run'.at \in Early => run' # NoCall
      BY <1>5 DEF Early
    <3>3. ASSUME NEW s \in StoreNames, NEW c \in stores'[s]
          PROVE  c.n <= n /\ (run'.at \in Early => c.n # n)
      <4>1. CASE c \in stores[s]
        BY <1>1, <3>1, <3>2, <4>1
      <4>2. CASE c = Vendor
        BY <1>2, <1>3, <4>2
      <4>3. CASE run.at \in {"add root", "add publisher", "again"} /\ c.n = n
        <5>1. run.at \notin Early \/ run.at = "add root"
          BY <4>3 DEF Early
        <5>2. n <= n
          BY <1>2
        <5>. QED
          BY <3>1, <3>2, <4>3, <5>1, <5>2
      <4>. QED
        BY <3>3, <4>1, <4>2, <4>3, Stored
    <3>. QED
      BY <2>1, <3>3
  <2>6. Destroyed'
    <3>. SUFFICES ASSUME run'.at \notin Exposed, NEW s \in StoreNames, NEW c \in stores'[s],
                         c.n = key'
                  PROVE  c.n \in hist'.spared
      OBVIOUS
    <3>1. c.n # -1 => c # Vendor
      BY <1>3
    <3>2. CASE run.at = "generate"
      <4>1. c \in stores[s] \/ c = Vendor
        BY <3>2, Stored
      <4>2. run.at \in Early /\ run.at \notin Exposed
        BY <3>2 DEF Early, Steps, Exposed
      <4>3. c \in stores[s] => c.n # n /\ (c.n = key => c.n \in hist.spared)
        BY <1>1, <4>2
      <4>. QED
        BY <1>2, <1>3, <1>6, <3>2, <4>1, <4>3, KeySteps, Stored
    <3>3. CASE run.at = "delete key"
      <4>1. c \in stores[s] \/ c = Vendor
        BY <3>3, Stored
      <4>2. c.n # 0
        BY <1>3, <1>4, <4>1
      <4>3. key = n
        BY <1>1, <3>3 DEF Exposed
      <4>. QED
        BY <1>6, <3>3, <4>2, <4>3, KeySteps
    <3>4. CASE run.at \notin {"generate", "delete key"}
      <4>1. key' = key /\ run.at \notin Exposed
        BY <1>6, <3>4, KeySteps DEF Exposed
      <4>2. CASE c \in stores[s]
        BY <1>1, <4>1, <4>2, Stored
      <4>3. CASE c = Vendor
        BY <1>2, <1>3, <4>1, <4>3
      <4>4. CASE run.at \in {"add root", "add publisher", "again"} /\ c.n = n
        <5>1. run.at = "again"
          BY <4>1, <4>4 DEF Exposed
        <5>. QED
          BY <1>1, <4>1, <4>4, <5>1, Stored
      <4>. QED
        BY <4>2, <4>3, <4>4, Stored
    <3>. QED
      BY <3>2, <3>3, <3>4
  <2>. QED
    BY <2>3, <2>4, <2>5, <2>6 DEF KeyInv, KeyDestroyed, At
<1>7. ASSUME NEW p \in Procs, NEW o \in Options, Begin(p, o)
      PROVE  KeyInv'
  <2>1. /\ run.at = "none" /\ run'.at = "check" /\ n' = n + 1
        /\ UNCHANGED <<stores, key, hist>>
    BY <1>7 DEF Begin, At, trust
  <2>2. "check" \notin Exposed \cup {"certificate", "again"}
    BY DEF Exposed
  <2>4. Destroyed'
    BY <1>1, <1>5, <2>1
  <2>5. Older'
    <3>1. \A i \in Int : i <= n => i <= n + 1 /\ i # n + 1
      BY <1>2
    <3>. QED
      BY <1>1, <1>4, <2>1, <3>1
  <2>. QED
    BY <2>1, <2>2, <2>4, <2>5 DEF KeyInv, KeyDestroyed, At
<1>8. CASE ~Proceed /\ ~\E p \in Procs, o \in Options : Begin(p, o)
  <2>1. n' = n /\ key' = key
    BY <1>8, Besides
  <2>2. \A s \in StoreNames : \A c \in stores'[s] : c \in stores[s] \/ c = Vendor
    <3>1. stores \in [StoreNames -> SUBSET (Certs \cup {Vendor})]
      BY DEF PrepTypeInv, TypeOK
    <3>. QED
      BY <1>8, <3>1, Besides
  <2>3. /\ run # NoCall => run \in Runs
        /\ hist \in Hists
    BY DEF PrepTypeInv, TypeOK, Runs, Hists
  <2>4. CASE run'.at = run.at /\ hist' = hist
    BY <1>1, <1>2, <1>3, <2>1, <2>2, <2>4 DEF KeyInv, KeyDestroyed, At
  <2>5. CASE /\ run' = NoCall
             /\ hist' = IF run.at \in Exposed THEN [hist EXCEPT !.spared = @ \cup {n}] ELSE hist
    <3>1. Older'
      <4>1. run'.at \notin Early /\ -1 <= n
        <5>1. -1 <= n
          BY <1>2
        <5>. QED
          BY <1>5, <2>5, <5>1 DEF Early
      <4>. QED
        BY <1>1, <1>3, <2>1, <2>2, <4>1
    <3>2. run.at \in Exposed => n \in hist'.spared
      BY <2>3, <2>5 DEF Hists
    <3>3. Destroyed'
      <4>. SUFFICES ASSUME NEW s \in StoreNames, NEW c \in stores'[s], c.n = key
                    PROVE  c.n \in hist'.spared
        BY <2>1
      <4>1. c # Vendor
        BY <1>2, <1>3
      <4>2. c \in stores[s]
        BY <2>2, <4>1
      <4>3. CASE run.at \in Exposed
        BY <1>1, <3>2, <4>3
      <4>4. CASE run.at \notin Exposed
        BY <1>1, <2>5, <4>2, <4>4
      <4>. QED
        BY <4>3, <4>4
    <3>. QED
      BY <1>5, <2>5, <3>1, <3>3 DEF KeyInv, KeyDestroyed, At
  <2>6. [run EXCEPT !.disturbed = TRUE].at = run.at \/ run = NoCall
    BY <2>3 DEF Runs
  <2>. QED
    BY <1>8, <2>4, <2>5, <2>6, Besides
<1>. QED
  BY <1>6, <1>7, <1>8

\* "we *MUST* ensure that the private key is destroyed" (pki.c): whatever fails, and whichever
\* process is killed, no key of a trusted certificate is left behind, but for the calls that
\* could not destroy it.
THEOREM NoTrustedKeyIsLeft == Spec => []KeyDestroyed
<1>1. Init => KeyInv
  BY DEF Init, KeyInv, KeyDestroyed, At, NoCall, Exposed, Early, Steps, StoreNames
<1>2. KeyInv => KeyDestroyed
  BY DEF KeyInv
<1>. QED
  BY <1>1, <1>2, PrepTypeInit, PrepTypeStep, KeyStep, PTL DEF Spec

--------------------------------------------------------------------------------
\* The version was found, or the call is one of those whose inf may go without.
Excused == run.disturbed \/ run.type # run.o.type \/ run.type = "cdc"

\* The driver is the one asked for until the version was looked for.
Asked ==
  /\ At("check") => run.type = run.o.type
  /\ At("version") => run.type = run.o.type /\ run.type \in Versioned
  /\ At("type") => run.type = run.o.type /\ run.type \notin Versioned
  /\ At("inf") => run.type # "user"

\* A search for the version that nothing disturbs finds it.
Found ==
  At("version") /\ ~run.disturbed =>
    /\ ask["other"].at # "none" => ask["other"].type # run.type
    /\ ask["call"].at # "none" => ask["call"].type = run.type
    /\ ask["call"].at = "read" => temp[run.type].file = "whole"
    /\ ask["call"].at \in {"delete", "none"} =>
         run.type \in cache[run.by] \/ run.type \notin Embedded

Provided ==
  run.at \in {"extract", "inf"} => run.type \in cache[run.by] \/ Excused \/ run.type = "user"

VersionInv == VersionIsOwn /\ Asked /\ Found /\ Provided

\* The inf of a call that has the version, or an excuse, is as it should be.
LEMMA VersionOwnStep == PrepTypeInv /\ VersionInv /\ [Next]_vars => VersionIsOwn'
<1>. SUFFICES ASSUME PrepTypeInv, VersionInv, [Next]_vars PROVE VersionIsOwn'
  OBVIOUS
<1>1. VersionIsOwn /\ Asked /\ Provided
  BY DEF VersionInv
<1>2. disk \in [Names -> [inf : {NoFile} \cup Infs, cat : {NoFile} \cup Cats]]
  BY DEF PrepTypeInv, TypeOK
<1>3. CASE \A f \in Names : disk'[f].inf = disk[f].inf
  BY <1>1, <1>3 DEF VersionIsOwn
<1>4. ASSUME run.at = "inf", NEW b \in BOOLEAN,
             disk' = [disk EXCEPT ![run.o.name].inf = Inf(b)]
      PROVE  VersionIsOwn'
  <2>1. run.o.name \in Names
    BY <1>4, CallTyped
  <2>2. /\ disk'[run.o.name].inf = Inf(b)
        /\ \A f \in Names : f # run.o.name => disk'[f].inf = disk[f].inf
    BY <1>2, <1>4, <2>1
  <2>3. /\ Inf(b).type = run.type /\ Inf(b).version = VersionOf(run.by, run.type)
        /\ Inf(b).asked = run.o.type /\ Inf(b).disturbed = run.disturbed
    BY DEF Inf
  <2>4. CASE run.type \in cache[run.by]
    <3>1. Inf(b).version = Inf(b).type
      BY <2>3, <2>4 DEF VersionOf
    <3>. QED
      BY <1>1, <2>2, <3>1 DEF VersionIsOwn
  <2>5. CASE run.type \notin cache[run.by]
    <3>1. Inf(b).version = "none"
      BY <2>3, <2>5 DEF VersionOf
    <3>2. Inf(b).disturbed \/ Inf(b).type # Inf(b).asked \/ Inf(b).type = "cdc"
      BY <1>1, <1>4, <2>3, <2>5 DEF Provided, Asked, Excused, At
    <3>. QED
      BY <1>1, <2>2, <3>1, <3>2 DEF VersionIsOwn
  <2>. QED
    BY <2>4, <2>5
<1>5. CASE UNCHANGED disk
  BY <1>3, <1>5
<1>6. ASSUME run.at = "cat", NEW b \in BOOLEAN,
             disk' = [disk EXCEPT ![run.o.name].cat = [n |-> n, covers |-> b, signer |-> NoFile]]
      PROVE  VersionIsOwn'
  <2>1. \A f \in Names : disk'[f].inf = disk[f].inf
    BY <1>2, <1>6
  <2>. QED
    BY <1>3, <2>1
<1>7. ASSUME disk' = [disk EXCEPT ![run.o.name].cat.signer = Own]
      PROVE  VersionIsOwn'
  <2>1. \A f \in Names : disk'[f].inf = disk[f].inf
    BY <1>2, <1>7
  <2>. QED
    BY <1>3, <2>1
<1>. QED
  BY <1>4, <1>5, <1>6, <1>7, DiskSteps DEF At

\* Only a call whose search was disturbed, or whose driver has no version, goes on without.
LEMMA VersionCallStep ==
  ASSUME PrepTypeInv, VersionInv, Proceed
  PROVE  Asked' /\ Found' /\ Provided'
<1>1. Asked /\ Found /\ Provided
  BY DEF VersionInv
<1>2. run \in Runs /\ run # NoCall /\ run.type \in TypeSet /\ run.by \in Procs
  BY ProceedRun, CallTyped DEF Runs
<1>3. ask \in [Askers -> {NoAsk} \cup Asks] /\ cache \in [Procs -> SUBSET Versioned]
  BY DEF PrepTypeInv, TypeOK, Asks
<1>4. "call" \in Askers /\ "other" \in Askers /\ "call" # "other"
  BY DEF Askers
<1>5. CASE Check
  <2>1. run.at = "check" /\ run.type = run.o.type
    BY <1>1, <1>5 DEF Check, At, Asked
  <2>2. CASE run.type \in Versioned
    <3>1. /\ run' = [run EXCEPT !.at = "version", !.disturbed = Overlap(run.type)]
          /\ ask' = [ask EXCEPT !["call"] = [at |-> "open", by |-> run.by, type |-> run.type]]
      BY <1>5, <2>2 DEF Check
    <3>2. /\ run'.at = "version" /\ run'.type = run.type /\ run'.o = run.o
          /\ run'.disturbed = Overlap(run.type)
      BY <1>2, <3>1 DEF Runs
    <3>3. /\ ask'["call"].at = "open" /\ ask'["call"].type = run.type
          /\ ask'["other"] = ask["other"]
      BY <1>3, <1>4, <3>1
    <3>4. ~run'.disturbed /\ ask["other"].at # "none" => ask["other"].type # run.type
      BY <1>4, <3>2 DEF Overlap
    <3>. QED
      BY <2>1, <2>2, <3>2, <3>3, <3>4 DEF Asked, Found, Provided, At
  <2>3. CASE run.type \notin Versioned
    <3>1. run'.at = "type" /\ run'.type = run.type /\ run'.o = run.o
      BY <1>2, <1>5, <2>3 DEF Check, Go, Runs
    <3>. QED
      BY <2>1, <2>3, <3>1 DEF Asked, Found, Provided, At
  <2>. QED
    BY <2>2, <2>3
<1>6. CASE run' = NoCall
  BY <1>6 DEF NoCall, Asked, Found, Provided, At
<1>7. CASE ~Check /\ run' # NoCall
  <2>1. /\ UNCHANGED version /\ run'.by = run.by /\ run'.o = run.o
        /\ <<run.at, run'.at>> \in Moves /\ run.at # "check"
        /\ run.at \in {"version", "type"} \/ run'.type = run.type
        /\ run'.disturbed = run.disturbed
    <3>1. run.at = "check" => Refuse
      BY <1>7 DEF Proceed, Refuse, Check, Choose, Extract, WriteInf, NoCat, CreateCat, Signs,
         RemoveOld, RemoveCert, GenerateKey, MakeCertificate, AddOwn, AddCert, SignFile,
         DeleteKey, AddAgain, At
    <3>2. run.at # "check"
      BY <1>7, <3>1 DEF Refuse, Return
    <3>. QED
      BY <1>7, <3>2, ProceedFrame, CallSteps
  <2>2. CASE run.at \in {"version", "type"}
    <3>1. Choose /\ run'.at = "extract"
      <4>1. Choose
        BY <2>2 DEF Proceed, Refuse, Check, Choose, Extract, WriteInf, NoCat, CreateCat, Signs,
           RemoveOld, RemoveCert, GenerateKey, MakeCertificate, AddOwn, AddCert, SignFile,
           DeleteKey, AddAgain, At
      <4>. QED
        BY <2>1, <2>2, <4>1 DEF Moves
    <3>2. run.type = run.o.type /\ cache' = cache
      BY <1>1, <2>1, <2>2 DEF Asked, At, version
    <3>3. CASE run.type \in Supported
      <4>1. run'.type = run.type
        BY <1>2, <3>1, <3>3 DEF Choose, Go, Runs
      <4>2. run.at = "version" => run.disturbed \/ run.type \in cache[run.by]
        <5>1. run.at = "version" => ask["call"].at = "none" /\ run.type \in Versioned
          BY <1>1, <3>1 DEF Choose, At, Asked
        <5>2. run.at = "version" => run.type \in Embedded
          BY <3>3, <5>1, PrepareAssumption
        <5>. QED
          BY <1>1, <5>1, <5>2 DEF Found, At
      <4>3. run.at = "type" => run.type = "cdc" \/ run.type = "user"
        BY <1>1, <1>2 DEF Asked, At, Versioned
      <4>4. run.disturbed \/ run.type \in cache[run.by] \/ run.type \in {"cdc", "user"}
        BY <2>2, <4>2, <4>3
      <4>. QED
        BY <2>1, <3>1, <3>2, <4>1, <4>4 DEF Asked, Found, Provided, Excused, At
    <3>4. CASE run.type \notin Supported
      <4>1. run'.type \in Supported
        <5>1. FirstSupported # 0 /\
              run' = [run EXCEPT !.at = "extract", !.type = Types[FirstSupported]]
          BY <1>7, <3>1, <3>4 DEF Choose, Return
        <5>2. run'.type = Types[FirstSupported]
          BY <1>2, <5>1 DEF Runs
        <5>. QED
          BY <5>1, <5>2, FirstIsSupported
      <4>2. run'.type # run'.o.type
        BY <2>1, <3>2, <3>4, <4>1
      <4>. QED
        BY <3>1, <4>2 DEF Asked, Found, Provided, Excused, At
    <3>. QED
      BY <3>3, <3>4
  <2>3. CASE run.at = "extract"
    <3>1. Extract
      BY <2>3 DEF Proceed, Refuse, Check, Choose, Extract, WriteInf, NoCat, CreateCat, Signs,
         RemoveOld, RemoveCert, GenerateKey, MakeCertificate, AddOwn, AddCert, SignFile,
         DeleteKey, AddAgain, At
    <3>2. run.type # "user" /\ run'.at = "inf"
      BY <1>7, <2>1, <2>3, <3>1 DEF Extract, Succeed, SucceedWith, Return, Moves
    <3>. QED
      BY <1>1, <2>1, <2>3, <3>2 DEF Asked, Found, Provided, Excused, At, version
  <2>4. CASE run.at \notin {"version", "type", "extract"}
    <3>1. run'.at \notin {"check", "version", "type", "extract", "inf"}
      BY <2>1, <2>4 DEF Moves
    <3>. QED
      BY <3>1 DEF Asked, Found, Provided, At
  <2>. QED
    BY <2>2, <2>3, <2>4
<1>. QED
  BY <1>5, <1>6, <1>7

\* A search of another thread for the version of another driver leaves that of the call alone.
LEMMA VersionOtherStep ==
  ASSUME PrepTypeInv, VersionInv, Ask("other")
  PROVE  Asked' /\ Found' /\ Provided'
<1>1. Asked /\ Found /\ Provided
  BY DEF VersionInv
<1>2. SearchOK /\ "call" \in Askers /\ "other" \in Askers /\ "call" # "other"
  BY DEF PrepTypeInv, TypeOK, SearchOK, Asks, Askers
<1>3. run' = run
  BY DEF Ask, AskOpen, AskWrite, AskRead, AskDelete, Disturbs
<1>4. ask["other"].at # "none" /\ ask["other"] \in Asks
  <2>1. ask["other"].at # "none"
    BY DEF Ask, AskOpen, AskWrite, AskRead, AskDelete
  <2>. QED
    BY <1>2, <2>1 DEF SearchOK, NoAsk
<1>5. /\ ask'["call"] = ask["call"]
      /\ ask'["other"].at # "none" => ask'["other"].type = ask["other"].type
  <2>1. AskEnds("other") \/ \E step \in {"write", "read", "delete"} : AskGoes("other", step)
    BY DEF Ask, AskOpen, AskWrite, AskRead, AskDelete
  <2>2. ask'["call"] = ask["call"]
    BY <1>2, <2>1 DEF AskEnds, AskGoes, SearchOK
  <2>3. ask'["other"].at # "none" => ask'["other"].type = ask["other"].type
    BY <1>2, <1>4, <2>1 DEF AskEnds, AskGoes, SearchOK, NoAsk, Asks
  <2>. QED
    BY <2>2, <2>3
<1>6. \A t \in Versioned : t # ask["other"].type => temp'[t] = temp[t]
  BY <1>2 DEF Ask, AskOpen, AskWrite, AskRead, AskDelete, SearchOK
<1>7. \A p \in Procs : cache[p] \subseteq cache'[p]
  BY <1>2 DEF Ask, AskOpen, AskWrite, AskRead, AskDelete, SearchOK
<1>8. run.at # "none" => run.by \in Procs
  BY CallTyped DEF Runs
<1>9. Asked'
  BY <1>1, <1>3 DEF Asked, At
<1>10. Provided'
  BY <1>1, <1>3, <1>7, <1>8 DEF Provided, Excused
<1>11. Found'
  <2>. SUFFICES ASSUME run.at = "version", ~run.disturbed PROVE Found'
    BY <1>3 DEF Found, At
  <2>1. run.type \in Versioned /\ run.type # ask["other"].type
    BY <1>1, <1>4 DEF Asked, Found, At
  <2>2. temp'[run.type] = temp[run.type]
    BY <1>6, <2>1
  <2>. QED
    BY <1>1, <1>3, <1>4, <1>5, <1>7, <1>8, <2>1, <2>2 DEF Found, At
<1>. QED
  BY <1>9, <1>10, <1>11

\* The search of the call gets from one step to the next, if nothing disturbs it.
LEMMA VersionOwnSearch ==
  ASSUME PrepTypeInv, VersionInv, Ask("call")
  PROVE  Asked' /\ Found' /\ Provided'
<1>1. Asked /\ Found
  BY DEF VersionInv
<1>2. SearchOK /\ "call" \in Askers /\ "other" \in Askers /\ "call" # "other"
      /\ \A a \in Askers : a = "call" \/ a = "other"
  BY DEF PrepTypeInv, TypeOK, SearchOK, Asks, Askers
<1>3. ask["call"].at # "none"
  BY DEF Ask, AskOpen, AskWrite, AskRead, AskDelete
<1>4. /\ ask["call"] \in Asks /\ run.at = "version" /\ run.by = ask["call"].by
      /\ run \in Runs /\ run.by \in Procs
  <2>1. ask["call"] \in Asks
    BY <1>2, <1>3 DEF SearchOK, NoAsk
  <2>2. run.at = "version" /\ run.by = ask["call"].by
    BY <1>3 DEF PrepTypeInv, Located, At
  <2>3. run \in Runs
    BY <2>2, CallTyped
  <2>. QED
    BY <2>1, <2>2, <2>3 DEF Runs
<1>5. run.type = run.o.type /\ run.type \in Versioned
  BY <1>1, <1>4 DEF Asked, At
<1>6. CASE run' = [run EXCEPT !.disturbed = TRUE]
  <2>1. /\ run'.at = run.at /\ run'.type = run.type /\ run'.o = run.o /\ run'.disturbed
    BY <1>4, <1>6 DEF Runs
  <2>. QED
    BY <1>4, <1>5, <2>1 DEF Asked, Found, Provided, At
<1>7. CASE run' = run /\ run.disturbed
  BY <1>4, <1>5, <1>7 DEF Asked, Found, Provided, At
<1>8. CASE run' = run /\ ~run.disturbed /\ ~Disturbs("call")
  <2>. DEFINE t == run.type
  <2>1. /\ ask["call"].type = t /\ ask["call"].by = run.by
        /\ ask["other"].at # "none" => ask["other"].type # t
        /\ ask["call"].at = "read" => temp[t].file = "whole"
        /\ ask["call"].at = "delete" => t \in cache[run.by] \/ t \notin Embedded
    BY <1>1, <1>3, <1>4, <1>8 DEF Found, At
  <2>2. \A step \in {"write", "read", "delete"} : AskGoes("call", step) =>
          /\ ask'["call"].at = step /\ ask'["call"].type = t /\ ask'["other"] = ask["other"]
    BY <1>2, <1>4, <2>1 DEF AskGoes, SearchOK, Asks
  <2>3. AskEnds("call") => ask'["call"].at = "none" /\ ask'["other"] = ask["other"]
    BY <1>2 DEF AskEnds, SearchOK, NoAsk
  <2>4. CASE AskOpen("call")
    <3>1. temp[t].writer = "none"
      <4>1. temp[t].writer # "call"
        BY <1>2, <1>5, <2>4 DEF SearchOK, AskOpen
      <4>2. temp[t].writer # "other"
        BY <1>2, <1>5, <2>1 DEF SearchOK
      <4>3. temp[t].writer \in Askers \cup {"none"}
        BY <1>2, <1>5 DEF SearchOK
      <4>. QED
        BY <1>2, <4>1, <4>2, <4>3
    <3>2. cache' = cache
      BY <2>4 DEF AskOpen
    <3>3. \/ AskEnds("call") /\ (t \in cache[run.by] \/ t \notin Embedded)
          \/ AskGoes("call", "write")
      BY <1>8, <2>1, <2>4, <3>1 DEF AskOpen
    <3>. QED
      BY <1>4, <1>5, <1>8, <2>1, <2>2, <2>3, <3>2, <3>3 DEF Asked, Found, Provided, At
  <2>5. CASE AskWrite("call")
    <3>1. AskGoes("call", "read") /\
          temp' = [temp EXCEPT ![t] = [file |-> "whole", writer |-> "none"]]
      BY <1>8, <2>1, <2>5 DEF AskWrite
    <3>2. temp'[t].file = "whole"
      BY <1>2, <1>5, <3>1 DEF SearchOK
    <3>. QED
      BY <1>4, <1>5, <1>8, <2>1, <2>2, <3>1, <3>2 DEF Asked, Found, Provided, At
  <2>6. CASE AskRead("call")
    <3>1. AskGoes("call", "delete") /\ cache' = [cache EXCEPT ![run.by] = @ \cup {t}]
      BY <1>8, <2>1, <2>6 DEF AskRead
    <3>2. t \in cache'[run.by]
      BY <1>2, <1>4, <3>1 DEF SearchOK
    <3>. QED
      BY <1>4, <1>5, <1>8, <2>1, <2>2, <3>1, <3>2 DEF Asked, Found, Provided, At
  <2>7. CASE AskDelete("call")
    <3>1. AskEnds("call") /\ cache' = cache /\ ask["call"].at = "delete"
      BY <2>7 DEF AskDelete
    <3>. QED
      BY <1>4, <1>5, <1>8, <2>1, <2>3, <3>1 DEF Asked, Found, Provided, At
  <2>. QED
    BY <2>4, <2>5, <2>6, <2>7 DEF Ask
<1>9. \/ run' = run /\ ~Disturbs("call")
      \/ run' = [run EXCEPT !.disturbed = TRUE]
  BY DEF Ask, AskOpen, AskWrite, AskRead, AskDelete, Disturbs
<1>. QED
  BY <1>6, <1>7, <1>8, <1>9

\* Neither does anything else take the version away from a call.
LEMMA VersionStep == PrepTypeInv /\ VersionInv /\ [Next]_vars => VersionInv'
<1>. SUFFICES ASSUME PrepTypeInv, VersionInv, [Next]_vars PROVE VersionInv'
  OBVIOUS
<1>1. Asked /\ Found /\ Provided
  BY DEF VersionInv
<1>2. SearchOK /\ "call" \in Askers /\ "other" \in Askers /\ "call" # "other"
      /\ \A a \in Askers : a = "call" \/ a = "other"
  BY DEF PrepTypeInv, TypeOK, SearchOK, Asks, Askers
<1>3. run.at # "none" => run \in Runs /\ run.by \in Procs
  BY CallTyped DEF Runs
<1>4. CASE Proceed
  BY <1>4, VersionCallStep, VersionOwnStep DEF VersionInv
<1>5. CASE \E a \in Askers : Ask(a)
  BY <1>2, <1>5, VersionOtherStep, VersionOwnSearch, VersionOwnStep DEF VersionInv
<1>6. ASSUME NEW p \in Procs, NEW o \in Options, Begin(p, o)
      PROVE  Asked' /\ Found' /\ Provided'
  <2>1. run'.at = "check" /\ run'.type = run'.o.type
    BY <1>6 DEF Begin
  <2>. QED
    BY <2>1 DEF Asked, Found, Provided, At
<1>7. ASSUME NEW p \in Procs, NEW t \in Versioned, Query(p, t)
      PROVE  Asked' /\ Found' /\ Provided'
  <2>1. /\ temp' = temp /\ cache' = cache
        /\ ask' = [ask EXCEPT !["other"] = [at |-> "open", by |-> p, type |-> t]]
        /\ run' = IF run.at = "version" /\ run.type = t
                    THEN [run EXCEPT !.disturbed = TRUE] ELSE run
    BY <1>7 DEF Query, At
  <2>2. ask'["call"] = ask["call"] /\ ask'["other"].type = t
    BY <1>2, <2>1 DEF SearchOK
  <2>3. CASE run.at = "version" /\ run.type = t
    <3>1. /\ run'.at = run.at /\ run'.type = run.type /\ run'.o = run.o /\ run'.disturbed
      BY <1>3, <2>1, <2>3 DEF Runs
    <3>. QED
      BY <1>1, <2>3, <3>1 DEF Asked, Found, Provided, At
  <2>4. CASE ~(run.at = "version" /\ run.type = t)
    <3>1. run' = run
      BY <2>1, <2>4
    <3>2. Found'
      BY <1>1, <2>1, <2>2, <2>4, <3>1 DEF Found, At
    <3>. QED
      BY <1>1, <2>1, <3>1, <3>2 DEF Asked, Provided, Excused, At
  <2>. QED
    BY <2>3, <2>4
<1>8. ASSUME NEW p \in Procs, Exit(p)
      PROVE  Asked' /\ Found' /\ Provided'
  <2>1. CASE run # NoCall /\ run.by = p
    <3>1. run'.at = "none"
      BY <1>8, <2>1 DEF Exit, NoCall
    <3>. QED
      BY <3>1 DEF Asked, Found, Provided, At
  <2>2. CASE ~(run # NoCall /\ run.by = p)
    <3>1. run' = run
      BY <1>8, <2>2 DEF Exit
    <3>2. run.at # "none" => run.by # p
      BY <2>2, CallTyped
    <3>3. run.at # "none" => cache'[run.by] = cache[run.by]
      BY <1>2, <1>3, <1>8, <3>2 DEF Exit, SearchOK
    <3>4. run.at # "none" => ask'["call"] = ask["call"]
      <4>1. ask'["call"] = IF ByProc("call", p) THEN NoAsk ELSE ask["call"]
        BY <1>2, <1>8 DEF Exit
      <4>. QED
        BY <3>2, <4>1 DEF ByProc, PrepTypeInv, Located
    <3>5. ask'["other"].at # "none" => ask'["other"] = ask["other"]
      BY <1>2, <1>8 DEF Exit, NoAsk
    <3>6. \A t \in Versioned : temp'[t].file = temp[t].file
      BY <1>2, <1>8 DEF Exit, SearchOK
    <3>7. Found'
      BY <1>1, <3>1, <3>3, <3>4, <3>5, <3>6 DEF Found, Asked, At
    <3>8. Provided'
      BY <1>1, <3>1, <3>3 DEF Provided, Excused
    <3>. QED
      BY <1>1, <3>1, <3>7, <3>8 DEF Asked, At
  <2>. QED
    BY <2>1, <2>2
<1>9. ASSUME \/ \E p \in Procs : InstallCertificate(p)
             \/ UNCHANGED vars
      PROVE  Asked' /\ Found' /\ Provided'
  <2>1. UNCHANGED <<run, ask, temp, cache>>
    BY <1>9 DEF InstallCertificate, vars, version
  <2>. QED
    BY <1>1, <2>1 DEF Asked, Found, Provided, Excused, At
<1>. QED
  BY <1>4, <1>5, <1>6, <1>7, <1>8, <1>9, VersionOwnStep DEF Next, VersionInv

\* The version of an inf is that of its driver, or missing for one of the known reasons: that
\* of the driver a cache was filled for does not get into the inf of another one.
THEOREM VersionIsNotAnothers == Spec => []VersionIsOwn
<1>1. Init => VersionInv
  BY DEF Init, VersionInv, VersionIsOwn, Asked, Found, Provided, At, NoCall, NoFile
<1>2. VersionInv => VersionIsOwn
  BY DEF VersionInv
<1>. QED
  BY <1>1, <1>2, PrepTypeInit, PrepTypeStep, VersionStep, PTL DEF Spec

--------------------------------------------------------------------------------
\* What was promised of earlier calls is not of this one, whose inf has the only copy of
\* its number.
Earlier ==
  /\ \A i \in hist.kept : i <= n /\ (run # NoCall => i # n)
  /\ \A f \in Names : disk[f].inf.n <= n /\ (run # NoCall /\ disk[f].inf.n = n => f = run.o.name)

\* The inf and the catalog are complete, unless a step was passed over.
Complete ==
  /\ run.at \in {"cat"} \cup Signing => n \in hist.silent \/ disk[run.o.name].inf.whole
  /\ run.at \in Signing => n \in hist.silent \/ disk[run.o.name].cat.covers

\* The certificate is in both stores before it signs, and stays there.
Trusted ==
  /\ run.at \in {"add publisher", "sign"} => Own \in stores["Root"]
  /\ At("sign") => Own \in stores["TrustedPublisher"]
  /\ run.at \in {"delete key", "again"} /\ run.signed =>
       disk[run.o.name].cat.signer = Own /\ \A s \in StoreNames : Own \in stores[s]
  /\ run.at \in Steps \ {"delete key", "again"} => ~run.signed

PackageInv == PackageTrusted /\ Earlier /\ Complete /\ Trusted

\* What becomes of each part of what the properties remember.
LEMMA HistParts ==
  ASSUME PrepTypeInv, [Next]_vars
  PROVE  /\ hist'.kept = hist.kept \/
              (run.at # "none" /\ run' = NoCall /\ hist'.kept = hist.kept \cup {n})
         /\ hist'.silent = hist.silent \/ hist'.silent = hist.silent \cup {n}
         /\ \/ hist'.latest = hist.latest
            \/ /\ run.at \in {"remove root", "remove publisher"}
               /\ hist' = [hist EXCEPT !.latest[Subject] = n]
<1>1. hist \in Hists
  BY DEF PrepTypeInv, TypeOK, Hists
<1>2. \A h \in {hist, [hist EXCEPT !.spared = @ \cup {n}]} :
        /\ h.kept = hist.kept /\ h.silent = hist.silent /\ h.latest = hist.latest
        /\ [h EXCEPT !.kept = @ \cup {n}].kept = hist.kept \cup {n}
        /\ [h EXCEPT !.kept = @ \cup {n}].silent = hist.silent
        /\ [h EXCEPT !.kept = @ \cup {n}].latest = hist.latest
  BY <1>1 DEF Hists
<1>3. LET h == [hist EXCEPT !.silent = @ \cup {n}] IN
        h.kept = hist.kept /\ h.silent = hist.silent \cup {n} /\ h.latest = hist.latest
  BY <1>1 DEF Hists
<1>4. LET h == [hist EXCEPT !.latest[Subject] = n] IN
        h.kept = hist.kept /\ h.silent = hist.silent
  BY <1>1 DEF Hists
<1>5. CASE UNCHANGED hist
  BY <1>5
<1>6. CASE /\ run.at # "none" /\ run' = NoCall
           /\ \E h \in {hist, [hist EXCEPT !.spared = @ \cup {n}]} :
                hist' \in {h, [h EXCEPT !.kept = @ \cup {n}]}
  BY <1>2, <1>6
<1>7. CASE hist' = [hist EXCEPT !.silent = @ \cup {n}]
  BY <1>3, <1>7
<1>8. CASE hist' = [hist EXCEPT !.spared = @ \cup {n}]
  BY <1>2, <1>8
<1>9. CASE run.at \in {"remove root", "remove publisher"} /\
             hist' = [hist EXCEPT !.latest[Subject] = n]
  BY <1>4, <1>9
<1>. QED
  BY <1>5, <1>6, <1>7, <1>8, <1>9, HistSteps

\* Only a call that has signed the catalog promises anything of it.
LEMMA KeptSteps ==
  ASSUME PrepTypeInv, Proceed
  PROVE  \/ hist'.kept = hist.kept
         \/ /\ run.at \in {"delete key", "again"} /\ run.signed /\ run' = NoCall
            /\ UNCHANGED disk /\ hist'.kept = hist.kept \cup {n}
            /\ UNCHANGED stores \/ run.at = "again"
<1>1. hist \in Hists /\ [hist EXCEPT !.spared = @ \cup {n}].kept = hist.kept
      /\ [hist EXCEPT !.silent = @ \cup {n}].kept = hist.kept
      /\ [hist EXCEPT !.latest[Subject] = n].kept = hist.kept
  BY DEF PrepTypeInv, TypeOK, Hists
<1>. DEFINE spares == [hist EXCEPT !.spared = @ \cup {n}]
<1>2. \A h \in {hist, spares} :
        /\ SucceedWith(h) => run' = NoCall /\ hist'.kept \in {hist.kept, hist.kept \cup {n}}
        /\ FailWith(h) => hist'.kept = hist.kept
  <2>. SUFFICES ASSUME NEW h \in {hist, spares}
                PROVE  /\ SucceedWith(h) => /\ run' = NoCall
                                            /\ hist'.kept \in {hist.kept, hist.kept \cup {n}}
                       /\ FailWith(h) => hist'.kept = hist.kept
    OBVIOUS
  <2>1. h.kept = hist.kept /\ [h EXCEPT !.kept = @ \cup {n}].kept = hist.kept \cup {n}
    BY <1>1 DEF Hists
  <2>. QED
    BY <2>1 DEF SucceedWith, FailWith, Return
<1>3. CASE Refuse \/ Check \/ Choose \/ SignFile \/ AddOwn \/ MakeCertificate \/ GenerateKey
  BY <1>2, <1>3 DEF Refuse, Check, Choose, SignFile, AddOwn, AddCert, MakeCertificate,
     GenerateKey, SignReturns
<1>4. CASE Extract
  BY <1>1, <1>4 DEF Extract, Succeed, SucceedWith, Silently
<1>5. CASE WriteInf
  BY <1>1, <1>5 DEF WriteInf, Silently
<1>6. CASE NoCat
  BY <1>6 DEF NoCat, Succeed, SucceedWith
<1>7. CASE CreateCat
  <2>1. CASE CatMade
    BY <2>1 DEF CatMade, Sign, Succeed, SucceedWith
  <2>2. CASE HashMissed
    BY <1>1, <2>2 DEF HashMissed, Succeed, SucceedWith, Silently
  <2>3. CASE ListMissing \/ CatFails
    BY <1>2, <2>3 DEF ListMissing, CatFails
  <2>. QED
    BY <1>7, <2>1, <2>2, <2>3 DEF CreateCat
<1>8. CASE RemoveOld
  BY <1>1, <1>8 DEF RemoveOld, RemoveCert
<1>9. CASE DeleteKey
  <2>1. run.at = "delete key" /\ UNCHANGED <<disk, stores>>
    BY <1>9 DEF DeleteKey, At, files
  <2>2. CASE hist' = hist \/ hist' = spares
    BY <1>1, <2>2
  <2>3. CASE SignReturns(run.signed, spares)
    BY <1>2, <2>1, <2>3 DEF SignReturns
  <2>. QED
    BY <1>9, <2>2, <2>3 DEF DeleteKey
<1>10. CASE AddAgain
  <2>1. run.at = "again" /\ UNCHANGED disk /\ SignReturns(run.signed, hist)
    BY <1>10 DEF AddAgain, At, files
  <2>. QED
    BY <1>2, <2>1 DEF SignReturns
<1>. QED
  BY <1>3, <1>4, <1>5, <1>6, <1>7, <1>8, <1>9, <1>10 DEF Proceed, Signs

\* The stores lose certificates of the subject of the call only, and only at two steps.
LEMMA StoresLose ==
  ASSUME PrepTypeInv, [Next]_vars, NEW s \in StoreNames, NEW c \in stores[s], c \notin stores'[s]
  PROVE  /\ run.at \in {"remove root", "remove publisher"} /\ c.subject = Subject
         /\ hist' = [hist EXCEPT !.latest[Subject] = n]
<1>1. stores \in [StoreNames -> SUBSET (Certs \cup {Vendor})] /\ "TrustedPublisher" \in StoreNames
  BY DEF PrepTypeInv, TypeOK, StoreNames
<1>2. stores' # stores
  OBVIOUS
<1>3. stores' # [stores EXCEPT !["TrustedPublisher"] = @ \cup {Vendor}]
  BY <1>1
<1>4. \A t \in StoreNames : ~Add(t)
  BY <1>1 DEF Add
<1>5. stores' # [t \in StoreNames |-> stores[t] \cup {Own}]
  OBVIOUS
<1>6. \A t \in StoreNames : \A some \in SUBSET OfSubject(t) :
        stores' = [stores EXCEPT ![t] = @ \ some] => t = s /\ c \in some
  BY <1>1
<1>7. /\ run.at \in {"remove root", "remove publisher"}
      /\ \E t \in StoreNames : \E some \in SUBSET OfSubject(t) :
           stores' = [stores EXCEPT ![t] = @ \ some]
      /\ hist' = [hist EXCEPT !.latest[Subject] = n]
  BY <1>2, <1>3, <1>4, <1>5, TrustSteps
<1>. QED
  BY <1>6, <1>7 DEF OfSubject

\* What was promised stays true until a call is about to sign for the same subject.
LEMMA PromisesKept ==
  ASSUME PrepTypeInv, PackageInv, [Next]_vars, hist'.kept = hist.kept
  PROVE  PackageTrusted'
<1>. SUFFICES ASSUME NEW f \in Names, disk'[f].inf.n \in hist.kept
              PROVE  LET i == disk'[f].inf.n
                         c == disk'[f].cat IN
                     /\ c.n = i /\ c.signer.n = i
                     /\ i \notin hist'.silent => disk'[f].inf.whole /\ c.covers
                     /\ hist'.latest[c.signer.subject] = i =>
                          \A s \in StoreNames : c.signer \in stores'[s]
  BY DEF PackageTrusted
<1>. DEFINE i == disk[f].inf.n
            c == disk[f].cat
<1>1. PackageTrusted /\ Earlier
  BY DEF PackageInv
<1>2. disk \in [Names -> [inf : {NoFile} \cup Infs, cat : {NoFile} \cup Cats]] /\ hist \in Hists
  BY DEF PrepTypeInv, TypeOK, Hists
<1>3. disk'[f] = disk[f]
  <2>1. CASE UNCHANGED disk
    BY <2>1
  <2>2. ASSUME run.at = "inf", NEW b \in BOOLEAN,
               disk' = [disk EXCEPT ![run.o.name].inf = Inf(b)]
        PROVE  disk'[f] = disk[f]
    <3>1. run # NoCall /\ run.o.name \in Names /\ Inf(b).n = n
      BY <2>2, CallTyped, Made
    <3>2. f = run.o.name => disk'[f].inf.n = n
      BY <1>2, <2>2, <3>1
    <3>. QED
      BY <1>1, <1>2, <2>2, <3>1, <3>2 DEF Earlier
  <2>3. CASE /\ run.at \in {"cat", "sign"}
             /\ \A g \in Names : disk'[g].inf = disk[g].inf
             /\ \A g \in Names : g # run.o.name => disk'[g] = disk[g]
    <3>1. run # NoCall /\ run.o.name \in Names
      BY <2>3, CallTyped
    <3>2. disk[run.o.name].inf.n = n
      BY <2>3 DEF PrepTypeInv, Located, Signing, Exposed
    <3>. QED
      BY <1>1, <2>3, <3>1, <3>2 DEF Earlier
  <2>4. ASSUME NEW b \in BOOLEAN,
               disk' = [disk EXCEPT ![run.o.name].cat = [n |-> n, covers |-> b, signer |-> NoFile]]
        PROVE  /\ \A g \in Names : disk'[g].inf = disk[g].inf
               /\ \A g \in Names : g # run.o.name => disk'[g] = disk[g]
    BY <1>2, <2>4
  <2>5. ASSUME disk' = [disk EXCEPT ![run.o.name].cat.signer = Own]
        PROVE  /\ \A g \in Names : disk'[g].inf = disk[g].inf
               /\ \A g \in Names : g # run.o.name => disk'[g] = disk[g]
    BY <1>2, <2>5
  <2>. QED
    BY <2>1, <2>2, <2>3, <2>4, <2>5, DiskSteps DEF At
<1>4. /\ i \in hist.kept /\ c.n = i /\ c.signer.n = i
      /\ i \notin hist.silent => disk[f].inf.whole /\ c.covers
      /\ hist.latest[c.signer.subject] = i => \A s \in StoreNames : c.signer \in stores[s]
  BY <1>1, <1>3 DEF PackageTrusted
<1>5. hist.silent \subseteq hist'.silent
  BY HistParts
<1>6. c.signer.subject \in Subjects
  <2>1. i # 0
    BY <1>2, <1>4, PrepareAssumption DEF Hists
  <2>2. c \in Cats
    BY <1>2, <1>4, <2>1 DEF NoFile
  <2>3. c.signer \in Certs
    BY <1>4, <2>1, <2>2 DEF Cats, NoFile
  <2>. QED
    BY <2>3 DEF Certs
<1>7. hist'.latest[c.signer.subject] = i =>
        /\ hist.latest[c.signer.subject] = i
        /\ run.at \in {"remove root", "remove publisher"} =>
             hist' # [hist EXCEPT !.latest[Subject] = n] \/ c.signer.subject # Subject
  <2>1. CASE hist' = [hist EXCEPT !.latest[Subject] = n] /\
               run.at \in {"remove root", "remove publisher"}
    <3>1. i # n /\ Subject \in Subjects
      BY <1>1, <1>4, <2>1, CallTyped DEF Earlier
    <3>2. hist'.latest = [hist.latest EXCEPT ![Subject] = n]
      BY <1>2, <2>1 DEF Hists
    <3>3. hist'.latest[Subject] = n
      BY <1>2, <3>1, <3>2 DEF Hists
    <3>4. c.signer.subject # Subject =>
            hist'.latest[c.signer.subject] = hist.latest[c.signer.subject]
      BY <1>2, <1>6, <3>2 DEF Hists
    <3>. QED
      BY <3>1, <3>3, <3>4
  <2>2. CASE hist'.latest = hist.latest
    BY <2>2, <1>1, <1>4, <2>1
  <2>. QED
    BY <2>1, <2>2, HistParts
<1>8. hist'.latest[c.signer.subject] = i => \A s \in StoreNames : c.signer \in stores'[s]
  BY <1>4, <1>7, StoresLose
<1>. QED
  BY <1>3, <1>4, <1>5, <1>8

\* The call in progress is later than all that was promised, and has one inf.
LEMMA EarlierStep == PrepTypeInv /\ PackageInv /\ [Next]_vars => Earlier'
<1>. SUFFICES ASSUME PrepTypeInv, PackageInv, [Next]_vars PROVE Earlier'
  OBVIOUS
<1>1. Earlier /\ n \in Nat /\ hist \in Hists /\ Calls \in Nat
  BY PrepareAssumption DEF PackageInv, PrepTypeInv, TypeOK, Hists
<1>2. disk \in [Names -> [inf : {NoFile} \cup Infs, cat : {NoFile} \cup Cats]]
  BY DEF PrepTypeInv, TypeOK
<1>3. /\ \A f \in Names : disk[f].inf.n \in Int
      /\ \A i \in hist.kept : i \in Int
  BY <1>1, <1>2 DEF Infs, NoFile, Hists
<1>4. ASSUME NEW p \in Procs, NEW o \in Options, Begin(p, o)
      PROVE  Earlier'
  <2>1. n' = n + 1 /\ UNCHANGED <<disk, hist>>
    BY <1>4 DEF Begin, files
  <2>2. \A i \in Int : i <= n => i <= n + 1 /\ i # n + 1
    BY <1>1
  <2>. QED
    BY <1>1, <1>3, <2>1, <2>2 DEF Earlier
<1>5. CASE Proceed
  <2>1. /\ n' = n /\ run # NoCall /\ run.o.name \in Names /\ run.at # "none"
        /\ run' # NoCall => run'.o = run.o
    BY <1>5, ProceedRun, CallTyped, CallSteps
  <2>2. \A f \in Names : \/ disk'[f].inf = disk[f].inf
                         \/ f = run.o.name /\ disk'[f].inf.n = n
    <3>1. CASE UNCHANGED disk
      BY <3>1
    <3>2. ASSUME NEW b \in BOOLEAN, disk' = [disk EXCEPT ![run.o.name].inf = Inf(b)]
          PROVE  \A f \in Names : \/ disk'[f].inf = disk[f].inf
                                  \/ f = run.o.name /\ disk'[f].inf.n = n
      <4>1. Inf(b).n = n
        BY <2>1, Made
      <4>. QED
        BY <1>2, <3>2, <4>1
    <3>3. ASSUME NEW b \in BOOLEAN,
                 disk' = [disk EXCEPT ![run.o.name].cat =
                           [n |-> n, covers |-> b, signer |-> NoFile]]
          PROVE  \A f \in Names : disk'[f].inf = disk[f].inf
      BY <1>2, <3>3
    <3>4. ASSUME disk' = [disk EXCEPT ![run.o.name].cat.signer = Own]
          PROVE  \A f \in Names : disk'[f].inf = disk[f].inf
      BY <1>2, <3>4
    <3>. QED
      BY <3>1, <3>2, <3>3, <3>4, DiskSteps
  <2>3. n <= n
    BY <1>1
  <2>4. \A i \in hist'.kept : i <= n /\ (run' # NoCall => i # n)
    <3>1. CASE hist'.kept = hist.kept
      BY <1>1, <2>1, <3>1 DEF Earlier
    <3>2. CASE run' = NoCall /\ hist'.kept = hist.kept \cup {n}
      BY <1>1, <2>3, <3>2 DEF Earlier
    <3>. QED
      BY <3>1, <3>2, HistParts
  <2>5. \A f \in Names : disk'[f].inf.n <= n
    BY <1>1, <2>2, <2>3 DEF Earlier
  <2>6. \A f \in Names : run' # NoCall /\ disk'[f].inf.n = n => f = run'.o.name
    BY <1>1, <2>1, <2>2 DEF Earlier
  <2>. QED
    BY <2>1, <2>4, <2>5, <2>6 DEF Earlier
<1>6. CASE ~Proceed /\ ~\E p \in Procs, o \in Options : Begin(p, o)
  <2>1. n' = n /\ disk' = disk
    BY <1>6, Besides
  <2>2. run' # NoCall => run # NoCall /\ run'.o = run.o
    <3>1. run # NoCall => run \in Runs
      BY DEF PrepTypeInv, TypeOK, Runs
    <3>2. run \in Runs => [run EXCEPT !.disturbed = TRUE].o = run.o
      BY DEF Runs
    <3>3. run' \in {run, NoCall} \/ (run # NoCall /\ run' = [run EXCEPT !.disturbed = TRUE])
      BY <1>6, Besides
    <3>4. run' # NoCall => run # NoCall
      BY <1>6, Besides
    <3>. QED
      BY <3>1, <3>2, <3>3, <3>4
  <2>3. hist'.kept = hist.kept
    <3>1. [hist EXCEPT !.spared = @ \cup {n}].kept = hist.kept
      BY <1>1 DEF Hists
    <3>. QED
      BY <1>6, <3>1, Besides
  <2>. QED
    BY <1>1, <2>1, <2>2, <2>3 DEF Earlier
<1>. QED
  BY <1>4, <1>5, <1>6

\* A step of the call in progress that leaves a file incomplete is remembered.
LEMMA CompleteStep ==
  ASSUME PrepTypeInv, PackageInv, [Next]_vars, Proceed, run' # NoCall
  PROVE  Complete'
<1>1. Complete
  BY DEF PackageInv
<1>2. disk \in [Names -> [inf : {NoFile} \cup Infs, cat : {NoFile} \cup Cats]] /\ hist \in Hists
  BY DEF PrepTypeInv, TypeOK, Hists
<1>3. /\ n' = n /\ run # NoCall /\ run'.o = run.o /\ run.o.name \in Names /\ run.at # "none"
      /\ <<run.at, run'.at>> \in Moves
  BY ProceedRun, CallTyped, CallSteps
<1>4. hist.silent \subseteq hist'.silent
  BY HistParts
<1>5. Silently => n \in hist'.silent
  BY <1>2 DEF Silently, Hists
<1>6. /\ WriteInf \/ run.at # "inf"
      /\ CreateCat \/ NoCat \/ run.at # "cat"
  BY DEF Proceed, Refuse, Check, Choose, Extract, WriteInf, NoCat, CreateCat, Signs, RemoveOld,
     RemoveCert, GenerateKey, MakeCertificate, AddOwn, AddCert, SignFile, DeleteKey, AddAgain, At
<1>7. CASE run.at = "inf"
  <2>1. run'.at = "cat" /\ "cat" \notin Signing
    BY <1>3, <1>7 DEF Moves, Signing, Exposed
  <2>2. PutInf(TRUE) \/ n \in hist'.silent
    BY <1>5, <1>6, <1>7 DEF WriteInf, Return
  <2>3. PutInf(TRUE) => disk'[run.o.name].inf.whole
    BY <1>2, <1>3, Made, ZenonT(60) DEF PutInf
  <2>. QED
    BY <1>3, <2>1, <2>2, <2>3 DEF Complete
<1>8. CASE run.at = "cat"
  <2>1. CreateCat /\ (CatMade \/ HashMissed)
    BY <1>6, <1>8 DEF NoCat, Succeed, SucceedWith, Return, CreateCat, ListMissing, CatFails, FailWith
  <2>2. PutCat(TRUE) \/ (n \in hist'.silent /\ PutCat(FALSE))
    BY <1>5, <2>1 DEF CatMade, HashMissed, Succeed, SucceedWith, Return
  <2>3. \A b \in BOOLEAN : PutCat(b) => disk'[run.o.name].inf = disk[run.o.name].inf
    BY <1>2, <1>3 DEF PutCat
  <2>4. PutCat(TRUE) => disk'[run.o.name].cat.covers
    BY <1>2, <1>3 DEF PutCat
  <2>. QED
    BY <1>1, <1>3, <1>4, <1>8, <2>2, <2>3, <2>4 DEF Complete
<1>9. CASE run.at \in Signing
  <2>1. run.at \notin {"inf", "cat"}
    BY <1>9 DEF Signing, Exposed
  <2>2. /\ disk'[run.o.name].inf = disk[run.o.name].inf
        /\ disk'[run.o.name].cat.covers = disk[run.o.name].cat.covers
    <3>1. CASE UNCHANGED disk
      BY <3>1
    <3>2. CASE disk' = [disk EXCEPT ![run.o.name].cat.signer = Own]
      <4>1. disk[run.o.name].cat \in Cats
        <5>1. disk[run.o.name].cat.n = n /\ n # 0
          BY <1>3, <1>9, CallTyped DEF PrepTypeInv, Located
        <5>. QED
          BY <1>2, <1>3, <5>1 DEF NoFile
      <4>2. disk'[run.o.name] = [disk[run.o.name] EXCEPT !.cat.signer = Own]
        BY <1>2, <1>3, <3>2
      <4>. QED
        BY <1>2, <1>3, <4>1, <4>2 DEF Cats
    <3>. QED
      BY <2>1, <3>1, <3>2, DiskSteps DEF At
  <2>. QED
    BY <1>1, <1>3, <1>4, <1>9, <2>2 DEF Complete
<1>10. CASE run.at \notin {"inf", "cat"} \cup Signing
  <2>1. run'.at \notin {"cat"} \cup Signing
    BY <1>3, <1>10 DEF Moves, Signing, Exposed
  <2>. QED
    BY <2>1 DEF Complete
<1>. QED
  BY <1>7, <1>8, <1>9, <1>10

\* The certificate gets into the stores, and signs, before the call calls itself signed.
LEMMA TrustedStep ==
  ASSUME PrepTypeInv, PackageInv, Proceed, run' # NoCall
  PROVE  Trusted'
<1>. DEFINE Rooted == run.at \in {"add publisher", "sign"} => Own \in stores["Root"]
            Published == run.at = "sign" => Own \in stores["TrustedPublisher"]
            Signed == run.at \in {"delete key", "again"} /\ run.signed =>
                        /\ disk[run.o.name].cat.signer = Own
                        /\ \A s \in StoreNames : Own \in stores[s]
            Unsigned == run.at \in Steps \ {"delete key", "again"} => ~run.signed
<1>1. Rooted /\ Published /\ Signed /\ Unsigned
  BY DEF PackageInv, Trusted, At
<1>2. /\ disk \in [Names -> [inf : {NoFile} \cup Infs, cat : {NoFile} \cup Cats]]
      /\ stores \in [StoreNames -> SUBSET (Certs \cup {Vendor})]
      /\ "Root" \in StoreNames /\ "TrustedPublisher" \in StoreNames
      /\ \A s \in StoreNames : s = "Root" \/ s = "TrustedPublisher"
  BY DEF PrepTypeInv, TypeOK, StoreNames
<1>3. /\ n' = n /\ run # NoCall /\ run'.o = run.o /\ run.o.name \in Names /\ run.at # "none"
      /\ run \in Runs /\ <<run.at, run'.at>> \in Moves
      /\ run.at \in {"version", "type"} \/ run'.type = run.type
      /\ run.at = "sign" \/ run'.signed = run.signed
  BY ProceedRun, CallTyped, CallSteps
<1>4. run.at \notin {"version", "type"} => Own' = Own
  BY <1>3 DEF Own, Subject
<1>5. \A step : Go(step) => run'.at = step /\ run'.signed = run.signed
  BY <1>3 DEF Go, Runs
<1>6. /\ run.at \in {"add root", "add publisher"} => AddOwn
      /\ run.at = "sign" => SignFile
  BY DEF Proceed, Refuse, Check, Choose, Extract, WriteInf, NoCat, CreateCat, Signs, RemoveOld,
     RemoveCert, GenerateKey, MakeCertificate, AddOwn, AddCert, SignFile, DeleteKey, AddAgain, At
<1>7. CASE run.at = "add root"
  <2>1. ~run'.signed
    BY <1>1, <1>3, <1>7 DEF Steps, Exposed
  <2>2. run'.at = "delete key" \/ (run'.at = "add publisher" /\ Own \in stores'["Root"])
    BY <1>2, <1>5, <1>6, <1>7 DEF AddOwn, AddCert, At, Add
  <2>. QED
    BY <1>4, <1>7, <2>1, <2>2 DEF Trusted, At
<1>8. CASE run.at = "add publisher"
  <2>1. ~run'.signed
    BY <1>1, <1>3, <1>8 DEF Steps, Exposed
  <2>2. \/ run'.at = "delete key"
        \/ /\ run'.at = "sign" /\ Own \in stores'["TrustedPublisher"]
           /\ stores'["Root"] = stores["Root"]
    BY <1>2, <1>5, <1>6, <1>8 DEF AddOwn, AddCert, At, Add
  <2>. QED
    BY <1>1, <1>4, <1>8, <2>1, <2>2 DEF Trusted, At
<1>9. CASE run.at = "sign"
  <2>1. run'.at = "delete key" /\ ~run.signed
    BY <1>1, <1>3, <1>9 DEF Moves, Steps, Exposed
  <2>2. stores' = stores /\ (~run'.signed \/ disk' = [disk EXCEPT ![run.o.name].cat.signer = Own])
    BY <1>5, <1>6, <1>9, <2>1 DEF SignFile, trust
  <2>3. disk' = [disk EXCEPT ![run.o.name].cat.signer = Own] =>
          disk'[run.o.name].cat.signer = Own
    <3>1. disk[run.o.name].cat \in Cats
      <4>1. disk[run.o.name].cat.n = n /\ n # 0
        BY <1>3, <1>9, CallTyped DEF PrepTypeInv, Located, Signing, Exposed
      <4>. QED
        BY <1>2, <1>3, <4>1 DEF NoFile
    <3>2. disk' = [disk EXCEPT ![run.o.name].cat.signer = Own] =>
            disk'[run.o.name] = [disk[run.o.name] EXCEPT !.cat.signer = Own]
      BY <1>2, <1>3
    <3>. QED
      BY <1>2, <1>3, <3>1, <3>2 DEF Cats
  <2>4. \A s \in StoreNames : Own \in stores[s]
    BY <1>1, <1>2, <1>9
  <2>. QED
    BY <1>3, <1>4, <1>9, <2>1, <2>2, <2>3, <2>4 DEF Trusted, At
<1>10. CASE run.at \in {"delete key", "again"}
  <2>1. run'.at = "again" /\ run.at = "delete key" /\ run'.signed = run.signed
    BY <1>3, <1>10 DEF Moves
  <2>2. stores' = stores /\ disk' = disk
    BY <2>1, ProceedFrame DEF RemoveOld, RemoveCert, AddOwn, AddCert, AddAgain, WriteInf,
       CreateCat, SignFile, At
  <2>. QED
    BY <1>1, <1>3, <1>4, <2>1, <2>2 DEF Trusted, At
<1>11. CASE run.at \notin {"add root", "add publisher", "sign", "delete key", "again"}
  <2>1. run'.at \notin {"add publisher", "sign", "delete key", "again"}
    BY <1>3, <1>11 DEF Moves
  <2>2. ~run'.signed
    <3>1. run.at \in Steps
      BY <1>3 DEF Runs
    <3>. QED
      BY <1>1, <1>3, <1>11, <3>1
  <2>. QED
    BY <2>1, <2>2 DEF Trusted, At
<1>. QED
  BY <1>7, <1>8, <1>9, <1>10, <1>11

\* A call that promises a package leaves it as it promises.
LEMMA PromiseMade ==
  ASSUME PrepTypeInv, PackageInv, [Next]_vars, Proceed,
         run.at \in {"delete key", "again"}, run.signed, UNCHANGED disk, hist'.kept = hist.kept \cup {n}, UNCHANGED stores \/ run.at = "again"
  PROVE  PackageTrusted'
<1>. SUFFICES ASSUME NEW f \in Names, disk[f].inf.n \in hist.kept \cup {n}
              PROVE  LET i == disk[f].inf.n
                         c == disk[f].cat IN
                     /\ c.n = i /\ c.signer.n = i
                     /\ i \notin hist'.silent => disk[f].inf.whole /\ c.covers
                     /\ hist'.latest[c.signer.subject] = i =>
                          \A s \in StoreNames : c.signer \in stores'[s]
  BY DEF PackageTrusted
<1>1. PackageTrusted /\ Earlier /\ Complete /\ Trusted
  BY DEF PackageInv
<1>2. \A s \in StoreNames : stores[s] \subseteq stores'[s]
  BY StoresLose
<1>3. hist.silent \subseteq hist'.silent /\ hist'.latest = hist.latest
  BY HistParts
<1>4. CASE disk[f].inf.n \in hist.kept
  BY <1>1, <1>2, <1>3, <1>4 DEF PackageTrusted
<1>5. CASE disk[f].inf.n = n
  <2>1. run # NoCall /\ run.at \in Signing /\ Own.n = n
    BY CallTyped DEF Signing, Exposed
  <2>2. f = run.o.name
    BY <1>1, <1>5, <2>1 DEF Earlier
  <2>3. disk[f].cat.n = n
    BY <2>1, <2>2 DEF PrepTypeInv, Located
  <2>4. disk[f].cat.signer = Own /\ \A s \in StoreNames : Own \in stores[s]
    BY <1>1, <2>2 DEF Trusted
  <2>5. n \in hist.silent \/ (disk[f].inf.whole /\ disk[f].cat.covers)
    BY <1>1, <2>1, <2>2 DEF Complete
  <2>. QED
    BY <1>2, <1>3, <1>5, <2>1, <2>3, <2>4, <2>5
<1>. QED
  BY <1>4, <1>5

\* Every step keeps what was promised, and what is going to be.
LEMMA PackageStep == PrepTypeInv /\ PackageInv /\ [Next]_vars => PackageInv'
<1>. SUFFICES ASSUME PrepTypeInv, PackageInv, [Next]_vars PROVE PackageInv'
  OBVIOUS
<1>1. Complete /\ Trusted /\ hist \in Hists
  BY DEF PackageInv, PrepTypeInv, TypeOK, Hists
<1>2. run' = NoCall => Complete' /\ Trusted'
  BY DEF Complete, Trusted, NoCall, Signing, Exposed, Steps, At
<1>3. CASE Proceed
  <2>1. PackageTrusted'
    BY <1>3, PromisesKept, PromiseMade, KeptSteps
  <2>2. Complete' /\ Trusted'
    BY <1>2, <1>3, CompleteStep, TrustedStep
  <2>. QED
    BY <2>1, <2>2, EarlierStep DEF PackageInv
<1>4. CASE ~Proceed
  <2>1. hist'.kept = hist.kept
    <3>1. [hist EXCEPT !.spared = @ \cup {n}].kept = hist.kept
      BY <1>1 DEF Hists
    <3>2. (\E p \in Procs, o \in Options : Begin(p, o)) => hist' = hist
      BY DEF Begin
    <3>3. hist' = hist \/ hist' = [hist EXCEPT !.spared = @ \cup {n}]
      BY <1>4, <3>2, Besides
    <3>. QED
      BY <3>1, <3>3
  <2>2. CASE \E p \in Procs, o \in Options : Begin(p, o)
    <3>1. run'.at = "check" /\ ~run'.signed
      BY <2>2 DEF Begin
    <3>2. Complete' /\ Trusted'
      BY <3>1 DEF Complete, Trusted, Signing, Exposed, At
    <3>. QED
      BY <2>1, <3>2, PromisesKept, EarlierStep DEF PackageInv
  <2>3. CASE run' # NoCall /\ ~\E p \in Procs, o \in Options : Begin(p, o)
    <3>1. run' = run \/ (run # NoCall /\ run' = [run EXCEPT !.disturbed = TRUE])
      BY <1>4, <2>3, Besides
    <3>2. run # NoCall /\ hist' = hist /\ n' = n /\ disk' = disk
      BY <1>4, <2>3, Besides
    <3>3. run \in Runs
      BY <3>2 DEF PrepTypeInv, TypeOK, Runs
    <3>4. /\ run'.at = run.at /\ run'.o = run.o /\ run'.type = run.type
          /\ run'.signed = run.signed
      BY <3>1, <3>3 DEF Runs
    <3>5. Own' = Own
      BY <3>2, <3>4 DEF Own, Subject
    <3>6. \A s \in StoreNames : stores[s] \subseteq stores'[s]
      <4>1. stores \in [StoreNames -> SUBSET (Certs \cup {Vendor})]
        BY DEF PrepTypeInv, TypeOK
      <4>. QED
        BY <1>4, <2>3, <4>1, Besides
    <3>7. "Root" \in StoreNames /\ "TrustedPublisher" \in StoreNames
      BY DEF StoreNames
    <3>8. Complete'
      BY <1>1, <3>2, <3>4 DEF Complete
    <3>9. Trusted'
      BY <1>1, <3>2, <3>4, <3>5, <3>6, <3>7 DEF Trusted, At
    <3>. QED
      BY <2>1, <3>8, <3>9, PromisesKept, EarlierStep DEF PackageInv
  <2>. QED
    BY <1>2, <2>1, <2>2, <2>3, PromisesKept, EarlierStep DEF PackageInv
<1>. QED
  BY <1>3, <1>4

\* What wdi_prepare_driver promises where Windows asks for a signature: whatever other calls,
\* of any process, do before they sign for the same subject, the package stays as it was.
THEOREM PackageStaysTrusted == Spec => []PackageTrusted
<1>1. Init => PackageInv
  <2>. SUFFICES ASSUME Init PROVE PackageInv
    OBVIOUS
  <2>1. run = NoCall /\ hist.kept = {} /\ n = 0 /\ \A f \in Names : disk[f].inf.n = 0
    BY DEF Init, NoFile
  <2>2. PackageTrusted /\ Earlier
    BY <2>1 DEF PackageTrusted, Earlier
  <2>3. Complete /\ Trusted
    BY <2>1 DEF Complete, Trusted, NoCall, Signing, Exposed, Steps, At
  <2>. QED
    BY <2>2, <2>3 DEF PackageInv
<1>2. PackageInv => PackageTrusted
  BY DEF PackageInv
<1>. QED
  BY <1>1, <1>2, PrepTypeInit, PrepTypeStep, PackageStep, PTL DEF Spec
=============================================================================
