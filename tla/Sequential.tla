------------------------------ MODULE Sequential ------------------------------
(* The sequential algorithms of libwdi and of its applications, each with what   *)
(* is made of its input: infs and their tokens, settings, versions, devices,     *)
(* what Windows tells of itself and of an installation, and the files an         *)
(* application carries.                                                          *)
EXTENDS Tokenizer, UpdateFile, DeviceList, Platform, Profile, UpdatePolicy, UpdateSearch, Embedder, MainWindow

CONSTANT Jobs  \* the inputs, see the kinds below

VARIABLES
  job,   \* the input
  done,  \* whether it was worked on
  made   \* what came of it
jobvars == <<job, done, made>>

\* An application and a system of another architecture that Windows runs it on by emulation.
Emulated == {<<"x86", "arm64">>, <<"x64", "arm64">>}

\* The applications that run, by their architecture and by that of the system.
Runs == {<<a, a>> : a \in {"x86", "x64", "arm", "arm64"}} \cup {<<"x86", "x64">>, <<"arm", "arm64">>} \cup Emulated

(* What Windows tells of its version: that of the system, or 6.2 to an application without  *)
(* a manifest, which may ask for the numbers of 6 to 9, or no more than it tells.           *)
Pairs == (0..15) \X (0..15)
Told(real, told, verified) ==
  \/ told = real /\ verified = real
  \/ told = <<6, 2>> /\ verified = real /\ real[1] \in 6..9 /\ real[2] \in 0..9 /\ Less(<<6, 2>>, real)
  \/ told \in {<<6, 2>>, <<6, 3>>} /\ verified = told /\ Less(told, real)

NoJob == [kind |-> "none"]

(* The inputs that there are.  Of the settings, the ini files and the presets, and of the *)
(* errors of an installation, nothing more is said.                                       *)
IsJob(j) ==
  /\ j.kind \in {"resource", "file"} => j.src \in Seq(Character)
  /\ j.kind = "quoted" => j.text \in Seq(STRING) /\ j.after \in Seq(STRING)
  /\ j.kind = "version" => j.fields \in Seq(0..(Wide - 1))
  /\ j.kind = "drivers" => {j.a, j.b} \subseteq Seq(Fields)
  /\ j.kind \in {"list", "simple"} => j.devices \in Seq(DeviceType)
  /\ j.kind = "simple" => /\ j.prepared \in BOOLEAN /\ j.results \in Seq(BOOLEAN)
                          /\ Len(j.devices) <= Len(j.results)
  /\ j.kind = "windows" => /\ {j.real, j.told, j.verified} \subseteq Pairs /\ j.build \in Nat
                           /\ Told(j.real, j.told, j.verified)
  /\ j.kind = "arch" => <<j.app, j.native>> \in Runs /\ j.asks \in BOOLEAN
  /\ j.kind = "policy" => /\ IsRegistry(j.reg) /\ {j.ticks, j.now} \subseteq Int
                          /\ {j.short, j.allows} \subseteq BOOLEAN /\ j.picked \in Nat \cup {Disabled}
  /\ j.kind = "search" => SearchInput(j)
  /\ j.kind = "embed" => /\ {j.fixed, j.found} \subseteq Seq(FileType) /\ j.at \in Int /\ j.writable \in BOOLEAN
                         /\ j.fixed # <<>> /\ ~j.fixed[1].reuse
  /\ j.kind = "menu" => j.calls \in Seq(Calls) \ {<<>>}
  /\ j.kind = "inf name" => {j.name, j.ext} \subseteq Seq(STRING) /\ ToSet(j.ext) \cap (Unauthorized \cup Blanks) = {}

ASSUME JobsAssumption == (\A j \in Jobs : IsJob(j)) /\ Underscore \notin Unauthorized \cup Blanks

(* Data written into a line in one of the ways the parser documents, between others: *)
(* "[ ]token[ ]=[ ]["]data["][ ]" (zadig_parser.c:41).                               *)
Written(j) ==
  LET s == IF j.spaced THEN <<" ">> ELSE <<>>
      q == IF j.quoted THEN <<"quote">> ELSE <<>> IN
  j.before \o s \o <<"v">> \o s \o <<"=">> \o s \o q \o j.data \o q
    \o (IF j.quoted THEN s ELSE <<>>) \o j.end \o j.after

JobInit == job \in Jobs /\ done = FALSE /\ made = <<>>

\* An inf among the resources, and an external one.
TokenizeResource == job.kind = "resource" /\ made' = TokenizeString(job.src).text
TokenizeExternal == job.kind = "file" /\ made' = TokenizeFile(job.src).text
\* The data of a token, and the version of an update.
ReadSetting == job.kind = "setting" /\ made' = TokenDataBuffer(Written(job))
ReadVersion == job.kind = "version" /\ made' = ParseVersion(job.fields)
\* The devices, what wdi-simple installs on them, and the versions of two drivers.
ListDevices == job.kind = "list" /\ made' = CreateList(job.devices, job.o)
RunSimple   == job.kind = "simple" /\ made' = Simple(job.prepared, CreateList(job.devices, job.o),
                                                     job.dev, job.results)
PackTwo     == job.kind = "drivers" /\ made' = <<PackVersion(job.a), PackVersion(job.b)>>
\* The version of Windows, its architecture, the devices that are not plugged in.
DetectVersion == job.kind = "windows" /\ made' = GetWindowsVersion(job.told, job.verified, job.build)
DetectArch    == job.kind = "arch" /\ made' = GetPlatformArch(job.native, job.app, job.asks)
\* What the installer comes to, and does for devices that are not plugged in.
FinishInstall == job.kind = "install" /\ made' = InstallDriver(job.update, job.copy, job.known)
\* An ini file and what is looked up in it, a quoted text, the settings, two presets in turn.
ReadProfile == job.kind = "profile" /\
  made' = [error |-> ParseFile(job.lines).error,
           values |-> [p \in job.paths |-> GetValue(ParseFile(job.lines).tree, p)]]
ReadQuoted  == job.kind = "quoted" /\ made' = ParseQuoted(Quoted(job.text) \o job.after)
ReadIni     == job.kind = "ini" /\
  LET ini == ParseIni(job.there, job.lines, job.embedded) IN
  made' = [ini EXCEPT !.driver = SetDefaultDriver(@, job.supported)]
OpenPresets == job.kind = "presets" /\
  LET first == ParsePreset(job.first, FALSE, NoFields) IN
  made' = <<first, ParsePreset(job.second, first.creates, first.fields)>>
\* The settings of updates at the start, and whether a check is made on the day.
AskPolicy   == job.kind = "policy" /\
  LET set == SetUpdateCheck(job.reg, job.ticks, job.short, job.allows, job.picked) IN
  made' = [reg |-> set.reg, result |-> set.result, due |-> CheckIsDue(set.reg, job.now)]
\* What a check asks the server and concludes.
SearchServer == job.kind = "search" /\ made' = SearchUpdate(job)
\* The header of the files when the build ran before, and when it runs after changes.
EmbedFiles  == job.kind = "embed" /\
  LET before == Embed(NoHeader, TRUE, job.before, job.at).header IN
  made' = [before |-> before,
           after |-> Embed(before, job.writable, AddUserFiles(job.fixed, job.found), job.at + 2)]
\* The menu after calls, the inf of a device.
ShowFilter == job.kind = "menu" /\ made' = FoldLeft(SetFilterMenu, Menu, job.calls)
NameInf    == job.kind = "inf name" /\ made' = ToValidFilename(job.name, job.ext)

JobNext ==
  /\ ~done /\ done' = TRUE /\ UNCHANGED job
  /\ \/ TokenizeResource \/ TokenizeExternal \/ ReadSetting \/ ReadVersion
     \/ ListDevices \/ RunSimple \/ PackTwo
     \/ DetectVersion \/ DetectArch \/ FinishInstall
     \/ ReadProfile \/ ReadQuoted \/ ReadIni \/ OpenPresets \/ AskPolicy \/ SearchServer \/ EmbedFiles
     \/ ShowFilter \/ NameInf

(* Each token of an inf is replaced and nothing else is changed, lost or added, however *)
(* the buffer grows, but for an external inf with carriage returns, which is refused;   *)
(* a setting is read as it was written, whatever line comes before, braces included as  *)
(* long as none closes too much; a version is read with its four numbers, and two       *)
(* packed ones compare as they do; the list of devices holds the wanted ones, told      *)
(* apart; wdi-simple installs on each that matches, or at least once; a system before   *)
(* Windows 7, and no other, is taken for too old, its version is exact unless Windows   *)
(* hides it, its architecture unless the application is emulated.                       *)
TextIsMeant ==
  CASE job.kind = "resource" -> made = Meant(job.src)
    [] job.kind = "file" -> made = Meant(job.src) \/ (made = <<>> /\ Contains(job.src, "\r"))
    [] job.kind = "setting" -> made = job.data
    [] job.kind = "quoted" -> made = job.text
    [] job.kind = "version" -> \A i \in 1..4 : i \in DOMAIN job.fields => made[i] = job.fields[i]
    [] job.kind = "drivers" -> Len(job.a) = Len(job.b) => (made[1] < made[2] <=> Less(job.a, job.b))
    [] OTHER -> TRUE

SystemIsMeant ==
  CASE job.kind = "list" -> ListIsMeant(made, job.devices, job.o)
    [] job.kind = "simple" -> SimpleIsMeant(made, job.prepared, CreateList(job.devices, job.o),
                                            job.dev, job.results)
    [] job.kind = "windows" ->
         /\ made < Code(<<6, 1>>) <=> Less(job.real, <<6, 1>>)
         /\ job.verified = job.real =>
              made = IF Less(job.real, XP) THEN WINDOWS_UNSUPPORTED
                     ELSE IF job.real = Windows10 /\ job.build >= FirstBuildOf11
                     THEN Code(Windows11) ELSE Code(job.real)
    [] job.kind = "arch" ->
         made # job.native => <<job.app, job.native>> \in Emulated /\ ~job.asks
    [] OTHER -> TRUE

(* An installer that does anything succeeds, one that fails has done nothing; only when *)
(* it succeeds with nothing done are devices flagged, all that are not plugged in and   *)
(* can be, and no other flag is lost.                                                   *)
InstallIsMeant ==
  /\ made.searched => made.result = "WDI_SUCCESS"
  /\ job.update = "none" \/ (job.update = "unidentified" /\ job.copy = "none") => made.searched
  /\ made.result = "WDI_SUCCESS" /\ ~made.searched => job.copy \in Meanings.WDI_SUCCESS
  /\ \A i \in DOMAIN made.flags :
       LET d == job.known[i]
           due == made.result = "WDI_SUCCESS" /\ ~made.searched /\ job.update # "unidentified"
           absent == d.id = "read" /\ ~d.plugged IN
       /\ d.flags \subseteq made.flags[i]
       /\ made.flags[i] # d.flags => absent /\ due
       /\ absent /\ d.readable /\ d.writable /\ due => "reinstall" \in made.flags[i]

(* A file that breaks no rule of its format, and no other, is read, and each value is   *)
(* that of the first relation at its path.  The log level and the driver are in range,  *)
(* as they were set when they can be, and the driver is one that the application has.   *)
(* A preset with a VID, and no other, starts a device with the fields it has; those it  *)
(* has not are still those of the preset before, but for the GUID.                      *)
ProfileIsMeant ==
  CASE job.kind = "profile" ->
         /\ made.error = "" <=> WellFormed(Used(job.lines))
         /\ made.error = "" => \A p \in job.paths : made.values[p] = MeantValue(Used(job.lines), p)
    [] job.kind = "ini" ->
         LET in(text, range) == job.there /\ text \in DOMAIN Strtol /\ Strtol[text] \in range IN
         /\ made.log_level = IF in(job.level, DEBUG..NONE) THEN Strtol[job.level]
                             ELSE IF job.there THEN INFO ELSE DEBUG
         /\ job.supported # {} => made.driver \in job.supported
         /\ in(job.driver, job.supported) => made.driver = Strtol[job.driver]
         /\ made.cert # Nothing => IsFileEmbedded(job.embedded, "", made.cert.text)
         /\ job.there => \A o \in DOMAIN Options :
              job.options[o] \in {"absent"} \cup ConfYes \cup ConfNo => (o \in made.on <=> job.options[o] \in ConfYes)
    [] OTHER ->
         LET has(i, name, most) == LET t == job.given[i][name] IN t \in DOMAIN Strtoul /\ Strtoul[t] <= most
             opened == {i \in 1..2 : has(i, "VID", 65535)}
             field(name, most) ==
               LET i == {k \in opened : has(k, name, most)} IN
               IF i = {} THEN Nothing ELSE Number(Strtoul[job.given[Max(i)][name]]) IN
         /\ made[2].creates <=> opened # {}
         /\ made[2].fields.vid = field("VID", 65535)
         /\ made[2].fields.pid = field("PID", 65535)
         /\ opened # {} => LET g == job.given[Max(opened)].GUID IN
              made[2].fields.guid = IF g = "absent" THEN Nothing ELSE Text(g)

\* All that is made is what is meant, kind by kind.
AsMeant ==
  done =>
    /\ TextIsMeant
    /\ SystemIsMeant
    /\ job.kind = "install" => InstallIsMeant
    /\ job.kind \in {"profile", "ini", "presets"} => ProfileIsMeant
    /\ job.kind = "policy" => PolicyIsMeant(made, job)
    /\ job.kind = "search" => SearchIsMeant(made, job)
    /\ job.kind = "menu" => MenuIsMeant(made, job.calls)
    /\ job.kind = "inf name" => NameIsMeant(made, job.name, job.ext)
    /\ job.kind = "embed" => EmbedIsMeant(made, AddUserFiles(job.fixed, job.found))
=============================================================================
