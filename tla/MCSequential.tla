----------------------------- MODULE MCSequential -----------------------------
(* The sequential algorithms, on every input up to a size, the thread that reads  *)
(* the log of Windows, and the status bar of Zadig: either a job is done, or a    *)
(* log is followed, or the bar is written, by two checks for updates, one asked   *)
(* for during the other, and two downloads, the first of which was aborted.       *)
EXTENDS Sequential, Syslog, StatusBar

MCCharacter == {"#", "A", "B", "x", "1", "2", "3", "4", "\r", "\n"}

Strings(chars, n) == UNION {[1..k -> chars] : k \in 0..n}

\* A replacement that is longer than its token, an empty one, and one like a prefix.
MCEntities == <<[match |-> <<"A">>, replace |-> <<"1", "2", "3", "4">>],
                [match |-> <<"A", "B">>, replace |-> <<>>],
                [match |-> <<"B">>, replace |-> <<"#">>]>>
MCPrefix == <<"#">>
Sources == Strings({"#", "A", "B", "x"}, 6) \ {<<>>}
Files == Strings({"#", "A", "\r", "\n"}, 4) \ {<<>>}

\* Data has no quote, does not begin with a space, and has balanced braces.
Data == {<<"x">>, <<"x", " ", "x">>, <<"=", "x">>, <<"v">>, <<"{", "\r", "\n", "x", "}">>, <<"{", "{", "}", "v", "}">>}
\* Lines that come before: none has the form, and none closes more braces than it opens.
Before == {s \in Strings({"v", "=", "{", "}", "\r", "\n", "x"}, 4) :
             /\ s = <<>> \/ s[Len(s)] \in Eol
             /\ ~\E i \in 1..(Len(s) - 2) : s[i] = "v" /\ s[i + 1] = "=" /\ s[i + 2] \notin Eol
             /\ \A k \in DOMAIN s : Count(s, 1, k + 1, "{") >= Count(s, 1, k + 1, "}")
             /\ Count(s, 1, Len(s) + 1, "{") = Count(s, 1, Len(s) + 1, "}")}
Settings == [kind : {"setting"}, before : Before, after : {<<>>, <<"v", "=", "y">>, <<"}">>},
             spaced : BOOLEAN, quoted : BOOLEAN, data : Data, end : {<<"\n">>, <<"\r", "\n">>}]
Versions == [kind : {"version"}, fields : Strings({0, 3, 65535}, 5)]
Drivers == [kind : {"drivers"}, a : Strings(0..2, 2), b : Strings(0..2, 2)]

Dev(service, vid, mi, named) ==
  [keyed |-> service # "none", service |-> service, vid |-> vid, mi |-> mi, named |-> named, path |-> TRUE]
Shapes == {Dev("none", 1, -1, TRUE), Dev("none", 1, 0, FALSE), Dev("winusb", 1, 0, TRUE),
           Dev("winusb", 1, -1, FALSE), Dev("usbhub", 0, -1, FALSE), Dev("usbhub3", 1, -1, TRUE),
           Dev("usbccgp", 1, -1, TRUE), [Dev("none", 1, -1, TRUE) EXCEPT !.path = FALSE]}
Asked == [list_all : BOOLEAN, list_hubs : BOOLEAN]
Lists == [kind : {"list"}, devices : Strings(Shapes, 3), o : Asked]
Simples == [kind : {"simple"}, prepared : BOOLEAN, devices : Strings(Shapes, 3),
            o : {[list_all |-> TRUE, list_hubs |-> TRUE]},
            dev : {[vid |-> 1, mi |-> 0, is_composite |-> c] : c \in BOOLEAN},
            results : {<<TRUE, TRUE, TRUE>>, <<TRUE, FALSE, TRUE>>}]

\* Windows hides 8.1 and 10 from an application without their entries in its manifest.
Systems == {<<4, 0>>, <<5, 0>>, <<5, 1>>, <<5, 2>>, <<6, 0>>, <<6, 1>>, <<6, 2>>, <<6, 3>>, <<6, 4>>,
            <<7, 1>>, <<10, 0>>, <<11, 0>>, <<12, 3>>}
Windows ==
  [kind : {"windows"}, real : Systems, told : Systems, verified : Systems, build : {9600, 19999, 20000}]
Windowses ==
  {v \in Windows :
     \/ v.told = v.real /\ v.verified = v.real
     \/ v.told = <<6, 2>> /\ v.verified = v.real /\ v.real[1] \in 6..9 /\ Less(<<6, 2>>, v.real)
     \/ v.told \in {<<6, 2>>, <<6, 3>>} /\ v.verified = v.told /\ Less(v.told, v.real)}
Archs == [kind : {"arch"}, asks : BOOLEAN, native : {"x86", "x64", "arm", "arm64"},
          app : {"x86", "x64", "arm", "arm64"}]
\* Installations: two devices and a few errors, and every error.
Absents == {d \in PhantomType : d.flags \in {{}, {"other"}}}
Errors == UNION {Meanings[r] : r \in DOMAIN Meanings} \cup {"SOMETHING_ELSE"}
Installs ==
  [kind : {"install"}, known : UNION {[1..n -> Absents] : n \in 1..2},
   update : {"none", "unidentified", "NO_SUCH_DEVINST", "TIMEOUT"}, copy : {"none", "ALREADY_INSTALLED", "TIMEOUT"}]
  \cup [kind : {"install"}, known : {<<>>}, update : Errors \cup {"none", "unidentified"}, copy : Errors \cup {"none"}]

\* Ini files: every file of five lines with three names.
MCNameOrder == <<"Description", "GUID", "MI", "PID", "VID", "advanced_mode", "default_driver", "device",
                 "disable_cert_install_warning", "driver", "exit_on_success", "extract_only", "general",
                 "include_hubs", "install_cert", "list_all", "log_level", "security", "trim_whitespaces">>
MCStrtol == ("0" :> 0) @@ ("1" :> 1) @@ ("2" :> 2) @@ ("4" :> 4) @@ ("9" :> 9)
MCStrtoul == MCStrtol @@ ("0xABCD" :> 43981) @@ ("0x1234" :> 4660) @@ ("65536" :> 65536)
Heading(name) == [form |-> "header", name |-> name, whole |-> TRUE]
Relation(name, value) == [form |-> "relation", name |-> name, value |-> value]
Forms == {[form |-> f] : f \in {"blank", "text", "obrace", "cbrace"}}
         \cup {Heading("general"), Heading("device"), [Heading("driver") EXCEPT !.whole = FALSE]}
         \cup {Relation("device", Text("1")), Relation("device", Text("2")), Relation("VID", Text("1")),
               Relation("device", Open), Relation("driver", Nothing), Relation("VID", Broken)}
Paths == {<<"general", "device">>, <<"general", "VID">>, <<"device", "device">>,
          <<"general", "device", "device">>, <<"general", "device", "VID">>, <<"general", "driver", "device">>}
Profiles == [kind : {"profile"}, paths : {Paths},
             lines : {<<Heading("general")>> \o s : s \in Strings(Forms, 4)} \cup Strings(Forms, 3)]
Quotes == [kind : {"quoted"}, text : Strings({"x", "n", "\\", "quote", "\n"}, 4), after : {<<>>, <<"quote", "x">>}]

\* A section with those of its relations that are given.
Section(name, given) ==
  LET set == SelectSeq(SetToSeq(DOMAIN given), LAMBDA n : given[n] # "absent") IN
  <<Heading(name)>> \o [i \in DOMAIN set |-> Relation(set[i], Text(given[set[i]]))]
IniLines(level, driver, cert, options) ==
  LET of(name) == [o \in {o \in DOMAIN Options : Options[o] = name} |-> options[o]] IN
  Section("general", ("log_level" :> level) @@ of("general")) \o Section("device", of("device"))
    \o Section("driver", ("default_driver" :> driver) @@ of("driver"))
    \o Section("security", ("install_cert" :> cert) @@ of("security"))
Optionses == {[o \in DOMAIN Options |-> t] : t \in {"absent", "yes", "off", "maybe"}}
             \cup {[o \in DOMAIN Options |-> IF o \in {"list_all", "trim_whitespaces"} THEN "no" ELSE "1"]}
Inis == {[kind |-> "ini", there |-> t, level |-> l, driver |-> d, options |-> o, embedded |-> <<[subdir |-> "s", name |-> "c"]>>,
          supported |-> s, lines |-> IniLines(l, d, c, o)] :
           t \in BOOLEAN, l \in {"absent", "0", "4", "9", "maybe"}, d \in {"absent", "2", "4", "9", "maybe"},
           o \in Optionses, s \in {{}, {2}, {3, 4}, {0, 2, 3}}, c \in {"absent", "c", "d"}}
Given == [VID : {"absent", "0xABCD", "65536", "maybe"}, PID : {"absent", "0x1234", "maybe"}, GUID : {"absent", "g"}]
Presets == {[kind |-> "presets", given |-> <<g, h>>, first |-> Section("device", g), second |-> Section("device", h)] :
              g \in Given, h \in Given}

\* Registries that work, refuse to be written, or can not be opened; days 3 to 12.
Regs == [opens : BOOLEAN, writable : BOOLEAN,
         values : {f \in [{"interval", "last"} -> {-1, 0, 1, 3, 7}] :
                     f["interval"] \in {-1, 0, 1, 7} /\ f["last"] \in {0, 3}}]
Policies == [kind : {"policy"}, reg : Regs, ticks : {5}, short : BOOLEAN, allows : BOOLEAN,
             picked : {-1, 0, 1, 7}, now : {3, 5, 12}]

\* Answers of a server: two names of a channel have one; the days are those of the channel.
Reply(form, date, version, min) == [form |-> form, date |-> date, version |-> version, min |-> min]
NoReply == Reply("absent", 0, <<>>, <<>>)
Replies(date) ==
  {Reply(f, date, <<>>, <<>>) : f \in {"fails", "undated", "cut", "refused"}}
  \cup {Reply("file", date, v, m) : v \in {<<1, 0, 2>>, <<1, 1>>, <<0, 2, 2, 2>>}, m \in {<<>>, <<6>>, <<6, 1>>, <<7, 0>>}}
Channel(date) ==
  {[n \in 1..4 |-> CASE n = a -> r [] n = a - 1 /\ general -> Reply("file", date + 1, <<2>>, <<6, 1>>) [] OTHER -> NoReply] :
     a \in {0, 1, 2, 4}, r \in Replies(date), general \in BOOLEAN}
Networks == [manager : BOOLEAN, connected : BOOLEAN, opens : BOOLEAN, reached : BOOLEAN,
             answers : {[i \in 1..6 |-> IF i = k THEN a ELSE "none"] : k \in {1, 6}, a \in {"none", "connected", "depends"}}]
Online == [manager |-> TRUE, connected |-> FALSE, opens |-> TRUE, reached |-> TRUE,
           answers |-> [i \in 1..6 |-> IF i = 6 THEN "connected" ELSE "none"]]
SearchOf(regs, oses, networks, releases, betas) ==
  {[kind |-> "search", application |-> <<1, 0, 2, 0>>, os |-> o, reg |-> r, net |-> n, channels |-> <<a, b>>] :
     r \in regs, o \in oses, n \in networks, a \in releases, b \in betas}
Betas(b) == [opens |-> TRUE, writable |-> TRUE, values |-> "betas" :> b @@ "last" :> 0]
OneFile == [n \in 1..4 |-> IF n = 3 THEN Reply("file", 3, <<1, 1>>, <<>>) ELSE NoReply]
Searches ==
  SearchOf({Betas(1)}, {<<6, 1>>, <<6, 2>>}, {Online}, Channel(3), Channel(5))
  \cup SearchOf({Betas(0)}, {<<6, 1>>, <<6, 2>>}, {Online}, Channel(3), {OneFile})
  \cup SearchOf({Betas(1), [Betas(0) EXCEPT !.writable = FALSE], [Betas(1) EXCEPT !.opens = FALSE]},
                {<<6, 2>>}, Networks, {OneFile}, {OneFile})

\* Files before the first run at 1, and after changes; those it reuses come after another.
Embeddable(reuse, opens, readable, time, data) ==
  [reuse |-> reuse, opens |-> opens, readable |-> readable, time |-> time, data |-> data]
Kept == {Embeddable(FALSE, TRUE, TRUE, t, d) : t \in 0..2, d \in 1..2}
        \cup {Embeddable(FALSE, TRUE, FALSE, 2, 1), Embeddable(FALSE, FALSE, FALSE, 0, 1)}
Reused == Embeddable(TRUE, FALSE, FALSE, 0, 0)
Tables(files) == {<<f>> : f \in files} \cup {<<f, g>> : f \in files, g \in files \cup {Reused}}
Embeds == [kind : {"embed"}, before : Tables({Embeddable(FALSE, TRUE, TRUE, 0, d) : d \in 1..2}), at : {1},
           writable : BOOLEAN, fixed : Tables(Kept), found : {<<>>} \cup {<<f>> : f \in Kept}]

\* Calls, and names of up to five bytes.
Menus == [kind : {"menu"}, calls : Strings([display : BOOLEAN, has_filter : BOOLEAN], 3) \ {<<>>}]
Names == [kind : {"inf name"}, name : Strings({"x", " ", "\t", "?", "wide"}, 4), ext : {<<".", "i", "n", "f">>}]

MCJobs == [kind : {"resource"}, src : Sources] \cup [kind : {"file"}, src : Files]
          \cup Settings \cup Versions \cup Drivers \cup Lists \cup Simples
          \cup Windowses \cup {a \in Archs : <<a.app, a.native>> \in Runs} \cup Installs
          \cup Profiles \cup Quotes \cup Inis \cup Presets \cup Policies \cup Searches \cup Embeds
          \cup Menus \cup Names

\* Texts of Windows: a line, two parts of one, the second of which ends in between, another.
MCSymbol == {"a", "b", "c", "d", "e", "o", "ins", "CR", "LF"}
MCOlds == {<<>>, <<"o", "CR", "LF">>, <<"o", "CR", "LF", "ins", "CR", "LF">>}
MCWrites == <<<<"a", "CR", "LF">>, <<"b">>, <<"c", "CR">>, <<"LF">>, <<"d", "e", "CR", "LF">>>>

NoLog == /\ file = <<>> /\ mark = 0 /\ wrote = 0 /\ reader = "none" /\ size = 0 /\ pos = 0
         /\ last = 0 /\ sent = <<>> /\ phase = "none"
         /\ hist = [from |-> 0, due |-> <<>>, torn |-> FALSE, garbled |-> FALSE, cycle |-> "none"]
NoWork == job = NoJob /\ done = FALSE /\ made = <<>>

Init == BarInit /\ ((SyslogInit /\ NoWork) \/ (NoLog /\ NoWork) \/ (NoLog /\ JobInit))
Next == \/ phase # "none" /\ SyslogNext /\ UNCHANGED <<jobvars, barvars>>
        \/ job # NoJob /\ JobNext /\ UNCHANGED <<slvars, barvars>>
        \/ job = NoJob /\ phase = "none" /\ BarNext /\ UNCHANGED <<jobvars, slvars>>
Spec == Init /\ [][Next]_<<slvars, jobvars, barvars>>
=============================================================================
