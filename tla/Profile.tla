------------------------------- MODULE Profile -------------------------------
(* profile.c, the reader of ini files, and what Zadig makes of its ini file and  *)
(* of the preset of a device (zadig.c).  A file is a sequence of lines, each of  *)
(* one of the forms that parse_line tells apart:                                 *)
(*   blank (or a comment), cbrace "}", obrace "{", text (without a "=");         *)
(*   header "[name]", <<whole>> when nothing else but a comment follows;         *)
(*   relation "name = value", the value a text, Nothing, Open "{" or Broken.     *)
EXTENDS Integers, SequencesExt, FiniteSetsExt

CONSTANTS
  NameOrder,  \* the names of sections and of relations, as strcmp orders them
  Strtol,     \* the integers that texts are as a whole: a function from such texts
  Strtoul     \* the same for the unsigned ones, hexadecimal ones included

Nothing == [is |-> "nothing"]
Open == [is |-> "open"]
Broken == [is |-> "broken"]
Text(t) == [is |-> "text", text |-> t]
Number(n) == [is |-> "number", number |-> n]

--------------------------------------------------------------------------------
(* prof_tree.c: the nodes are numbered in the order they were made, 1 is the root.  *)
(* A relation has a text for its value; the children of a section are kept in order *)
(* of their names, and those of one name in the order they were added.              *)
Root == [name |-> "(root)", value |-> Nothing, parent |-> 0, kids |-> <<>>]
Rank(name) == CHOOSE i \in DOMAIN NameOrder : NameOrder[i] = name

AddNode(tree, section, name, value) ==
  LET kids == tree[section].kids
      greater == {i \in DOMAIN kids : Rank(tree[kids[i]].name) > Rank(name)}
      at == IF greater = {} THEN Len(kids) + 1 ELSE Min(greater) IN
  Append([tree EXCEPT ![section].kids = InsertAt(kids, at, Len(tree) + 1)],
         [name |-> name, value |-> value, parent |-> section, kids |-> <<>>])

\* The first child of a section that has a name and is a section, or is not; 0 without one.
FindNode(tree, section, name, wantsSection) ==
  LET kids == tree[section].kids
      found == {i \in DOMAIN kids : /\ tree[kids[i]].name = name
                                    /\ (tree[kids[i]].value = Nothing) = wantsSection} IN
  IF found = {} THEN 0 ELSE kids[Min(found)]

--------------------------------------------------------------------------------
(* The parser: what it expects, how many subsections are open, the tree and the *)
(* section it is in, and the error it stopped with.                             *)
ParseInit == [state |-> "init_comment", level |-> 0, tree |-> <<Root>>, current |-> 0, error |-> ""]
Fails(s, error) == [s EXCEPT !.error = error]

Header(s, l) ==
  LET found == FindNode(s.tree, 1, l.name, TRUE) IN
  IF s.level > 0 THEN Fails(s, "SECTION_NOTOP")
  ELSE IF ~l.whole THEN Fails(s, "SECTION_SYNTAX")
  ELSE IF found # 0 THEN [s EXCEPT !.current = found]
  ELSE [s EXCEPT !.tree = AddNode(s.tree, 1, l.name, Nothing), !.current = Len(s.tree) + 1]

CloseBrace(s) ==
  IF s.level = 0 THEN Fails(s, "EXTRA_CBRACE")
  ELSE [s EXCEPT !.level = @ - 1, !.current = s.tree[s.current].parent]

\* A relation without a value is a subsection: its brace is on this line or on the next.
RelationOf(s, l) ==
  CASE l.value = Broken -> Fails(s, "RELATION_SYNTAX")
    [] l.value \in {Nothing, Open} ->
         [s EXCEPT !.tree = AddNode(s.tree, s.current, l.name, Nothing), !.current = Len(s.tree) + 1,
                   !.level = @ + 1, !.state = IF l.value = Nothing THEN "get_obrace" ELSE @]
    [] OTHER -> [s EXCEPT !.tree = AddNode(s.tree, s.current, l.name, l.value)]

StdLine(s, l) ==
  CASE l.form = "blank" -> s
    [] l.form = "header" -> Header(s, l)
    [] l.form = "cbrace" -> CloseBrace(s)
    [] l.form = "relation" -> RelationOf(s, l)
    [] OTHER -> Fails(s, "RELATION_SYNTAX")

ParseLine(s, l) ==
  CASE s.error # "" -> s
    [] s.error = "" /\ s.state = "get_obrace" ->
         IF l.form = "obrace" THEN [s EXCEPT !.state = "std_line"] ELSE Fails(s, "MISSING_OBRACE")
    [] s.error = "" /\ s.state = "init_comment" ->
         IF l.form # "header" THEN s ELSE StdLine([s EXCEPT !.state = "std_line"], l)
    [] OTHER -> StdLine(s, l)

ParseFile(lines) == FoldLeft(ParseLine, ParseInit, lines)

\* A quoted text is read up to its end, and a backslash takes the next character.
Escaped(c) == CASE c = "n" -> "\n" [] c = "t" -> "\t" [] OTHER -> c
ParseQuoted(str) ==
  LET Read(s, c) ==
        CASE s.ended -> s
          [] ~s.ended /\ s.escapes -> [s EXCEPT !.to = Append(@, Escaped(c)), !.escapes = FALSE]
          [] ~s.ended /\ ~s.escapes /\ c = "quote" -> [s EXCEPT !.ended = TRUE]
          [] ~s.ended /\ ~s.escapes /\ c = "\\" -> [s EXCEPT !.escapes = TRUE]
          [] OTHER -> [s EXCEPT !.to = Append(@, c)] IN
  FoldLeft(Read, [to |-> <<>>, escapes |-> FALSE, ended |-> FALSE], str).to

--------------------------------------------------------------------------------
(* prof_get.c: the value at a path of names is that of the first relation in the *)
(* first section of each name.                                                   *)
GetValue(tree, names) ==
  LET Enter(at, name) == IF at = 0 THEN 0 ELSE FindNode(tree, at, name, TRUE)
      section == FoldLeft(Enter, 1, Front(names))
      relation == IF section = 0 THEN 0 ELSE FindNode(tree, section, Last(names), FALSE) IN
  IF relation = 0 THEN Nothing ELSE tree[relation].value

GetNumber(tree, names, default, numbers) ==
  LET v == GetValue(tree, names) IN
  IF v # Nothing /\ v.text \in DOMAIN numbers THEN numbers[v.text] ELSE default
GetInteger(tree, names, default) == GetNumber(tree, names, default, Strtol)
GetUint(tree, names, default) == GetNumber(tree, names, default, Strtoul)

\* A text that is no Boolean leaves the variable as it <<was>>.
ConfYes == {"y", "yes", "true", "t", "1", "on"}
ConfNo == {"n", "no", "false", "nil", "0", "off"}
GetBoolean(tree, names, default, was) ==
  LET v == GetValue(tree, names) IN
  CASE v = Nothing -> default
    [] v # Nothing /\ v.text \in ConfYes -> TRUE
    [] v # Nothing /\ v.text \in ConfNo -> FALSE
    [] OTHER -> was

--------------------------------------------------------------------------------
(* zadig.c: the settings, the kinds of driver numbered from WDI_WINUSB on.  *)
DEBUG == 0
INFO == 1
NONE == 4
WINUSB == 0
USER == 4

\* The Boolean options and their sections; only the one that is given its value by the
\* program before is TRUE without a file.
Options == [advanced_mode |-> "general", exit_on_success |-> "general", list_all |-> "device",
            include_hubs |-> "device", trim_whitespaces |-> "device", extract_only |-> "driver",
            disable_cert_install_warning |-> "security"]
Unset == [on |-> {"trim_whitespaces"}, log_level |-> DEBUG, driver |-> WINUSB, cert |-> Nothing]

\* Whether a file is among the resources, in a directory of them unless it is "".
IsFileEmbedded(resources, path, name) ==
  \E i \in DOMAIN resources : resources[i].name = name /\ (path = "" \/ resources[i].subdir = path)

ParseIni(there, lines, embedded) ==
  LET p == ParseFile(lines)
      level == GetInteger(p.tree, <<"general", "log_level">>, INFO)
      driver == GetInteger(p.tree, <<"driver", "default_driver">>, WINUSB)
      cert == GetValue(p.tree, <<"security", "install_cert">>) IN
  IF ~there \/ p.error # "" THEN Unset
  ELSE [on |-> {o \in DOMAIN Options : GetBoolean(p.tree, <<Options[o], o>>, FALSE, o \in Unset.on)},
        log_level |-> IF level \in DEBUG..NONE THEN level ELSE INFO,
        driver |-> IF driver \in WINUSB..USER THEN driver ELSE WINUSB,
        cert |-> IF cert # Nothing /\ IsFileEmbedded(embedded, "", cert.text) THEN cert ELSE Nothing]

\* The first kind of driver that the application has, if not the one that was set.
SetDefaultDriver(driver, supported) ==
  IF driver \in supported \/ supported = {} THEN driver ELSE Min(supported)

(* A preset makes the fields of a device that is created: it needs a VID, the others *)
(* stay as they are without it, except that the GUID is always replaced.             *)
NoFields == [vid |-> Nothing, pid |-> Nothing, mi |-> Nothing, desc |-> Nothing, guid |-> Nothing]
ParsePreset(lines, creating, fields) ==
  LET p == ParseFile(lines)
      start == IF creating THEN fields ELSE [NoFields EXCEPT !.guid = fields.guid]
      Uint(name, limit, was) ==
        LET n == GetUint(p.tree, <<"device", name>>, limit + 1) IN IF n <= limit THEN Number(n) ELSE was
      vid == Uint("VID", 65535, Nothing)
      desc == GetValue(p.tree, <<"device", "Description">>) IN
  IF p.error # "" \/ vid = Nothing THEN [creates |-> creating, fields |-> fields]
  ELSE [creates |-> TRUE,
        fields |-> [vid |-> vid, pid |-> Uint("PID", 65535, start.pid), mi |-> Uint("MI", 255, start.mi),
                    desc |-> IF desc = Nothing THEN start.desc ELSE desc,
                    guid |-> GetValue(p.tree, <<"device", "GUID">>)]]

--------------------------------------------------------------------------------
(* What a file means, said without a tree: the lines from the first header on, how *)
(* many subsections are open before one of them, the section it is in, and the     *)
(* first relation at a path.                                                       *)
Used(lines) ==
  LET headers == {i \in DOMAIN lines : lines[i].form = "header"} IN
  IF headers = {} THEN <<>> ELSE SubSeq(lines, Min(headers), Len(lines))
Opens(l) == l.form = "relation" /\ l.value \in {Nothing, Open}
Level(u, i) == Cardinality({j \in 1..(i - 1) : Opens(u[j])})
                 - Cardinality({j \in 1..(i - 1) : u[j].form = "cbrace"})
SectionOf(u, i) == u[Max({j \in 1..i : u[j].form = "header"})].name

WellFormed(u) ==
  \A i \in DOMAIN u :
    IF i > 1 /\ u[i - 1].form = "relation" /\ u[i - 1].value = Nothing
    THEN u[i].form = "obrace"
    ELSE CASE u[i].form = "header" -> u[i].whole /\ Level(u, i) = 0
           [] u[i].form = "cbrace" -> Level(u, i) > 0
           [] u[i].form = "relation" -> u[i].value # Broken
           [] OTHER -> u[i].form = "blank"

FirstValue(u, range, level, name) ==
  LET found == {i \in range : /\ u[i].form = "relation" /\ ~Opens(u[i])
                              /\ u[i].name = name /\ Level(u, i) = level} IN
  IF found = {} THEN Nothing ELSE u[Min(found)].value

MeantValue(u, path) ==
  LET section == {i \in DOMAIN u : SectionOf(u, i) = path[1]}
      opened == {i \in section : Opens(u[i]) /\ u[i].name = path[2] /\ Level(u, i) = 0}
      closed(o) == Min({Len(u) + 1} \cup {j \in (o + 1)..Len(u) : u[j].form = "cbrace" /\ Level(u, j) = 1}) IN
  CASE Len(path) = 2 -> FirstValue(u, section, 0, path[2])
    [] Len(path) = 3 /\ opened = {} -> Nothing
    [] OTHER -> LET o == Min(opened) IN FirstValue(u, o..(closed(o) - 1), 1, path[3])

\* A text in quotes, from the character after the first quote on.
Escapes(c) ==
  CASE c = "\n" -> <<"\\", "n">> [] c = "\t" -> <<"\\", "t">>
    [] c \in {"\\", "quote"} -> <<"\\", c>> [] OTHER -> <<c>>
Quoted(text) ==
  LET Write(s, c) == s \o Escapes(c) IN FoldLeft(Write, <<>>, text) \o <<"quote">>
=============================================================================
