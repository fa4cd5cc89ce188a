----------------------------- MODULE UpdateSearch -----------------------------
(* zadig_net.c: what a check for updates asks the server, and what it concludes. *)
(* A version file is named "zadig_win_<arch>_<major>.<minor>.ver", with "_beta"  *)
(* after the application in the other channel; a shorter name serves more        *)
(* systems.  A name is the number of its parts after the application.            *)
EXTENDS DeviceList, UpdateFile, UpdatePolicy

Retries == 5

(* What a search depends on: its versions of four numbers, each of which fits a field, *)
(* the system, what the four names of each channel are answered, and the network.  The *)
(* registry asks for the other channel with a 1, as the settings dialog writes it.     *)
Versions4 == [1..4 -> Fields]
Numbers == {f \in Fields : f < Wide}
ReplyType == [form : {"absent", "fails", "undated", "cut", "refused", "file"}, date : Int,
              version : Seq(Numbers), min : {m \in Seq(Nat) : Len(m) <= 2}]
ChannelType == [1..4 -> ReplyType]
SearchInput(j) ==
  /\ j.application \in Versions4 /\ j.os \in [1..2 -> Nat] /\ j.channels \in [1..2 -> ChannelType]
  /\ IsRegistry(j.reg) /\ ReadRegistryKey(j.reg, "betas") \in {0, 1}
  /\ {j.net.manager, j.net.connected, j.net.opens, j.net.reached} \subseteq BOOLEAN
  /\ DOMAIN j.net.answers = 1..(Retries + 1)

(* GetInternetSession: the network manager is asked until it is connected; when a    *)
(* service it depends on does not run, WinINet knows whether there is a connection.  *)
GetInternetSession(net) ==
  /\ net.manager
  /\ \E i \in 1..(Retries + 1) :
       net.answers[i] = "connected" \/ (net.answers[i] = "depends" /\ net.connected)
  /\ net.opens

\* The file that is found: that of the longest name, of at most four parts, that is not absent.
FirstAnswered(replies) == Max({0} \cup {n \in 1..4 : replies[n].form # "absent"})

\* parse_update: what is not given keeps the default, and a file it refuses changes nothing.
ParseUpdate(update, reply) ==
  IF reply.form = "refused" THEN update
  ELSE [version |-> ParseVersion(reply.version),
        platform_min |-> [i \in 1..2 |-> IF i \in DOMAIN reply.min THEN reply.min[i] ELSE <<5, 2>>[i]]]

\* to_uint64_t.
ToUint64(version) == PackVersion(version)

\* The update is newer than the application, and for this system.
IsNewVersion(update, application, os) ==
  /\ ToUint64(update.version) > ToUint64(application)
  /\ \/ os[1] > update.platform_min[1]
     \/ os[1] = update.platform_min[1] /\ os[2] >= update.platform_min[2]

(* One channel: without a file the next one is looked at; a request that fails, an  *)
(* answer without a date or one that is cut ends the search.  A date is kept as the *)
(* day of the last check, whatever comes after.                                     *)
CheckChannel(s, replies, j) ==
  LET n     == FirstAnswered(replies)
      dated == [s EXCEPT !.reg = WriteRegistryKey(@, "last", replies[n].date)]
      read  == ParseUpdate(s.update, replies[n]) IN
  IF s.over \/ s.found \/ n = 0 THEN s
  ELSE IF replies[n].form \in {"fails", "undated"} THEN [s EXCEPT !.over = TRUE]
  ELSE IF replies[n].form = "cut" THEN [dated EXCEPT !.over = TRUE]
  ELSE [dated EXCEPT !.status = @ + 1, !.update = read,
                     !.found = IsNewVersion(read, j.application, j.os)]

\* The message of a status.
Conclusion(s) ==
  CASE s.status = 1 -> "no connection"
    [] s.status = 2 -> "no data"
    [] OTHER -> IF s.found THEN "new version" ELSE "no new version"

\* The search of CheckForUpdatesThread, in the beta channel too when the registry asks for it.
SearchUpdate(j) ==
  LET start == [status |-> 1, over |-> FALSE, found |-> FALSE, reg |-> j.reg,
                update |-> [version |-> <<0, 0, 0, 0>>, platform_min |-> <<0, 0>>]]
      asked == IF ReadRegistryKey(j.reg, "betas") # 0 THEN j.channels ELSE SubSeq(j.channels, 1, 1)
      ended == IF ~GetInternetSession(j.net) \/ ~j.net.reached THEN start
               ELSE FoldLeft(LAMBDA s, c : CheckChannel(s, c, j), [start EXCEPT !.status = 2], asked) IN
  [found |-> ended.found, reg |-> ended.reg, conclusion |-> Conclusion(ended)]

--------------------------------------------------------------------------------
(* What is meant: a new version is announced when the most specific file of a channel *)
(* that is asked names one that this system runs, and the channels before were read   *)
(* or have none; the next check counts from the last answer with a date; the user is  *)
(* told whether the network, the server or a new version was missing.                 *)
SearchIsMeant(made, j) ==
  LET online  == j.net.reached /\ j.net.opens /\ j.net.manager /\
                 \E i \in DOMAIN j.net.answers : j.net.answers[i] \in
                   {"connected"} \cup (IF j.net.connected THEN {"depends"} ELSE {})
      betas   == "betas" \in DOMAIN j.reg.values /\ j.reg.opens /\ j.reg.values["betas"] = 1
      asked   == IF ~online THEN {} ELSE IF betas THEN 1..2 ELSE {1}
      most(c) == {n \in 1..4 : /\ j.channels[c][n].form # "absent"
                               /\ \A m \in (n + 1)..4 : j.channels[c][m].form = "absent"}
      is(c, forms) == \E n \in most(c) : j.channels[c][n].form \in forms
      new(c)  == \E n \in most(c) :
                   LET f == j.channels[c][n] IN
                   /\ f.form = "file"
                   /\ Less(j.application, [i \in 1..4 |-> IF i \in DOMAIN f.version THEN f.version[i] ELSE 0])
                   /\ ~Less(j.os, f.min \o SubSeq(<<5, 2>>, Len(f.min) + 1, 2))
      reached == {c \in asked : \A b \in 1..(c - 1) : ~is(b, {"fails", "undated", "cut"}) /\ ~new(b)}
      dated   == {c \in reached : is(c, {"cut", "refused", "file"})} IN
  /\ made.found <=> \E c \in reached : new(c)
  /\ made.conclusion = IF made.found THEN "new version"
                       ELSE IF ~online THEN "no connection"
                       ELSE IF \E c \in reached : is(c, {"refused", "file"}) THEN "no new version"
                       ELSE "no data"
  /\ IF dated = {} \/ ~j.reg.writable \/ ~j.reg.opens THEN made.reg = j.reg
     ELSE \A n \in most(Max(dated)) : made.reg.values["last"] = j.channels[Max(dated)][n].date
=============================================================================
