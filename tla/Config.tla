------------------------------- MODULE Config -------------------------------
(***************************************************************************)
(* The daemon's list of known networks (client/config.c): loading a config *)
(* file, which may be hand-written, changing the list, and saving it, with *)
(* a crash at any point.  A file is a sequence of "network" and "password" *)
(* lines; the other keys are independent scalars.                          *)
(***************************************************************************)
EXTENDS Integers, Sequences, FiniteSetsExt

CONSTANTS
  Ssids, Passwords,
  NoPass,      \* the empty password
  Trim,        \* what is left of a value when trim() has stripped the white
               \* space at its ends, as a function
  MaxNets,     \* RTW88_MAX_NETWORKS
  MaxLines,    \* bound: length of a hand-written file
  MaxOps       \* bound: changes of the list and crashes

ASSUME ConfigConstants ==
  /\ NoPass \notin Passwords
  /\ Trim \in [Ssids \cup Passwords -> Ssids \cup Passwords]
  /\ MaxNets \in Nat \ {0} /\ MaxLines \in Nat /\ MaxOps \in Nat

Lines == [key : {"network"}, val : Ssids] \cup [key : {"password"}, val : Passwords]
Entries == [ssid : Ssids, password : Passwords \cup {NoPass}]

VARIABLES
  nets,      \* g_cfg.nets
  path,      \* the lines of the config file
  tmp,       \* the lines of the temporary file
  pc, pos,   \* what the daemon does, and the next line to read or entry to write
  ops,
  saved,     \* the list that the latest completed config_save wrote
  written,   \* 1 once a config_save has completed
  fresh      \* 1: nets was just loaded from a file that config_save wrote

vars == <<nets, path, tmp, pc, pos, ops, saved, written, fresh>>

Files == UNION {[1 .. n -> Lines] : n \in 0 .. MaxLines}

Init ==
  /\ path \in Files
  /\ nets = <<>> /\ tmp = <<>> /\ pc = "load" /\ pos = 1 /\ ops = 0
  /\ saved = <<>> /\ written = 0 /\ fresh = 0
-----------------------------------------------------------------------------
(* network_match: the index of the first entry for ssid, 0 when there is   *)
(* none.                                                                   *)
network_match(list, ssid) ==
  LET found == {i \in DOMAIN list : list[i].ssid = ssid} IN IF found = {} THEN 0 ELSE Min(found)

(* add_network: unchanged when the network is known or the list is full.   *)
add_network(list, ssid) ==
  IF network_match(list, ssid) # 0 \/ Len(list) >= MaxNets THEN list
  ELSE Append(list, [ssid |-> ssid, password |-> NoPass])

\* Mutant: a password goes to the first entry.
apply_First(list, line) ==
  CASE line.key = "network" -> add_network(list, line.val)
    [] line.key = "password" /\ list = <<>> -> list
    [] OTHER -> [list EXCEPT ![1].password = line.val]

(* apply: a password goes to the last entry of the list.                   *)
apply(list, line) ==
  CASE line.key = "network" -> add_network(list, line.val)
    [] line.key = "password" /\ list = <<>> -> list
    [] OTHER -> [list EXCEPT ![Len(list)].password = line.val]

(* load_file, one line: split at '=', trim both sides, apply.              *)
load_file ==
  /\ pc = "load"
  /\ \/ /\ pos <= Len(path)
        /\ nets' = apply(nets, [path[pos] EXCEPT !.val = Trim[@]])
        /\ pos' = pos + 1
        /\ UNCHANGED pc
     \/ /\ pos > Len(path)
        /\ pc' = "ready"
        /\ UNCHANGED <<nets, pos>>
  /\ UNCHANGED <<path, tmp, ops, saved, written, fresh>>

Change == pc = "ready" /\ ops < MaxOps /\ ops' = ops + 1 /\ fresh' = 0

(* config_save starts: the temporary file is created empty.                *)
OpenTmp == pc' = "write" /\ pos' = 1 /\ tmp' = <<>>

(* config_set_network after a connect, then config_save.                   *)
config_set_network(ssid, pass) ==
  /\ Change
  /\ LET list == add_network(nets, ssid)
         i == network_match(list, ssid)
     IN nets' = IF i = 0 THEN list ELSE [list EXCEPT ![i].password = pass]
  /\ OpenTmp
  /\ UNCHANGED <<path, saved, written>>

(* config_forget_network closes the gap, then config_save.                 *)
config_forget_network(ssid) ==
  /\ Change
  /\ network_match(nets, ssid) # 0
  /\ nets' = [j \in 1 .. Len(nets) - 1 |-> IF j < network_match(nets, ssid) THEN nets[j] ELSE nets[j + 1]]
  /\ OpenTmp
  /\ UNCHANGED <<path, saved, written>>

(* The lines config_save writes for one entry.                             *)
EntryLines(n) ==
  IF n.password = NoPass THEN <<[key |-> "network", val |-> n.ssid]>>
  ELSE <<[key |-> "network", val |-> n.ssid], [key |-> "password", val |-> n.password]>>

\* Mutant: the entries are written into the config file itself.
WriteEntry_InPlace ==
  /\ pc = "write"
  /\ \/ /\ pos <= Len(nets)
        /\ path' = (IF pos = 1 THEN <<>> ELSE path) \o EntryLines(nets[pos])
        /\ tmp' = path'
        /\ pos' = pos + 1
        /\ UNCHANGED pc
     \/ /\ pos > Len(nets)
        /\ pc' = "rename"
        /\ UNCHANGED <<path, tmp, pos>>
  /\ UNCHANGED <<nets, ops, saved, written, fresh>>

(* config_save writes the next entry, or has written all.                  *)
WriteEntry ==
  /\ pc = "write"
  /\ \/ /\ pos <= Len(nets)
        /\ tmp' = tmp \o EntryLines(nets[pos])
        /\ pos' = pos + 1
        /\ UNCHANGED pc
     \/ /\ pos > Len(nets)
        /\ pc' = "rename"
        /\ UNCHANGED <<tmp, pos>>
  /\ UNCHANGED <<nets, path, ops, saved, written, fresh>>

(* fclose and rename; a failure of either removes the temporary file.      *)
Rename(ok) ==
  /\ pc = "rename"
  /\ path' = IF ok THEN tmp ELSE path
  /\ saved' = IF ok THEN nets ELSE saved
  /\ written' = IF ok THEN 1 ELSE written
  /\ tmp' = <<>>
  /\ pc' = "ready"
  /\ UNCHANGED <<nets, pos, ops, fresh>>

(* The daemon dies and is started again.                                   *)
Restart ==
  /\ ops < MaxOps /\ ops' = ops + 1
  /\ nets' = <<>> /\ pc' = "load" /\ pos' = 1
  /\ fresh' = written
  /\ UNCHANGED <<path, tmp, saved, written>>

Next ==
  \/ load_file
  \/ \E s \in Ssids : config_forget_network(s) \/ \E p \in Passwords : config_set_network(s, p)
  \/ WriteEntry
  \/ \E ok \in BOOLEAN : Rename(ok)
  \/ Restart

Spec == Init /\ [][Next]_vars
-----------------------------------------------------------------------------
(* The file holds the first n entries of the list and nothing else: entry  *)
(* i starts at line st[i], and the next one where its lines end.           *)
StartsAt(st, file, list, n) ==
  /\ st \in [1 .. n + 1 -> 1 .. Len(file) + 1] /\ st[1] = 1 /\ st[n + 1] = Len(file) + 1
  /\ \A i \in 1 .. n :
       /\ st[i] <= Len(file) /\ file[st[i]] = [key |-> "network", val |-> list[i].ssid]
       /\ IF list[i].password = NoPass THEN st[i + 1] = st[i] + 1
          ELSE st[i + 1] = st[i] + 2 /\ file[st[i] + 1] = [key |-> "password", val |-> list[i].password]
Holds(file, list, n) == \E st \in [1 .. n + 1 -> 1 .. Len(file) + 1] : StartsAt(st, file, list, n)

(* Once config_save has replaced the file it always holds a complete list, *)
(* the latest one saved, whenever the daemon dies or a save fails.         *)
FileIsWhole == written = 1 => Holds(path, saved, Len(saved))

Trimmed(list) == [i \in DOMAIN list |->
  [ssid |-> Trim[list[i].ssid],
   password |-> IF list[i].password = NoPass THEN NoPass ELSE Trim[list[i].password]]]

(* What config_save wrote is what a restarted daemon loads, but for the    *)
(* white space at the ends of values: the same networks with the same      *)
(* passwords, in the same order, unless trimming made two names equal.     *)
RoundTrip ==
  fresh = 1 /\ pc = "ready" /\ IsInjective([i \in DOMAIN saved |-> Trim[saved[i].ssid]])
    => nets = Trimmed(saved)
=============================================================================
