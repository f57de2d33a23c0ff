---------------------------- MODULE ConfigProofs ----------------------------
(***************************************************************************)
(* Proofs about the list of known networks: a crash at any point leaves a  *)
(* whole file behind, and a daemon that is started again loads what was    *)
(* saved, for any names, passwords and lengths of the list.                *)
(***************************************************************************)
EXTENDS Config, SequenceTheorems, TLAPS

(* Names and passwords are strings alike; what trimming leaves of one may  *)
(* be any of them.                                                         *)
Values == Ssids \cup Passwords
AnyEntry == [ssid : Values, password : Values \cup {NoPass}]
AnyLine == [key : {"network", "password"}, val : Values]

Types ==
  /\ nets \in Seq(AnyEntry) /\ saved \in Seq(AnyEntry)
  /\ path \in Seq(AnyLine) /\ tmp \in Seq(AnyLine)
  /\ Len(nets) <= MaxNets /\ Len(saved) <= MaxNets
  /\ pc \in {"load", "ready", "write", "rename"} /\ pos \in Nat \ {0}
  /\ written \in {0, 1} /\ fresh \in {0, 1}

(* The temporary file holds what has been written so far.                  *)
TmpInv ==
  /\ pc = "write" => pos <= Len(nets) + 1 /\ Holds(tmp, nets, pos - 1)
  /\ pc = "rename" => Holds(tmp, nets, Len(nets))

(* A list is the first k entries of another, trimmed; when the k-th waits  *)
(* for its password it has none yet.                                       *)
Password(e) == IF e.password = NoPass THEN NoPass ELSE Trim[e.password]
Copies(list, from, k, waits) ==
  /\ k \in 0 .. Len(from) /\ Len(list) = k
  /\ \A i \in 1 .. k :
       /\ list[i].ssid = Trim[from[i].ssid]
       /\ list[i].password = IF i = k /\ waits = 1 THEN NoPass ELSE Password(from[i])

(* How far a load of the saved file has come.                              *)
Distinct(list) == \A i, j \in 1 .. Len(list) : Trim[list[i].ssid] = Trim[list[j].ssid] => i = j
Progress(st, k, waits) ==
  /\ waits \in {0, 1} /\ StartsAt(st, path, saved, Len(saved))
  /\ Copies(nets, saved, k, waits)
  /\ waits = 0 => pos = st[k + 1]
  /\ waits = 1 => k # 0 /\ saved[k].password # NoPass /\ pos = st[k] + 1
LoadInv ==
  /\ fresh = 1 => written = 1 /\ pc \in {"load", "ready"}
  /\ fresh = 1 /\ pc = "load" /\ Distinct(saved) => \E st, k, waits : Progress(st, k, waits)
  /\ fresh = 1 /\ pc = "ready" /\ Distinct(saved) => Copies(nets, saved, Len(saved), 0)

IInv == Types /\ FileIsWhole /\ TmpInv /\ LoadInv
-----------------------------------------------------------------------------
(* add_network appends an entry or leaves the list alone, and appends it   *)
(* when it is new and there is room.                                       *)
LEMMA AddNetwork ==
  ASSUME NEW list \in Seq(AnyEntry), Len(list) <= MaxNets, NEW ssid \in Values
  PROVE  /\ add_network(list, ssid) \in Seq(AnyEntry) /\ Len(add_network(list, ssid)) <= MaxNets
         /\ Len(list) < MaxNets /\ (\A i \in 1 .. Len(list) : list[i].ssid # ssid) =>
              add_network(list, ssid) = Append(list, [ssid |-> ssid, password |-> NoPass])
<1> DEFINE new == [ssid |-> ssid, password |-> NoPass]
<1>1. new \in AnyEntry
  BY DEF AnyEntry
<1>2. Append(list, new) \in Seq(AnyEntry) /\ Len(Append(list, new)) = Len(list) + 1
  BY <1>1
<1>3. MaxNets \in Nat /\ Len(list) \in Nat
  BY ConfigConstants
<1>4. add_network(list, ssid) = list \/ (Len(list) < MaxNets /\ add_network(list, ssid) = Append(list, new))
  BY <1>3 DEF add_network
<1>5. (\A i \in 1 .. Len(list) : list[i].ssid # ssid) => network_match(list, ssid) = 0
  BY DEF network_match
<1>6. Len(list) < MaxNets /\ (\A i \in 1 .. Len(list) : list[i].ssid # ssid) => add_network(list, ssid) = Append(list, new)
  BY <1>3, <1>5 DEF add_network
<1> HIDE DEF new
<1>7. add_network(list, ssid) \in Seq(AnyEntry) /\ Len(add_network(list, ssid)) <= MaxNets
  BY <1>2, <1>3, <1>4
<1> QED BY <1>6, <1>7 DEF new

(* A changed password keeps the list a list.                               *)
LEMMA SetPassword ==
  ASSUME NEW list \in Seq(AnyEntry), NEW i, NEW p \in Values
  PROVE  /\ [list EXCEPT ![i].password = p] \in Seq(AnyEntry)
         /\ Len([list EXCEPT ![i].password = p]) = Len(list)
<1>1. CASE i \in 1 .. Len(list)
  <2>0. \A e \in AnyEntry : [e EXCEPT !.password = p] \in AnyEntry
    BY DEF AnyEntry
  <2>1. [list[i] EXCEPT !.password = p] \in AnyEntry
    BY <1>1, <2>0
  <2> QED BY <1>1, <2>1
<1>2. CASE i \notin 1 .. Len(list)
  <2>1. [list EXCEPT ![i].password = p] = list
    BY <1>2
  <2> QED BY <2>1
<1> QED BY <1>1, <1>2

(* apply takes a list and a line to a list.                                *)
LEMMA ApplyType ==
  ASSUME NEW list \in Seq(AnyEntry), Len(list) <= MaxNets, NEW line \in AnyLine
  PROVE  apply(list, line) \in Seq(AnyEntry) /\ Len(apply(list, line)) <= MaxNets
<1>0. line.val \in Values
  BY DEF AnyLine
<1>1. CASE line.key = "network"
  BY <1>0, <1>1, AddNetwork DEF apply
<1>2. CASE line.key # "network" /\ line.key = "password" /\ list = <<>>
  BY <1>2 DEF apply
<1>3. CASE line.key # "network" /\ ~(line.key = "password" /\ list = <<>>)
  <2>1. apply(list, line) = [list EXCEPT ![Len(list)].password = line.val]
    BY <1>3 DEF apply
  <2> QED BY <1>0, <2>1, SetPassword
<1> QED BY <1>1, <1>2, <1>3

(* A line that is trimmed is a line.                                       *)
LEMMA TrimmedLine ==
  ASSUME NEW line \in AnyLine
  PROVE  [line EXCEPT !.val = Trim[@]] \in AnyLine
<1>1. Trim[line.val] \in Values
  BY ConfigConstants DEF AnyLine, Values
<1> QED BY <1>1 DEF AnyLine

(* The lines of an entry.                                                  *)
LEMMA TwoLines ==
  ASSUME NEW e \in AnyEntry
  PROVE  /\ EntryLines(e) \in Seq(AnyLine)
         /\ EntryLines(e)[1] = [key |-> "network", val |-> e.ssid]
         /\ e.password = NoPass => Len(EntryLines(e)) = 1
         /\ e.password # NoPass => /\ Len(EntryLines(e)) = 2
                                   /\ EntryLines(e)[2] = [key |-> "password", val |-> e.password]
<1> DEFINE n == [key |-> "network", val |-> e.ssid]
           w == [key |-> "password", val |-> e.password]
<1>1. n \in AnyLine /\ (e.password # NoPass => w \in AnyLine)
  BY DEF AnyLine, AnyEntry
<1>2. EntryLines(e) = IF e.password = NoPass THEN <<n>> ELSE <<n, w>>
  BY DEF EntryLines
<1> HIDE DEF n, w
<1>3. CASE e.password = NoPass
  BY <1>1, <1>2, <1>3 DEF n
<1>4. CASE e.password # NoPass
  BY <1>1, <1>2, <1>4 DEF n, w
<1> QED BY <1>3, <1>4

(* Lines after the first a.                                                *)
LEMMA After ==
  ASSUME NEW a \in Nat, NEW b \in {1, 2}
  PROVE  /\ a + 1 \in 1 .. a + b /\ ~(a + 1 <= a) /\ (a + 1) - a = 1
         /\ b = 2 => a + 2 \in 1 .. a + b
         /\ ~(a + 2 <= a) /\ (a + 2) - a = 2
         /\ \A x, y \in 1 .. a + 1 :
              /\ x <= a => x \in 1 .. a
              /\ x <= a /\ y = x + 2 => x + 1 \in 1 .. a
  OBVIOUS

(* The lines ls of entry n + 1 at the end of a file.                       *)
LEMMA MoreLines ==
  ASSUME NEW file \in Seq(AnyLine), NEW list \in Seq(AnyEntry), NEW n \in Nat, n < Len(list),
         Holds(file, list, n), NEW ls \in Seq(AnyLine), Len(ls) \in {1, 2},
         NEW more \in Seq(AnyLine), Len(more) = Len(file) + Len(ls),
         \A i \in 1 .. Len(file) + Len(ls) : more[i] = IF i <= Len(file) THEN file[i] ELSE ls[i - Len(file)],
         ls[1] = [key |-> "network", val |-> list[n + 1].ssid],
         list[n + 1].password = NoPass => Len(ls) = 1,
         list[n + 1].password # NoPass =>
           Len(ls) = 2 /\ ls[2] = [key |-> "password", val |-> list[n + 1].password]
  PROVE  Holds(more, list, n + 1)
<1>0. Len(file) \in Nat /\ Len(more) \in Nat /\ Len(ls) \in Nat
  OBVIOUS
<1>1. /\ \A i \in 1 .. Len(file) : more[i] = file[i]
      /\ more[Len(file) + 1] = ls[1] /\ (Len(ls) = 2 => more[Len(file) + 2] = ls[2])
      /\ Len(more) > Len(file)
  <2>1. \A i \in 1 .. Len(file) : more[i] = file[i]
    <3>1. \A i \in 1 .. Len(file) : i \in 1 .. Len(file) + Len(ls) /\ i <= Len(file)
      BY <1>0
    <3> QED BY <3>1
  <2>2. more[Len(file) + 1] = ls[1]
    <3>1. /\ Len(file) + 1 \in 1 .. Len(file) + Len(ls) /\ ~(Len(file) + 1 <= Len(file))
          /\ (Len(file) + 1) - Len(file) = 1
      BY <1>0, After, Zenon
    <3> QED BY <3>1
  <2>3. Len(ls) = 2 => more[Len(file) + 2] = ls[2]
    <3>1. /\ Len(ls) = 2 => Len(file) + 2 \in 1 .. Len(file) + Len(ls)
          /\ ~(Len(file) + 2 <= Len(file)) /\ (Len(file) + 2) - Len(file) = 2
      BY <1>0, After, Zenon
    <3> QED BY <3>1
  <2> QED BY <1>0, <2>1, <2>2, <2>3
<1>2. PICK st : StartsAt(st, file, list, n)
  BY DEF Holds
<1>3. /\ st \in [1 .. n + 1 -> 1 .. Len(file) + 1] /\ st[1] = 1 /\ st[n + 1] = Len(file) + 1
      /\ \A i \in 1 .. n :
           /\ st[i] <= Len(file) /\ file[st[i]] = [key |-> "network", val |-> list[i].ssid]
           /\ list[i].password = NoPass => st[i + 1] = st[i] + 1
           /\ list[i].password # NoPass =>
                st[i + 1] = st[i] + 2 /\ file[st[i] + 1] = [key |-> "password", val |-> list[i].password]
  BY <1>2 DEF StartsAt
<1> DEFINE new == [i \in 1 .. n + 2 |-> IF i = n + 2 THEN Len(more) + 1 ELSE st[i]]
<1>4. /\ \A i \in 1 .. n + 1 : new[i] = st[i]
      /\ new[n + 2] = Len(more) + 1
  OBVIOUS
<1>5. new \in [1 .. n + 2 -> 1 .. Len(more) + 1] /\ new[1] = 1
  <2>1. \A i \in 1 .. n + 1 : st[i] \in 1 .. Len(more) + 1
    BY <1>0, <1>1, <1>3
  <2>2. Len(more) + 1 \in 1 .. Len(more) + 1
    BY <1>0
  <2>3. \A i \in 1 .. n + 2 : i \in 1 .. n + 1 \/ i = n + 2
    OBVIOUS
  <2> QED BY <1>3, <2>1, <2>2, <2>3
<1> HIDE DEF new
<1>6. ASSUME NEW i \in 1 .. n
      PROVE  /\ new[i] <= Len(more) /\ more[new[i]] = [key |-> "network", val |-> list[i].ssid]
             /\ list[i].password = NoPass => new[i + 1] = new[i] + 1
             /\ list[i].password # NoPass =>
                  new[i + 1] = new[i] + 2 /\ more[new[i] + 1] = [key |-> "password", val |-> list[i].password]
  <2>1. i \in 1 .. n + 1 /\ i + 1 \in 1 .. n + 1
    OBVIOUS
  <2>2. new[i] = st[i] /\ new[i + 1] = st[i + 1]
    BY <1>4, <2>1
  <2>3. st[i] \in 1 .. Len(file) + 1 /\ st[i + 1] \in 1 .. Len(file) + 1
    BY <1>3, <2>1
  <2>4. st[i] \in 1 .. Len(file) /\ (list[i].password # NoPass => st[i] + 1 \in 1 .. Len(file))
    <3>1. st[i] <= Len(file) /\ (list[i].password # NoPass => st[i + 1] = st[i] + 2)
      BY <1>3
    <3> QED BY <1>0, <2>3, <3>1, After, Zenon
  <2>5. more[st[i]] = file[st[i]] /\ (list[i].password # NoPass => more[st[i] + 1] = file[st[i] + 1])
    BY <1>1, <2>4
  <2>6. st[i] <= Len(more)
    BY <1>0, <1>1, <2>4
  <2> QED BY <1>3, <2>2, <2>5, <2>6
<1>7. new[n + 1] = Len(file) + 1
  BY <1>3, <1>4
<1>8. /\ new[n + 1] <= Len(more) /\ more[new[n + 1]] = [key |-> "network", val |-> list[n + 1].ssid]
      /\ list[n + 1].password = NoPass => new[n + 2] = new[n + 1] + 1
      /\ list[n + 1].password # NoPass =>
           /\ new[n + 2] = new[n + 1] + 2
           /\ more[new[n + 1] + 1] = [key |-> "password", val |-> list[n + 1].password]
  <2>1. /\ new[n + 1] <= Len(more) /\ more[new[n + 1]] = ls[1]
        /\ new[n + 2] = (Len(file) + Len(ls)) + 1
    BY <1>0, <1>1, <1>4, <1>7
  <2>2. CASE list[n + 1].password = NoPass
    <3>1. Len(ls) = 1
      BY <2>2
    <3> QED BY <1>0, <1>7, <2>1, <2>2, <3>1
  <2>3. CASE list[n + 1].password # NoPass
    <3>1. Len(ls) = 2 /\ ls[2] = [key |-> "password", val |-> list[n + 1].password]
      BY <2>3
    <3>2. new[n + 1] + 1 = Len(file) + 2 /\ new[n + 2] = new[n + 1] + 2
      BY <1>0, <1>7, <2>1, <3>1
    <3> QED BY <1>1, <2>1, <2>3, <3>1, <3>2
  <2> QED BY <2>2, <2>3
<1>9. (n + 1) + 1 = n + 2 /\ \A i \in 1 .. n + 1 : i \in 1 .. n \/ i = n + 1
  OBVIOUS
<1>10. \A i \in 1 .. n + 1 :
         /\ new[i] <= Len(more) /\ more[new[i]] = [key |-> "network", val |-> list[i].ssid]
         /\ list[i].password = NoPass => new[i + 1] = new[i] + 1
         /\ list[i].password # NoPass =>
              new[i + 1] = new[i] + 2 /\ more[new[i] + 1] = [key |-> "password", val |-> list[i].password]
  BY <1>6, <1>8, <1>9
<1>11. StartsAt(new, more, list, n + 1)
  BY <1>4, <1>5, <1>9, <1>10 DEF StartsAt
<1> QED BY <1>5, <1>9, <1>11 DEF Holds

(* One more entry at the end of a file.                                    *)
LEMMA OneMore ==
  ASSUME NEW file \in Seq(AnyLine), NEW list \in Seq(AnyEntry), NEW n \in Nat, n < Len(list),
         Holds(file, list, n), NEW more, more = file \o EntryLines(list[n + 1])
  PROVE  more \in Seq(AnyLine) /\ Holds(more, list, n + 1)
<1>1. list[n + 1] \in AnyEntry
  OBVIOUS
<1>2. PICK ls : ls = EntryLines(list[n + 1])
  OBVIOUS
<1>3. /\ ls \in Seq(AnyLine) /\ Len(ls) \in {1, 2}
      /\ ls[1] = [key |-> "network", val |-> list[n + 1].ssid]
      /\ list[n + 1].password = NoPass => Len(ls) = 1
      /\ list[n + 1].password # NoPass =>
           Len(ls) = 2 /\ ls[2] = [key |-> "password", val |-> list[n + 1].password]
  BY <1>1, <1>2, TwoLines
<1>4. /\ more \in Seq(AnyLine) /\ Len(more) = Len(file) + Len(ls)
      /\ \A i \in 1 .. Len(file) + Len(ls) : more[i] = IF i <= Len(file) THEN file[i] ELSE ls[i - Len(file)]
  <2>1. more = file \o ls
    BY <1>2, Zenon
  <2>2. /\ file \o ls \in Seq(AnyLine) /\ Len(file \o ls) = Len(file) + Len(ls)
        /\ \A i \in 1 .. Len(file) + Len(ls) :
             (file \o ls)[i] = IF i <= Len(file) THEN file[i] ELSE ls[i - Len(file)]
    BY <1>3, ConcatProperties, Zenon
  <2> QED BY <2>1, <2>2, Zenon
<1> QED BY <1>3, <1>4, MoreLines, Zenon
-----------------------------------------------------------------------------
(* The steps.                                                              *)

(* The list after each change of it.                                       *)
LEMMA ListChanges ==
  ASSUME Types
  PROVE  /\ \A s \in Ssids, p \in Passwords : config_set_network(s, p) =>
                nets' \in Seq(AnyEntry) /\ Len(nets') <= MaxNets
         /\ \A s \in Ssids : config_forget_network(s) => nets' \in Seq(AnyEntry) /\ Len(nets') <= MaxNets
<1>0. nets \in Seq(AnyEntry) /\ Len(nets) \in Nat /\ Len(nets) <= MaxNets /\ MaxNets \in Nat
  BY ConfigConstants DEF Types
<1>1. ASSUME NEW s \in Ssids, NEW p \in Passwords, config_set_network(s, p)
      PROVE  nets' \in Seq(AnyEntry) /\ Len(nets') <= MaxNets
  <2>1. PICK list : list = add_network(nets, s)
    OBVIOUS
  <2>2. list \in Seq(AnyEntry) /\ Len(list) <= MaxNets
    BY <1>0, <2>1, AddNetwork DEF Values
  <2>3. \/ nets' = list
        \/ \E i : nets' = [list EXCEPT ![i].password = p]
    BY <1>1, <2>1 DEF config_set_network
  <2>4. p \in Values
    BY DEF Values
  <2>5. CASE nets' = list
    BY <2>2, <2>5
  <2>6. CASE \E i : nets' = [list EXCEPT ![i].password = p]
    <3>1. PICK i : nets' = [list EXCEPT ![i].password = p]
      BY <2>6
    <3>2. /\ [list EXCEPT ![i].password = p] \in Seq(AnyEntry)
          /\ Len([list EXCEPT ![i].password = p]) = Len(list)
      BY <2>2, <2>4, SetPassword, Zenon
    <3>3. nets' \in Seq(AnyEntry) /\ Len(nets') = Len(list)
      BY <3>1, <3>2, Zenon
    <3> QED BY <2>2, <3>3
  <2> QED BY <2>3, <2>5, <2>6
<1>2. ASSUME NEW s \in Ssids, config_forget_network(s)
      PROVE  nets' \in Seq(AnyEntry) /\ Len(nets') <= MaxNets
  <2>1. Len(nets) # 0
    <3>1. network_match(nets, s) # 0
      BY <1>2 DEF config_forget_network
    <3>2. Len(nets) = 0 => network_match(nets, s) = 0
      BY <1>0 DEF network_match
    <3> QED BY <3>1, <3>2
  <2>2. PICK m : nets' = [j \in 1 .. Len(nets) - 1 |-> IF j < m THEN nets[j] ELSE nets[j + 1]]
    BY <1>2 DEF config_forget_network
  <2>3. \A j \in 1 .. Len(nets) - 1 : nets[j] \in AnyEntry /\ nets[j + 1] \in AnyEntry
    BY <1>0
  <2>4. Len(nets) - 1 \in Nat
    BY <1>0, <2>1
  <2>5. nets' \in [1 .. Len(nets) - 1 -> AnyEntry]
    BY <2>2, <2>3
  <2>6. nets' \in Seq(AnyEntry) /\ Len(nets') = Len(nets) - 1
    BY <2>4, <2>5
  <2> QED BY <1>0, <2>6
<1> QED BY <1>1, <1>2

(* The next entry in the temporary file.                                   *)
LEMMA NextEntry ==
  ASSUME Types, TmpInv, pc = "write", pos <= Len(nets), tmp' = tmp \o EntryLines(nets[pos])
  PROVE  tmp' \in Seq(AnyLine) /\ Holds(tmp', nets, pos)
<1>1. /\ pos - 1 \in Nat /\ pos - 1 < Len(nets) /\ (pos - 1) + 1 = pos
      /\ tmp \in Seq(AnyLine) /\ nets \in Seq(AnyEntry) /\ Holds(tmp, nets, pos - 1)
  BY DEF Types, TmpInv
<1>2. \A more : more = tmp \o EntryLines(nets[(pos - 1) + 1]) =>
        more \in Seq(AnyLine) /\ Holds(more, nets, (pos - 1) + 1)
  BY <1>1, OneMore, Zenon
<1>3. tmp' = tmp \o EntryLines(nets[(pos - 1) + 1])
  BY <1>1, Zenon
<1>4. tmp' \in Seq(AnyLine) /\ Holds(tmp', nets, (pos - 1) + 1)
  BY <1>2, <1>3, Zenon
<1> QED BY <1>1, <1>4, Zenon

(* Every step keeps Types.                                                 *)
LEMMA TypesStep ==
  ASSUME Types, TmpInv, [Next]_vars
  PROVE  Types'
<1>1. CASE load_file
  <2>1. CASE pos > Len(path) /\ UNCHANGED <<nets, pos>>
    BY <1>1, <2>1 DEF load_file, Types
  <2>2. CASE pos <= Len(path) /\ nets' = apply(nets, [path[pos] EXCEPT !.val = Trim[@]])
    <3>1. path[pos] \in AnyLine
      BY <2>2 DEF Types
    <3>2. PICK line \in AnyLine : line = [path[pos] EXCEPT !.val = Trim[@]]
      BY <3>1, TrimmedLine
    <3>3. nets' \in Seq(AnyEntry) /\ Len(nets') <= MaxNets
      BY <2>2, <3>2, ApplyType DEF Types
    <3> QED BY <1>1, <3>3 DEF load_file, Types
  <2> QED BY <1>1, <2>1, <2>2 DEF load_file
<1>2. CASE \E s \in Ssids : config_forget_network(s) \/ \E p \in Passwords : config_set_network(s, p)
  <2>1. nets' \in Seq(AnyEntry) /\ Len(nets') <= MaxNets
    BY <1>2, ListChanges
  <2>2. /\ tmp' = <<>> /\ pc' = "write" /\ pos' = 1 /\ fresh' = 0
        /\ UNCHANGED <<path, saved, written>>
    BY <1>2 DEF config_forget_network, config_set_network, Change, OpenTmp
  <2> QED BY <2>1, <2>2 DEF Types
<1>3. CASE WriteEntry
  <2>1. tmp' = tmp \/ (pos <= Len(nets) /\ tmp' = tmp \o EntryLines(nets[pos]))
    BY <1>3, Zenon DEF WriteEntry
  <2>2. tmp' \in Seq(AnyLine)
    <3>1. pc = "write" /\ tmp \in Seq(AnyLine)
      BY <1>3, Zenon DEF WriteEntry, Types
    <3> QED BY <2>1, <3>1, NextEntry, Zenon
  <2>3. /\ pos' \in {pos, pos + 1} /\ pc' \in {pc, "rename"}
        /\ UNCHANGED <<nets, path, saved, written, fresh>>
    BY <1>3 DEF WriteEntry
  <2> QED BY <2>2, <2>3 DEF Types
<1>4. CASE \E ok \in BOOLEAN : Rename(ok)
  BY <1>4 DEF Rename, Types
<1>5. CASE Restart
  BY <1>5, ConfigConstants DEF Restart, Types
<1>6. CASE UNCHANGED vars
  BY <1>6 DEF vars, Types
<1> QED BY <1>1, <1>2, <1>3, <1>4, <1>5, <1>6 DEF Next

(* Every step keeps TmpInv and FileIsWhole: the file is replaced only when *)
(* the temporary one is complete.                                          *)
LEMMA SaveStep ==
  ASSUME Types, TmpInv, FileIsWhole, [Next]_vars
  PROVE  TmpInv' /\ FileIsWhole'
<1>1. CASE load_file
  BY <1>1 DEF load_file, TmpInv, FileIsWhole
<1>2. CASE \E s \in Ssids : config_forget_network(s) \/ \E p \in Passwords : config_set_network(s, p)
  <2>1. tmp' = <<>> /\ pc' = "write" /\ pos' = 1 /\ UNCHANGED <<path, saved, written>>
    BY <1>2 DEF config_forget_network, config_set_network, Change, OpenTmp
  <2>2. Len(nets') \in Nat
    BY <1>2, ListChanges
  <2>3. ASSUME NEW list PROVE Holds(<<>>, list, 0)
    <3> DEFINE st == [i \in 1 .. 1 |-> 1]
    <3>1. st \in [1 .. 0 + 1 -> 1 .. Len(<<>>) + 1] /\ StartsAt(st, <<>>, list, 0)
      BY DEF StartsAt
    <3> HIDE DEF st
    <3> QED BY <3>1 DEF Holds
  <2>4. Holds(tmp', nets', pos' - 1)
    BY <2>1, <2>3
  <2> QED BY <2>1, <2>2, <2>4 DEF TmpInv, FileIsWhole
<1>3. CASE WriteEntry
  <2>1. FileIsWhole'
    BY <1>3 DEF WriteEntry, FileIsWhole
  <2>2. CASE pos > Len(nets) /\ pc' = "rename" /\ UNCHANGED tmp
    <3>1. pos - 1 = Len(nets) /\ pc = "write" /\ UNCHANGED nets
      BY <1>3, <2>2 DEF WriteEntry, TmpInv, Types
    <3> QED BY <2>1, <2>2, <3>1 DEF TmpInv
  <2>3. CASE pos <= Len(nets) /\ tmp' = tmp \o EntryLines(nets[pos]) /\ pos' = pos + 1 /\ UNCHANGED pc
    <3>1. pc = "write" /\ pc' = "write" /\ pos <= Len(nets) /\ UNCHANGED nets /\ pos' = pos + 1
      BY <1>3, <2>3, Zenon DEF WriteEntry
    <3>2. Holds(tmp', nets', pos)
      BY <2>3, <3>1, NextEntry, Zenon
    <3> HIDE <2>3
    <3>3. pos' - 1 = pos /\ pos' <= Len(nets') + 1
      BY <3>1 DEF Types
    <3> QED BY <2>1, <3>1, <3>2, <3>3 DEF TmpInv
  <2> QED BY <1>3, <2>2, <2>3, Zenon DEF WriteEntry
<1>4. CASE \E ok \in BOOLEAN : Rename(ok)
  BY <1>4 DEF Rename, TmpInv, FileIsWhole
<1>5. CASE Restart
  BY <1>5 DEF Restart, TmpInv, FileIsWhole
<1>6. CASE UNCHANGED vars
  BY <1>6 DEF vars, TmpInv, FileIsWhole
<1> QED BY <1>1, <1>2, <1>3, <1>4, <1>5, <1>6 DEF Next
-----------------------------------------------------------------------------
(* Loading the saved file.                                                 *)

(* A network line adds the next entry: its name is new and the list has    *)
(* room, as the saved list was no longer than a list may be.               *)
LEMMA LoadNetwork ==
  ASSUME NEW list \in Seq(AnyEntry), NEW from \in Seq(AnyEntry), Len(from) <= MaxNets, Distinct(from),
         NEW k, Copies(list, from, k, 0), k < Len(from),
         NEW w \in {0, 1}, w = 0 => from[k + 1].password = NoPass
  PROVE  Copies(add_network(list, Trim[from[k + 1].ssid]), from, k + 1, w)
<1>0. k \in Nat /\ Len(from) \in Nat /\ MaxNets \in Nat /\ Len(list) = k /\ k + 1 \in 1 .. Len(from)
  BY ConfigConstants DEF Copies
<1>1. \A i \in 1 .. k : /\ list[i].ssid = Trim[from[i].ssid] /\ list[i].password = Password(from[i])
                        /\ i \in 1 .. Len(from) /\ i # k + 1
  BY <1>0 DEF Copies
<1>2. PICK s : s = Trim[from[k + 1].ssid]
  OBVIOUS
<1>3. s \in Values
  <2>1. from[k + 1] \in AnyEntry
    BY <1>0
  <2> QED BY <1>2, <2>1, ConfigConstants DEF AnyEntry, Values
<1>4. \A i \in 1 .. Len(list) : list[i].ssid # s
  BY <1>0, <1>1, <1>2 DEF Distinct
<1>5. Len(list) < MaxNets /\ Len(list) <= MaxNets
  BY <1>0
<1>6. PICK new : new = [ssid |-> s, password |-> NoPass]
  OBVIOUS
<1>7. PICK more : more = add_network(list, s)
  OBVIOUS
<1>8. more = Append(list, new)
  BY <1>3, <1>4, <1>5, <1>6, <1>7, AddNetwork
<1>9. new \in AnyEntry
  BY <1>3, <1>6 DEF AnyEntry
<1>10. Len(more) = k + 1 /\ more[k + 1] = new /\ \A i \in 1 .. k : more[i] = list[i]
  BY <1>0, <1>8, <1>9
<1>11. w = 0 => NoPass = Password(from[k + 1])
  BY DEF Password
<1>12. \A i \in 1 .. k + 1 : i \in 1 .. k \/ i = k + 1
  BY <1>0
<1>13. \A i \in 1 .. k + 1 :
         /\ more[i].ssid = Trim[from[i].ssid]
         /\ more[i].password = IF i = k + 1 /\ w = 1 THEN NoPass ELSE Password(from[i])
  BY <1>1, <1>2, <1>6, <1>10, <1>11, <1>12
<1>14. k + 1 \in 0 .. Len(from)
  BY <1>0
<1> QED BY <1>2, <1>7, <1>10, <1>13, <1>14 DEF Copies

(* A password line completes the last entry.                               *)
LEMMA LoadPassword ==
  ASSUME NEW list \in Seq(AnyEntry), NEW from \in Seq(AnyEntry), NEW k, k # 0,
         Copies(list, from, k, 1), from[k].password # NoPass
  PROVE  Copies([list EXCEPT ![Len(list)].password = Trim[from[k].password]], from, k, 0)
<1>0. k \in Nat \ {0} /\ Len(list) = k /\ k \in 0 .. Len(from)
  BY DEF Copies
<1>1. PICK p : p = Trim[from[k].password]
  OBVIOUS
<1>2. p = Password(from[k])
  BY <1>1 DEF Password
<1>3. PICK new : new = [list EXCEPT ![Len(list)].password = p]
  OBVIOUS
<1>4. /\ DOMAIN new = 1 .. k /\ Len(new) = k
      /\ \A i \in 1 .. k : i # k => new[i] = list[i]
      /\ new[k] = [list[k] EXCEPT !.password = p]
  BY <1>0, <1>3
<1>5. new[k].ssid = list[k].ssid /\ new[k].password = p
  <2>1. list[k] \in AnyEntry
    BY <1>0
  <2>2. \A e \in AnyEntry : [e EXCEPT !.password = p].ssid = e.ssid /\ [e EXCEPT !.password = p].password = p
    BY DEF AnyEntry
  <2> QED BY <1>4, <2>1, <2>2
<1>6. \A i \in 1 .. k :
        /\ list[i].ssid = Trim[from[i].ssid]
        /\ i # k => list[i].password = Password(from[i])
  BY DEF Copies
<1>7. \A i \in 1 .. k : new[i].ssid = Trim[from[i].ssid] /\ new[i].password = Password(from[i])
  BY <1>0, <1>2, <1>4, <1>5, <1>6
<1> QED BY <1>0, <1>1, <1>3, <1>4, <1>7 DEF Copies

(* What StartsAt says of the saved file.                                   *)
LEMMA Layout ==
  ASSUME Types, NEW st, StartsAt(st, path, saved, Len(saved))
  PROVE  /\ Len(path) \in Nat /\ Len(saved) \in Nat
         /\ \A i \in 1 .. Len(saved) + 1 : st[i] \in Nat \ {0} /\ st[i] <= Len(path) + 1
         /\ st[1] = 1 /\ st[Len(saved) + 1] = Len(path) + 1
         /\ \A i \in 1 .. Len(saved) :
              /\ st[i] <= Len(path) /\ path[st[i]] = [key |-> "network", val |-> saved[i].ssid]
              /\ saved[i].password = NoPass => st[i + 1] = st[i] + 1
              /\ saved[i].password # NoPass =>
                   /\ st[i + 1] = st[i] + 2
                   /\ path[st[i] + 1] = [key |-> "password", val |-> saved[i].password]
<1>1. Len(path) \in Nat /\ Len(saved) \in Nat
  BY DEF Types
<1>2. \A i \in 1 .. Len(saved) + 1 : st[i] \in 1 .. Len(path) + 1
  BY DEF StartsAt
<1>3. \A i \in 1 .. Len(saved) + 1 : st[i] \in Nat \ {0} /\ st[i] <= Len(path) + 1
  BY <1>1, <1>2
<1> QED BY <1>1, <1>3 DEF StartsAt

(* One more line of the saved file is loaded.                              *)
LEMMA LoadLine ==
  ASSUME Types, Distinct(saved), NEW st, NEW k, NEW waits, Progress(st, k, waits),
         pos <= Len(path), nets' = apply(nets, [path[pos] EXCEPT !.val = Trim[@]]),
         pos' = pos + 1, UNCHANGED <<path, saved>>
  PROVE  \E k2, w2 : Progress(st, k2, w2)'
<1>0. /\ nets \in Seq(AnyEntry) /\ saved \in Seq(AnyEntry) /\ Len(saved) <= MaxNets
      /\ StartsAt(st, path, saved, Len(saved)) /\ Copies(nets, saved, k, waits)
      /\ k \in Nat /\ k <= Len(saved) /\ waits \in {0, 1} /\ Len(nets) = k
  BY DEF Types, Progress, Copies
<1>1. PICK line : line = [path[pos] EXCEPT !.val = Trim[@]]
  OBVIOUS
<1>2. CASE waits = 0
  <2>1. pos = st[k + 1] /\ Copies(nets, saved, k, 0)
    BY <1>0, <1>2 DEF Progress
  <2>2. k < Len(saved) /\ k + 1 \in 1 .. Len(saved) /\ Len(saved) \in Nat
    <3>1. st[Len(saved) + 1] = Len(path) + 1 /\ Len(path) \in Nat /\ Len(saved) \in Nat
      BY <1>0, Layout
    <3>2. k # Len(saved)
      BY <2>1, <3>1
    <3> QED BY <1>0, <3>1, <3>2
  <2>3. path[pos] = [key |-> "network", val |-> saved[k + 1].ssid]
    BY <1>0, <2>1, <2>2, Layout
  <2>4. line.key = "network" /\ line.val = Trim[saved[k + 1].ssid]
    BY <1>1, <2>3
  <2>5. nets' = add_network(nets, Trim[saved[k + 1].ssid])
    BY <1>1, <2>4 DEF apply
  <2>6. PICK w \in {0, 1} : /\ w = 0 => saved[k + 1].password = NoPass
                            /\ w = 1 => saved[k + 1].password # NoPass
    OBVIOUS
  <2>7. Copies(nets', saved, k + 1, w)
    BY <1>0, <2>1, <2>2, <2>5, <2>6, LoadNetwork
  <2>8. w = 0 => pos + 1 = st[(k + 1) + 1]
    BY <1>0, <2>1, <2>2, <2>6, Layout
  <2>9. Progress(st, k + 1, w)'
    BY <1>0, <2>1, <2>2, <2>6, <2>7, <2>8 DEF Progress
  <2> QED BY <2>9
<1>3. CASE waits = 1
  <2>1. k # 0 /\ saved[k].password # NoPass /\ pos = st[k] + 1 /\ Copies(nets, saved, k, 1)
    BY <1>0, <1>3 DEF Progress
  <2>2. k \in 1 .. Len(saved)
    BY <1>0, <2>1
  <2>3. path[pos] = [key |-> "password", val |-> saved[k].password]
    BY <1>0, <2>1, <2>2, Layout
  <2>4. line.key = "password" /\ line.val = Trim[saved[k].password]
    BY <1>1, <2>3
  <2>5. nets # <<>>
    BY <1>0, <2>1
  <2>6. nets' = [nets EXCEPT ![Len(nets)].password = Trim[saved[k].password]]
    BY <1>1, <2>4, <2>5 DEF apply
  <2>7. Copies(nets', saved, k, 0)
    <3>1. Copies([nets EXCEPT ![Len(nets)].password = Trim[saved[k].password]], saved, k, 0)
      BY <1>0, <2>1, LoadPassword, Zenon
    <3> QED BY <2>6, <3>1, Zenon
  <2>8. pos + 1 = st[k + 1]
    <3>1. st[k + 1] = st[k] + 2
      BY <1>0, <2>1, <2>2, Layout, Zenon
    <3>2. k \in 1 .. Len(saved) + 1
      BY <1>0, <2>1
    <3>3. st[k] \in Nat \ {0}
      BY <1>0, <3>2, Layout, Zenon
    <3> QED BY <2>1, <3>1, <3>3
  <2>9. Progress(st, k, 0)'
    BY <1>0, <2>7, <2>8 DEF Progress
  <2> QED BY <2>9
<1> QED BY <1>0, <1>2, <1>3

(* At the end of the saved file every entry is loaded, its password too.   *)
LEMMA LoadEnds ==
  ASSUME Types, NEW st, NEW k, NEW waits, Progress(st, k, waits), pos > Len(path)
  PROVE  Copies(nets, saved, Len(saved), 0)
<1>0. /\ StartsAt(st, path, saved, Len(saved)) /\ Copies(nets, saved, k, waits)
      /\ k \in Nat /\ k <= Len(saved) /\ waits \in {0, 1} /\ Len(saved) \in Nat /\ Len(path) \in Nat
  BY DEF Types, Progress, Copies
<1>1. CASE waits = 0
  <2>1. pos = st[k + 1] /\ Copies(nets, saved, k, 0)
    BY <1>0, <1>1 DEF Progress
  <2>2. k < Len(saved) => k + 1 \in 1 .. Len(saved)
    BY <1>0
  <2>3. k < Len(saved) => st[k + 1] <= Len(path)
    BY <1>0, <2>2, Layout, Zenon
  <2>4. k = Len(saved)
    BY <1>0, <2>1, <2>3 DEF Types
  <2> QED BY <2>1, <2>4
<1>2. CASE waits = 1
  <2>1. k # 0 /\ saved[k].password # NoPass /\ pos = st[k] + 1
    BY <1>0, <1>2 DEF Progress
  <2>2. k \in 1 .. Len(saved) /\ k \in 1 .. Len(saved) + 1 /\ k + 1 \in 1 .. Len(saved) + 1
    BY <1>0, <2>1
  <2>3. st[k + 1] = st[k] + 2 /\ st[k] \in Nat \ {0} /\ st[k + 1] <= Len(path) + 1
    BY <1>0, <2>1, <2>2, Layout, Zenon
  <2> QED BY <1>0, <2>1, <2>3
<1> QED BY <1>0, <1>1, <1>2

(* Every step keeps LoadInv.                                               *)
LEMMA LoadStep ==
  ASSUME Types, FileIsWhole, LoadInv, [Next]_vars
  PROVE  LoadInv'
<1>1. CASE load_file
  <2>0. /\ pc = "load" /\ UNCHANGED <<path, saved, written, fresh>>
        /\ pc' \in {"load", "ready"} /\ Distinct(saved)' = Distinct(saved)
    BY <1>1 DEF load_file, Distinct
  <2>1. ASSUME fresh = 1, Distinct(saved), pos <= Len(path), pc' = "load",
               nets' = apply(nets, [path[pos] EXCEPT !.val = Trim[@]]), pos' = pos + 1
        PROVE  \E st, k, waits : Progress(st, k, waits)'
    <3>1. PICK st, k, waits : Progress(st, k, waits)
      BY <2>0, <2>1 DEF LoadInv
    <3> QED BY <2>0, <2>1, <3>1, LoadLine
  <2>2. ASSUME fresh = 1, Distinct(saved), pos > Len(path), UNCHANGED nets
        PROVE  Copies(nets, saved, Len(saved), 0)'
    <3>1. PICK st, k, waits : Progress(st, k, waits)
      BY <2>0, <2>2 DEF LoadInv
    <3>2. Copies(nets, saved, Len(saved), 0)
      BY <2>2, <3>1, LoadEnds
    <3> QED BY <2>0, <2>2, <3>2
  <2>3. \/ /\ pos <= Len(path) /\ pc' = "load" /\ pos' = pos + 1
           /\ nets' = apply(nets, [path[pos] EXCEPT !.val = Trim[@]])
        \/ pos > Len(path) /\ pc' = "ready" /\ UNCHANGED nets
    BY <1>1, <2>0 DEF load_file
  <2> QED BY <2>0, <2>1, <2>2, <2>3 DEF LoadInv
<1>2. CASE \E s \in Ssids : config_forget_network(s) \/ \E p \in Passwords : config_set_network(s, p)
  <2>1. fresh' = 0
    BY <1>2 DEF config_forget_network, config_set_network, Change
  <2> QED BY <2>1 DEF LoadInv
<1>3. CASE WriteEntry
  <2>1. pc = "write" /\ fresh' = fresh
    BY <1>3, Zenon DEF WriteEntry
  <2> QED BY <2>1 DEF LoadInv
<1>4. CASE \E ok \in BOOLEAN : Rename(ok)
  <2>1. pc = "rename" /\ fresh' = fresh
    BY <1>4 DEF Rename
  <2> QED BY <2>1 DEF LoadInv
<1>5. CASE Restart
  <2>1. /\ fresh' = written /\ written' = written /\ pc' = "load" /\ nets' = <<>> /\ pos' = 1
        /\ UNCHANGED <<path, saved>>
    BY <1>5 DEF Restart
  <2>2. ASSUME written = 1 PROVE \E st, k, waits : Progress(st, k, waits)'
    <3>1. PICK st : StartsAt(st, path, saved, Len(saved))
      BY <2>2 DEF FileIsWhole, Holds
    <3>2. st[0 + 1] = 1 /\ Len(saved) \in Nat
      BY <3>1, Layout
    <3>3. Copies(<<>>, saved, 0, 0)
      BY <3>2 DEF Copies
    <3>4. Progress(st, 0, 0)'
      BY <2>1, <3>1, <3>2, <3>3 DEF Progress
    <3> QED BY <3>4
  <2> QED BY <2>1, <2>2 DEF LoadInv
<1>6. CASE UNCHANGED vars
  BY <1>6 DEF vars, LoadInv, Progress, Distinct
<1> QED BY <1>1, <1>2, <1>3, <1>4, <1>5, <1>6 DEF Next
-----------------------------------------------------------------------------
(* Initially there is no saved list.                                       *)
LEMMA InitHolds == Init => IInv
<1> SUFFICES ASSUME Init PROVE IInv
  OBVIOUS
<1>1. path \in Seq(AnyLine)
  <2>1. PICK n \in 0 .. MaxLines : path \in [1 .. n -> Lines]
    BY DEF Init, Files
  <2>2. Lines \subseteq AnyLine
    BY DEF Lines, AnyLine, Values
  <2>3. n \in Nat
    BY ConfigConstants
  <2> QED BY <2>1, <2>2, <2>3
<1> QED BY <1>1, ConfigConstants DEF Init, IInv, Types, FileIsWhole, TmpInv, LoadInv

(* IInv is an invariant of every behaviour.                                *)
LEMMA Invariance == Spec => []IInv
<1>1. IInv /\ [Next]_vars => IInv'
  BY TypesStep, SaveStep, LoadStep DEF IInv
<1> QED BY <1>1, InitHolds, PTL DEF Spec

(* config_save replaces the file by rename only when the temporary file is *)
(* complete: whenever the daemon dies and whichever save fails, the file   *)
(* holds the whole of the latest list saved.                               *)
THEOREM FileStaysWhole == Spec => []FileIsWhole
<1>1. IInv => FileIsWhole
  BY DEF IInv
<1> QED BY <1>1, Invariance, PTL

(* load_file reads back what config_save wrote, for lists of any length    *)
(* and any names and passwords: trimming is all that is lost, unless it    *)
(* makes two names equal.                                                  *)
THEOREM SaveThenLoad == Spec => []RoundTrip
<1>1. IInv => RoundTrip
  <2> SUFFICES ASSUME IInv, fresh = 1, pc = "ready",
                      IsInjective([i \in DOMAIN saved |-> Trim[saved[i].ssid]])
               PROVE  nets = Trimmed(saved)
    BY DEF RoundTrip
  <2>0. nets \in Seq(AnyEntry) /\ saved \in Seq(AnyEntry)
    BY DEF IInv, Types
  <2>1. Distinct(saved)
    BY <2>0 DEF Distinct, IsInjective
  <2>2. Copies(nets, saved, Len(saved), 0)
    BY <2>1 DEF IInv, LoadInv
  <2>3. DOMAIN nets = 1 .. Len(saved) /\ DOMAIN saved = 1 .. Len(saved) /\ nets = [i \in 1 .. Len(saved) |-> nets[i]]
    BY <2>0, <2>2 DEF Copies
  <2>4. ASSUME NEW i \in 1 .. Len(saved)
        PROVE  nets[i] = [ssid |-> Trim[saved[i].ssid],
                          password |-> IF saved[i].password = NoPass THEN NoPass ELSE Trim[saved[i].password]]
    <3>1. nets[i] \in AnyEntry
      BY <2>0, <2>3
    <3>2. /\ nets[i].ssid = Trim[saved[i].ssid]
          /\ nets[i].password = IF saved[i].password = NoPass THEN NoPass ELSE Trim[saved[i].password]
      BY <2>2 DEF Copies, Password
    <3> QED BY <3>1, <3>2 DEF AnyEntry
  <2> QED BY <2>3, <2>4 DEF Trimmed
<1> QED BY <1>1, Invariance, PTL
=============================================================================
