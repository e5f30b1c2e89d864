------------------------- MODULE TelnetdProofs ------------------------------
(***************************************************************************)
(* What is proved about telnetd and about what it hands to the other two   *)
(* daemons.                                                                *)
(*   Sessions: for any number of sessions, directories, tables and lines,  *)
(* atlas_ts never dangles, a crontab is open only for the Atlas session,   *)
(* and what eperd finds as root is one complete table.                     *)
(*   ONEOFF: for any number of commands and crashes the hand-over of the   *)
(* queue file keeps its types, no command is read twice or out of order,   *)
(* and none is lost between the daemons.                                   *)
(*   CRONTAB: for any number of tables and failures no descriptor leaks    *)
(* and a crontab whose announcement succeeded is not forgotten.            *)
(***************************************************************************)
EXTENDS TelnetSessions, OneoffHandover, CrontabHandover, TLAPS

(* The n lines that were sent for table t.                                 *)
Fill(n, t) == [i \in 1..n |-> t]

(* A session in the middle of a table has one, and no two share one.       *)
Owners ==
  /\ \A s \in Sessions : state[s] = "DO_CRONTAB" => table[s] # 0
  /\ \A r, s \in Sessions : table[r] = table[s] /\ table[r] # 0 => r = s

(* Nothing was sent for tables that have not been started.                 *)
Unused == \A t \in Tables : t > tables => total[t] = 0

(* An open root.new holds what the Atlas session sent so far.              *)
Writing ==
  atlas_crontab =>
    /\ dirOf[table[atlas_ts]] = atlas_dirname
    /\ newFile[atlas_dirname] = Fill(total[table[atlas_ts]], table[atlas_ts])

(* An installed table is one that nobody adds to any more.                 *)
Final(t) == \A s \in Sessions : state[s] = "DO_CRONTAB" => table[s] # t

Installed(d) ==
  \/ rootFile[d] = <<>>
  \/ \E t \in 1..tables :
        dirOf[t] = d /\ rootFile[d] = Fill(total[t], t) /\ Final(t)

Settled == \A d \in Dirs : Installed(d)

IInv ==
  /\ TypeOK /\ OpenForAtlasSession
  /\ Owners /\ Unused /\ Writing /\ Settled

-----------------------------------------------------------------------------
LEMMA FillNothing == \A t : Fill(0, t) = <<>>
  BY DEF Fill

LEMMA FillMore ==
  ASSUME NEW n \in Nat, NEW S, NEW t \in S
  PROVE  /\ Fill(n, t) \in Seq(S)
         /\ Append(Fill(n, t), t) = Fill(n + 1, t)
<1>1. Fill(n, t) \in Seq(S)
  BY DEF Fill
<1>2. Append(Fill(n, t), t) = Fill(n + 1, t)
  BY <1>1 DEF Fill
<1> QED  BY <1>1, <1>2, Zenon

LEMMA InitIInv == Init => IInv
<1> SUFFICES ASSUME Init PROVE IInv
  BY Zenon
<1>1. TypeOK
  <2>1. atlas_crontab \in BOOLEAN /\ atlas_ts = NoSession
    BY Zenon DEF Init
  <2>2. newFile \in [Dirs -> Seq(Tables)] /\ rootFile \in [Dirs -> Seq(Tables)]
    BY DEF Init
  <2>3. tables \in 0..MaxTable /\ table \in [Sessions -> 0..tables]
    BY SessionsAssumption DEF Init
  <2>4. dirOf \in [Tables -> Dirs] /\ total \in [Tables -> 0..MaxTotal]
    BY SessionsAssumption DEF Init
  <2>5. state \in [Sessions -> {"none"}] /\ atlas_dirname \in Dirs
    BY Zenon DEF Init
  <2> QED  BY <2>1, <2>2, <2>3, <2>4, <2>5, Zenon DEF TypeOK
<1>2. OpenForAtlasSession /\ Writing
  BY Zenon DEF Init, OpenForAtlasSession, Writing
<1>3. Owners /\ Unused
  BY Zenon DEF Init, Owners, Unused
<1>4. Settled
  BY Zenon DEF Init, Settled, Installed
<1> QED  BY <1>1, <1>2, <1>3, <1>4, Zenon DEF IInv

-----------------------------------------------------------------------------
(* What EndCrontab installs when it installs anything is the table of the  *)
(* session, complete.                                                      *)
LEMMA EndInstalls ==
  ASSUME IInv, NEW s \in Sessions, s = atlas_ts, EndCrontab(s)
  PROVE  \/ rootFile' = rootFile
         \/ /\ state[s] = "DO_CRONTAB" /\ atlas_crontab
            /\ table[s] \in 1..tables /\ table[s] \in Tables
            /\ dirOf[table[s]] = atlas_dirname
            /\ rootFile' = [rootFile EXCEPT ![atlas_dirname] =
                                Fill(total[table[s]], table[s])]
<1> SUFFICES ASSUME rootFile' # rootFile
             PROVE  /\ state[s] = "DO_CRONTAB" /\ atlas_crontab
                    /\ table[s] \in 1..tables /\ table[s] \in Tables
                    /\ dirOf[table[s]] = atlas_dirname
                    /\ rootFile' = [rootFile EXCEPT ![atlas_dirname] =
                                        Fill(total[table[s]], table[s])]
  BY Zenon
<1>1. /\ state[s] = "DO_CRONTAB" /\ atlas_crontab
      /\ rootFile' = [rootFile EXCEPT ![atlas_dirname] = newFile[atlas_dirname]]
  BY Zenon DEF EndCrontab
<1>2. table[s] # 0
  BY <1>1, Zenon DEF IInv, Owners
<1>3. table[s] \in 1..tables /\ table[s] \in Tables
  <2>1. table \in [Sessions -> 0..tables] /\ tables \in 0..MaxTable
    BY Zenon DEF IInv, TypeOK
  <2> QED  BY <1>2, <2>1, SessionsAssumption DEF Tables
<1>4. /\ dirOf[table[s]] = atlas_dirname
      /\ newFile[atlas_dirname] = Fill(total[table[s]], table[s])
  BY <1>1, Zenon DEF IInv, Writing
<1> QED  BY <1>1, <1>3, <1>4, Zenon

LEMMA EndType ==
  ASSUME TypeOK, NEW s \in Sessions, EndCrontab(s)
  PROVE  rootFile' \in [Dirs -> Seq(Tables)]
<1>1. rootFile' \in {rootFile, [rootFile EXCEPT ![atlas_dirname] = newFile[atlas_dirname]]}
  BY Zenon DEF EndCrontab
<1>2. /\ atlas_dirname \in Dirs /\ newFile \in [Dirs -> Seq(Tables)]
      /\ rootFile \in [Dirs -> Seq(Tables)]
  BY Zenon DEF TypeOK
<1> QED  BY <1>1, <1>2, Zenon

LEMMA NextType == IInv /\ [Next]_vars => TypeOK'
<1> SUFFICES ASSUME IInv, [Next]_vars PROVE TypeOK'
  BY Zenon
<1> DEFINE States == Commanding \cup
             {"none", "GET_LOGINNAME", "GET_PASSWORD", "DO_TRADITIONAL"}
<1>0. TypeOK
  BY Zenon DEF IInv
<1>1. /\ state \in [Sessions -> States]
      /\ atlas_ts \in Sessions \cup {NoSession}
      /\ atlas_dirname \in Dirs
      /\ newFile \in [Dirs -> Seq(Tables)] /\ rootFile \in [Dirs -> Seq(Tables)]
      /\ tables \in 0..MaxTable
      /\ table \in [Sessions -> 0..tables]
      /\ dirOf \in [Tables -> Dirs]
      /\ total \in [Tables -> 0..MaxTotal]
      /\ atlas_ts # NoSession => state[atlas_ts] \in Commanding
  BY Zenon DEF IInv, TypeOK
<1>2. atlas_crontab \in BOOLEAN
  BY Zenon DEF IInv, TypeOK
<1>3. atlas_crontab' \in BOOLEAN
  BY <1>2, Zenon DEF Next, vars, Connect, GetLoginname, GetPassword,
     Disconnect,
     KillOld, Kill, CronLine, Command, Reboot, StartCrontab
<1>4. CASE UNCHANGED vars
  BY <1>1, <1>3, <1>4, Zenon DEF vars, files, uploads, TypeOK
<1>5. CASE Next
  <2> PICK s \in Sessions :
         \/ Connect(s) \/ GetLoginname(s) \/ GetPassword(s) \/ Disconnect(s)
         \/ KillOld(s) \/ CronLine(s) \/ Command(s) \/ Reboot(s)
         \/ \E d \in Dirs : StartCrontab(s, d)
    BY <1>5, Zenon DEF Next
  <2> USE <1>1, <1>3 DEF TypeOK, files, uploads, Goto
  <2>1. CASE Connect(s)
    BY <2>1, Zenon DEF Connect, Commanding
  <2>2. CASE GetLoginname(s)
    BY <2>2, Zenon DEF GetLoginname, Commanding
  <2>3. CASE GetPassword(s)
    BY <2>3, Zenon DEF GetPassword, Commanding
  <2>4. CASE Disconnect(s) \/ KillOld(s)
    BY <2>4, Zenon DEF Disconnect, KillOld, Kill, Commanding
  <2>5. CASE CronLine(s)
    <3>1. table[s] \in Tables
      BY <2>5, SessionsAssumption DEF CronLine, IInv, Owners, Tables
    <3> DEFINE longer == Append(newFile[atlas_dirname], table[s])
    <3>2. newFile' \in [Dirs -> Seq(Tables)]
      <4>1. longer \in Seq(Tables)
        BY <3>1
      <4>2. newFile' \in {newFile, [newFile EXCEPT ![atlas_dirname] = longer]}
        BY <2>5, Zenon DEF CronLine
      <4> QED  BY <4>1, <4>2, Zenon
    <3>3. total' \in [Tables -> 0..MaxTotal]
      BY <2>5, <3>1, SessionsAssumption, SMTT(30) DEF CronLine
    <3> QED  BY <2>5, <3>2, <3>3, Zenon DEF CronLine
  <2>6. CASE Command(s)
    <3>1. rootFile' \in [Dirs -> Seq(Tables)]
      BY <2>6, EndType, <1>0, Zenon DEF Command
    <3> QED  BY <2>6, <3>1, Zenon DEF Command, Commanding
  <2>7. CASE Reboot(s)
    <3>1. rootFile' \in [Dirs -> Seq(Tables)]
      BY <2>7, EndType, <1>0, Zenon DEF Reboot
    <3> QED  BY <2>7, <3>1, Zenon DEF Reboot, Commanding
  <2>8. ASSUME NEW d \in Dirs, StartCrontab(s, d) PROVE TypeOK'
    <3>1. rootFile' \in [Dirs -> Seq(Tables)]
      BY <2>8, EndType, <1>0, Zenon DEF StartCrontab
    <3>2. newFile' \in [Dirs -> Seq(Tables)]
      BY <2>8 DEF StartCrontab
    <3>3. /\ tables' \in 0..MaxTable /\ tables' \in Tables
          /\ table' \in [Sessions -> 0..tables']
      BY <2>8, SessionsAssumption, SMTT(30) DEF StartCrontab, Tables
    <3>4. dirOf' \in [Tables -> Dirs]
      BY <2>8, <3>3, Zenon DEF StartCrontab
    <3> QED  BY <2>8, <3>1, <3>2, <3>3, <3>4, Zenon
                DEF StartCrontab, Commanding
  <2> QED  BY <2>1, <2>2, <2>3, <2>4, <2>5, <2>6, <2>7, <2>8, Zenon
<1> QED  BY <1>4, <1>5, Zenon

LEMMA NextOpen == IInv /\ [Next]_vars => OpenForAtlasSession'
<1> SUFFICES ASSUME IInv, [Next]_vars PROVE OpenForAtlasSession'
  BY Zenon
<1>1. /\ OpenForAtlasSession
      /\ state \in [Sessions -> Commanding \cup
                      {"none", "GET_LOGINNAME", "GET_PASSWORD", "DO_TRADITIONAL"}]
      /\ atlas_ts \in Sessions \cup {NoSession}
  BY Zenon DEF IInv, TypeOK
<1>2. CASE UNCHANGED vars
  BY <1>1, <1>2, Zenon DEF vars, OpenForAtlasSession
<1>3. CASE Next
  <2> PICK s \in Sessions :
         \/ Connect(s) \/ GetLoginname(s) \/ GetPassword(s) \/ Disconnect(s)
         \/ KillOld(s) \/ CronLine(s) \/ Command(s) \/ Reboot(s)
         \/ \E d \in Dirs : StartCrontab(s, d)
    BY <1>3, Zenon DEF Next
  <2> USE <1>1 DEF OpenForAtlasSession, Goto
  <2>1. CASE Connect(s) \/ GetLoginname(s)
    BY <2>1, Zenon DEF Connect, GetLoginname
  <2>2. CASE GetPassword(s)
    BY <2>2, Zenon DEF GetPassword
  <2>3. CASE Disconnect(s) \/ KillOld(s)
    BY <2>3, Zenon DEF Disconnect, KillOld, Kill
  <2>4. CASE CronLine(s)
    BY <2>4, Zenon DEF CronLine
  <2>5. CASE Command(s) \/ Reboot(s)
    BY <2>5, Zenon DEF Command, Reboot
  <2>6. CASE \E d \in Dirs : StartCrontab(s, d)
    BY <2>6, SessionsAssumption DEF StartCrontab
  <2> QED  BY <2>1, <2>2, <2>3, <2>4, <2>5, <2>6, Zenon
<1> QED  BY <1>2, <1>3, Zenon

LEMMA NextOwners == IInv /\ [Next]_vars => Owners' /\ Unused'
<1> SUFFICES ASSUME IInv, [Next]_vars PROVE Owners' /\ Unused'
  BY Zenon
<1>1. /\ Owners /\ Unused
      /\ state \in [Sessions -> Commanding \cup
                      {"none", "GET_LOGINNAME", "GET_PASSWORD", "DO_TRADITIONAL"}]
      /\ tables \in 0..MaxTable
      /\ table \in [Sessions -> 0..tables]
      /\ total \in [Tables -> 0..MaxTotal]
  BY Zenon DEF IInv, TypeOK
<1>2. CASE UNCHANGED vars
  BY <1>1, <1>2, Zenon DEF vars, uploads, Owners, Unused
<1>3. CASE Next
  <2> PICK s \in Sessions :
         \/ Connect(s) \/ GetLoginname(s) \/ GetPassword(s) \/ Disconnect(s)
         \/ KillOld(s) \/ CronLine(s) \/ Command(s) \/ Reboot(s)
         \/ \E d \in Dirs : StartCrontab(s, d)
    BY <1>3, Zenon DEF Next
  <2> USE <1>1, SessionsAssumption DEF Owners, Unused, Goto, uploads
  <2>1. CASE Connect(s) \/ GetLoginname(s) \/ GetPassword(s)
    BY <2>1, Zenon DEF Connect, GetLoginname, GetPassword
  <2>2. CASE Disconnect(s) \/ KillOld(s)
    BY <2>2, Zenon DEF Disconnect, KillOld, Kill
  <2>3. CASE CronLine(s)
    BY <2>3 DEF CronLine, Tables
  <2>4. CASE Command(s) \/ Reboot(s)
    BY <2>4, Zenon DEF Command, Reboot
  <2>5. CASE \E d \in Dirs : StartCrontab(s, d)
    BY <2>5 DEF StartCrontab, Tables
  <2> QED  BY <2>1, <2>2, <2>3, <2>4, <2>5, Zenon
<1> QED  BY <1>2, <1>3, Zenon

LEMMA NextWriting == IInv /\ [Next]_vars => Writing'
<1> SUFFICES ASSUME IInv, [Next]_vars, atlas_crontab'
             PROVE  /\ dirOf'[table'[atlas_ts']] = atlas_dirname'
                    /\ newFile'[atlas_dirname'] =
                          Fill(total'[table'[atlas_ts']], table'[atlas_ts'])
  BY Zenon DEF Writing, Fill
<1> DEFINE t == table[atlas_ts]
<1>1. /\ atlas_ts \in Sessions \cup {NoSession}
      /\ atlas_dirname \in Dirs
      /\ newFile \in [Dirs -> Seq(Tables)]
      /\ tables \in 0..MaxTable
      /\ table \in [Sessions -> 0..tables]
      /\ dirOf \in [Tables -> Dirs]
      /\ total \in [Tables -> 0..MaxTotal]
  BY Zenon DEF IInv, TypeOK
<1>2. atlas_crontab => /\ dirOf[t] = atlas_dirname
                       /\ newFile[atlas_dirname] = Fill(total[t], t)
                       /\ atlas_ts # NoSession
  BY Zenon DEF IInv, Writing, OpenForAtlasSession
<1>3. CASE UNCHANGED vars
  BY <1>2, <1>3, Zenon DEF vars, files, uploads
<1>4. CASE Next
  <2> PICK s \in Sessions :
         \/ Connect(s) \/ GetLoginname(s) \/ GetPassword(s) \/ Disconnect(s)
         \/ KillOld(s) \/ CronLine(s) \/ Command(s) \/ Reboot(s)
         \/ \E d \in Dirs : StartCrontab(s, d)
    BY <1>4, Zenon DEF Next
  <2>1. CASE Connect(s) \/ GetLoginname(s)
    BY <1>2, <2>1, Zenon DEF Connect, GetLoginname, files, uploads
  <2>2. CASE GetPassword(s)
    BY <1>2, <2>2, Zenon DEF GetPassword
  <2>3. CASE Disconnect(s) \/ KillOld(s)
    BY <1>2, <2>3, Zenon DEF Disconnect, KillOld, Kill, files, uploads
  <2>4. CASE CronLine(s)
    <3>1. /\ s = atlas_ts /\ atlas_ts' = atlas_ts /\ table' = table
          /\ dirOf' = dirOf /\ atlas_dirname' = atlas_dirname
          /\ total' = [total EXCEPT ![t] = @ + 1]
      BY <2>4, Zenon DEF CronLine
    <3>2. /\ atlas_crontab
          /\ newFile' = [newFile EXCEPT ![atlas_dirname] = Append(@, t)]
      BY <2>4, Zenon DEF CronLine
    <3>3. t \in Tables
      BY <1>1, <2>4, SessionsAssumption, SMTT(30)
         DEF CronLine, IInv, Owners, Tables
    <3>4. total[t] \in Nat
      BY <1>1, <3>3, SessionsAssumption, SMTT(30)
    <3>5. Append(Fill(total[t], t), t) = Fill(total[t] + 1, t)
      BY <3>3, <3>4, FillMore, Zenon
    <3> QED  BY <1>1, <1>2, <3>1, <3>2, <3>3, <3>5, Zenon
  <2>5. CASE Command(s)
    <3>1. atlas_crontab /\ state[s] = "GET_CMD" /\ s = atlas_ts
      BY <2>5, Zenon DEF Command
    <3>2. state[atlas_ts] = "DO_CRONTAB"
      BY <3>1, Zenon DEF IInv, OpenForAtlasSession
    <3> QED  BY <3>1, <3>2, Zenon
  <2>6. CASE Reboot(s)
    BY <2>6, Zenon DEF Reboot
  <2>7. ASSUME NEW d \in Dirs, StartCrontab(s, d)
        PROVE  /\ dirOf'[table'[atlas_ts']] = atlas_dirname'
               /\ newFile'[atlas_dirname'] =
                     Fill(total'[table'[atlas_ts']], table'[atlas_ts'])
    <3>1. /\ s = atlas_ts /\ atlas_ts' = atlas_ts /\ total' = total
          /\ atlas_dirname' = d
          /\ newFile' = [newFile EXCEPT ![d] = <<>>]
          /\ table' = [table EXCEPT ![s] = tables + 1]
          /\ dirOf' = [dirOf EXCEPT ![tables + 1] = d]
          /\ tables < MaxTable
      BY <2>7, Zenon DEF StartCrontab
    <3>2. tables + 1 \in Tables /\ total[tables + 1] = 0
      BY <1>1, <3>1, SessionsAssumption DEF IInv, Unused, Tables
    <3>3. newFile'[d] = Fill(0, tables + 1)
      BY <1>1, <3>1, FillNothing, Zenon
    <3> QED  BY <1>1, <3>1, <3>2, <3>3, Zenon
  <2> QED  BY <2>1, <2>2, <2>3, <2>4, <2>5, <2>6, <2>7, Zenon
<1> QED  BY <1>3, <1>4, Zenon

(* A table stays installed when it stays as it is and nobody begins it.     *)
LEMMA InstalledKept ==
  ASSUME NEW d \in Dirs, Installed(d), tables \in Nat, tables' \in Nat,
         rootFile'[d] = rootFile[d], tables <= tables',
         \A t \in 1..tables : Final(t) =>
            dirOf'[t] = dirOf[t] /\ total'[t] = total[t] /\ Final(t)'
  PROVE  Installed(d)'
<1>1. CASE rootFile[d] = <<>>
  BY <1>1, Zenon DEF Installed
<1>2. ASSUME NEW t \in 1..tables,
             dirOf[t] = d /\ rootFile[d] = Fill(total[t], t) /\ Final(t)
      PROVE  Installed(d)'
  <2>1. t \in 1..tables'
    OBVIOUS
  <2>2. dirOf'[t] = d /\ rootFile'[d] = Fill(total'[t], t) /\ Final(t)'
    BY <1>2, Zenon
  <2> QED
    BY <2>1, <2>2, Zenon DEF Installed, Fill
<1> QED
  BY <1>1, <1>2, Zenon DEF Installed

LEMMA NextSettled == IInv /\ [Next]_vars => Settled'
<1> SUFFICES ASSUME IInv, [Next]_vars, NEW d \in Dirs PROVE Installed(d)'
  BY Zenon DEF Settled
<1>1. /\ state \in [Sessions -> Commanding \cup
                      {"none", "GET_LOGINNAME", "GET_PASSWORD", "DO_TRADITIONAL"}]
      /\ atlas_dirname \in Dirs /\ rootFile \in [Dirs -> Seq(Tables)]
      /\ tables \in Nat /\ tables <= MaxTable
      /\ table \in [Sessions -> 0..tables]
      /\ dirOf \in [Tables -> Dirs]
      /\ total \in [Tables -> 0..MaxTotal]
  BY SessionsAssumption DEF IInv, TypeOK
<1>2. Installed(d) /\ Owners
  BY Zenon DEF IInv, Settled
<1>3. ASSUME rootFile' = rootFile, UNCHANGED uploads,
             \A s \in Sessions : state'[s] = "DO_CRONTAB" => state[s] = "DO_CRONTAB"
      PROVE  Installed(d)'
  <2>1. \A t \in 1..tables : Final(t) => Final(t)'
    BY <1>3, Zenon DEF Final, uploads
  <2> QED
    BY <1>1, <1>2, <1>3, <2>1, InstalledKept DEF uploads
<1>4. CASE UNCHANGED vars
  BY <1>3, <1>4, Zenon DEF vars, files
<1>5. CASE Next
  <2> PICK s \in Sessions :
         \/ Connect(s) \/ GetLoginname(s) \/ GetPassword(s) \/ Disconnect(s)
         \/ KillOld(s) \/ CronLine(s) \/ Command(s) \/ Reboot(s)
         \/ \E e \in Dirs : StartCrontab(s, e)
    BY <1>5, Zenon DEF Next
  <2>1. CASE Connect(s) \/ GetLoginname(s) \/ GetPassword(s)
    BY <1>1, <1>3, <2>1, Zenon DEF Connect, GetLoginname, GetPassword, Goto,
       files
  <2>2. CASE Disconnect(s) \/ KillOld(s)
    BY <1>1, <1>3, <2>2, Zenon DEF Disconnect, KillOld, Kill, Goto, files
  <2>3. CASE CronLine(s)
    <3>1. /\ state' = state /\ rootFile' = rootFile /\ UNCHANGED <<table, dirOf, tables>>
          /\ state[s] = "DO_CRONTAB" /\ total' = [total EXCEPT ![table[s]] = @ + 1]
      BY <2>3, Zenon DEF CronLine
    <3>2. \A t \in 1..tables : Final(t) => t # table[s] /\ Final(t)'
      BY <3>1, Zenon DEF Final
    <3>3. \A t \in 1..tables : t # table[s] => total'[t] = total[t]
      BY <1>1, <3>1, SessionsAssumption DEF Tables
    <3> QED
      BY <1>1, <1>2, <3>1, <3>2, <3>3, InstalledKept, SMTT(30)
  <2>4. CASE Command(s) \/ Reboot(s)
    <3>1. /\ s = atlas_ts /\ EndCrontab(s) /\ UNCHANGED <<table, dirOf, total, tables>>
          /\ state'[s] # "DO_CRONTAB"
          /\ \A r \in Sessions : state'[r] = "DO_CRONTAB" => state[r] = "DO_CRONTAB"
      BY <1>1, <2>4, Zenon DEF Command, Reboot, Goto, uploads
    <3>2. CASE rootFile' = rootFile
      BY <1>3, <3>1, <3>2, Zenon DEF uploads
    <3>3. CASE rootFile' # rootFile
      <4>1. /\ table[s] \in 1..tables /\ dirOf[table[s]] = atlas_dirname
            /\ rootFile' = [rootFile EXCEPT ![atlas_dirname] =
                                Fill(total[table[s]], table[s])]
        BY <3>1, <3>3, EndInstalls, Zenon
      <4>2. Final(table[s])'
        BY <1>2, <3>1, <4>1, Zenon DEF Final, Owners
      <4>3. CASE d = atlas_dirname
        <5>1. rootFile'[d] = Fill(total'[table[s]], table[s])
          BY <1>1, <3>1, <4>1, <4>3, Zenon
        <5> QED
          BY <3>1, <4>1, <4>2, <4>3, <5>1, ZenonT(30) DEF Installed, Fill
      <4>4. CASE d # atlas_dirname
        <5>1. \A t \in 1..tables : Final(t) => Final(t)'
          BY <3>1, Zenon DEF Final
        <5> QED
          BY <1>1, <1>2, <3>1, <4>1, <4>4, <5>1, InstalledKept
      <4> QED
        BY <4>3, <4>4, Zenon
    <3> QED
      BY <3>2, <3>3, Zenon
  <2>5. ASSUME NEW e \in Dirs, StartCrontab(s, e) PROVE Installed(d)'
    <3>1. /\ s = atlas_ts /\ EndCrontab(s) /\ total' = total
          /\ tables' = tables + 1
          /\ table' = [table EXCEPT ![s] = tables + 1]
          /\ dirOf' = [dirOf EXCEPT ![tables + 1] = e]
          /\ \A r \in Sessions : r # s => state'[r] = state[r]
      BY <1>1, <2>5, Zenon DEF StartCrontab, Goto
    <3>2. \A t \in 1..tables : dirOf'[t] = dirOf[t]
      BY <1>1, <3>1, SessionsAssumption DEF Tables
    <3>3. \A t \in 1..tables : Final(t) => Final(t)'
      BY <1>1, <3>1 DEF Final
    <3>4. CASE rootFile'[d] = rootFile[d]
      BY <1>1, <1>2, <3>1, <3>2, <3>3, <3>4, InstalledKept, SMTT(30)
    <3>5. CASE rootFile'[d] # rootFile[d]
      <4>1. /\ table[s] \in 1..tables /\ dirOf[table[s]] = atlas_dirname
            /\ rootFile' = [rootFile EXCEPT ![atlas_dirname] =
                                Fill(total[table[s]], table[s])]
        BY <3>1, <3>5, EndInstalls, Zenon
      <4> PICK t \in 1..tables : t = table[s]
        BY <4>1, Zenon
      <4>2. d = atlas_dirname /\ rootFile'[d] = Fill(total'[t], t)
        BY <1>1, <3>1, <3>5, <4>1, Zenon
      <4>3. Final(t)'
        <5> SUFFICES ASSUME NEW r \in Sessions, state'[r] = "DO_CRONTAB"
                     PROVE  table'[r] # t
          BY Zenon DEF Final
        <5>1. CASE r = s
          BY <1>1, <3>1, <5>1
        <5>2. CASE r # s
          BY <1>1, <1>2, <3>1, <5>2, Zenon DEF Owners
        <5> QED
          BY <5>1, <5>2, Zenon
      <4>4. t \in 1..tables' /\ dirOf'[t] = d
        BY <1>1, <3>1, <3>2, <4>1, <4>2
      <4> QED
        BY <4>2, <4>3, <4>4, Zenon DEF Installed, Fill
    <3> QED
      BY <3>4, <3>5, Zenon
  <2> QED
    BY <2>1, <2>2, <2>3, <2>4, <2>5, Zenon
<1> QED
  BY <1>4, <1>5, Zenon

-----------------------------------------------------------------------------
LEMMA NextIInv == IInv /\ [Next]_vars => IInv'
  BY NextType, NextOpen, NextOwners, NextWriting, NextSettled, Zenon DEF IInv

LEMMA Invariance == Spec => []IInv
  BY InitIInv, NextIInv, PTL DEF Spec

(* atlas_ts never points to a session that was freed or has not logged in:  *)
(* every path that frees a session clears it (kill_session).                *)
THEOREM TypeCorrect == Spec => []TypeOK
<1>1. IInv => TypeOK
  BY Zenon DEF IInv
<1> QED
  BY <1>1, Invariance, PTL

(* root.new is open only for the Atlas session and while it is in a table,  *)
(* so start_crontab never finds one open.                                   *)
THEOREM CrontabIsFree == Spec => []OpenForAtlasSession
<1>1. IInv => OpenForAtlasSession
  BY Zenon DEF IInv
<1> QED
  BY <1>1, Invariance, PTL

(* Whatever root holds is one complete table meant for its directory,       *)
(* however sessions take over from each other in the middle of theirs.      *)
THEOREM RootComplete == Spec => []RootIsOneTable
<1>1. IInv => RootIsOneTable
  <2> SUFFICES ASSUME IInv, NEW d \in Dirs, rootFile[d] # <<>>
               PROVE  \E t \in Tables :
                        dirOf[t] = d /\ rootFile[d] = [i \in 1..total[t] |-> t]
    BY Zenon DEF RootIsOneTable
  <2>1. PICK t \in 1..tables : dirOf[t] = d /\ rootFile[d] = Fill(total[t], t)
    BY Zenon DEF IInv, Settled, Installed
  <2>2. t \in Tables
    BY SessionsAssumption DEF IInv, TypeOK, Tables
  <2> QED
    BY <2>1, <2>2, Zenon DEF Fill
<1> QED
  BY <1>1, Invariance, PTL

-----------------------------------------------------------------------------
(* The hand-over of one-off commands.                                      *)
Queued == lines["q"] \cup lines["new"]

(* "q" and "new" never exist together: while telnetd is inside do_oneoff   *)
(* there is no "q", and a leftover "new" is only there when "q" is not.    *)
OneQueueFile ==
  /\ \A n \in Names : n \notin exists => lines[n] = {}
  /\ ~("q" \in exists /\ "new" \in exists)
  /\ tpc # "idle" => "q" \notin exists
  /\ tpc = "back" => "new" \in exists
  /\ tpc # "idle" => asked \in Lines
  /\ epc # "reading" => unread = {}

(* Lines that were read come before those eooqd has taken, these before    *)
(* the ones still queued, and the line telnetd is about to append is the   *)
(* last of all.                                                            *)
Ordered ==
  /\ \A l \in Taken, m \in Queued : l < m
  /\ \A l \in Lines : read[l] > 0 => \A m \in Queued \cup Taken : l < m
  /\ \A l \in Lines :
        read[l] > 0 \/ l \in Queued \cup Taken
          => l <= asked /\ (tpc = "append" => l < asked)

OneoffIInv == OneoffTypeOK /\ OneQueueFile /\ Ordered /\ AtMostOnce /\ NoLineVanishes

-----------------------------------------------------------------------------
LEMMA OneoffInitIInv == OneoffInit => OneoffIInv
BY OneoffAssumption, SMTT(30)
   DEF OneoffInit, OneoffIInv, OneoffTypeOK, OneQueueFile,
      Ordered, AtMostOnce, NoLineVanishes,
       Queued, Taken, Names, Lines

(* Every system call of either daemon, and every crash, keeps IInv.        *)
LEMMA OneoffNextIInv == OneoffIInv /\ [OneoffNext]_oneoffVars => OneoffIInv'
<1> SUFFICES ASSUME OneoffIInv,
                    [OneoffNext]_oneoffVars PROVE OneoffIInv'
  BY Zenon
<1> USE OneoffAssumption DEF OneoffIInv, OneoffTypeOK, OneQueueFile, Ordered,
   AtMostOnce, NoLineVanishes,
        Queued, Taken, Names, Lines, qfiles,
        tvars, evars
<1>1. CASE Grab
  <2>1. OneoffTypeOK'
    <3>1. exists' \subseteq Names /\ lines' \in [Names -> SUBSET Lines] /\ torn' \subseteq Names
      BY <1>1, Zenon DEF Grab, Rename
    <3>2. asked' \in 0..MaxLine
      BY <1>1 DEF Grab
    <3> QED
      BY <1>1, <3>1, <3>2, Zenon DEF Grab
  <2>2. OneQueueFile'
    BY <1>1 DEF Grab, Rename
  <2>3. Ordered'
    <3>1. Queued' = Queued /\ Taken' = Taken
      BY <1>1, Zenon DEF Grab, Rename
    <3>2. read' = read /\ asked < asked'
      BY <1>1 DEF Grab
    <3> HIDE DEF Queued, Taken
    <3> QED
      BY <1>1, <3>1, <3>2 DEF Grab
  <2>4. AtMostOnce'
    BY <1>1, Zenon DEF Grab, Rename
  <2>5. NoLineVanishes'
    BY <1>1 DEF Grab, Rename
  <2> QED
    BY <2>1, <2>2, <2>3, <2>4, <2>5, Zenon
<1>2. CASE AppendLine
  <2>0. \/ lines' = [lines EXCEPT !["new"] = @ \cup {asked}] /\ unsaved' = unsaved
        \/ lines' = lines /\ unsaved' = unsaved \cup {asked}
    BY <1>2, Zenon DEF AppendLine
  <2>1. OneoffTypeOK'
    <3>1. torn' \subseteq Names /\ unsaved' \subseteq accepted'
      BY <1>2, Zenon DEF AppendLine
    <3>2. lines' \in [Names -> SUBSET Lines] /\ accepted' \subseteq Lines
      <4>1. asked \in Lines /\ lines["new"] \cup {asked} \subseteq Lines
        BY <1>2, Zenon DEF AppendLine
      <4> QED
        BY <1>2, <2>0, <4>1 DEF AppendLine
    <3> QED
      BY <1>2, <3>1, <3>2, Zenon DEF AppendLine
  <2>2. OneQueueFile'
    BY <1>2, Zenon DEF AppendLine
  <2>3. Ordered'
    <3>1. CASE lines' = lines
      BY <1>2, <3>1 DEF AppendLine
    <3>2. CASE lines' = [lines EXCEPT !["new"] = @ \cup {asked}]
      BY <1>2, <3>2 DEF AppendLine
    <3> QED
      BY <2>0, <3>1, <3>2, Zenon
  <2>4. AtMostOnce'
    BY <1>2, Zenon DEF AppendLine
  <2>5. NoLineVanishes'
    <3>1. CASE lines' = lines /\ unsaved' = unsaved \cup {asked}
      BY <1>2, <3>1, Zenon DEF AppendLine
    <3>2. CASE lines' = [lines EXCEPT !["new"] = @ \cup {asked}] /\ unsaved' = unsaved
      BY <1>2, <3>2 DEF AppendLine
    <3> QED
      BY <2>0, <3>1, <3>2, Zenon
  <2> QED
    BY <2>1, <2>2, <2>3, <2>4, <2>5, Zenon
<1>3. CASE AppendFails
  BY <1>3, Zenon DEF AppendFails
<1>4. CASE RenameBack
  BY <1>4, ZenonT(30) DEF RenameBack, Rename
<1>5. CASE TelnetdCrash
  BY <1>5, SMTT(30) DEF TelnetdCrash
<1>6. CASE StatQueue
  BY <1>6, Zenon DEF StatQueue
<1>7. CASE UnlinkCurr
  BY <1>7, Zenon DEF UnlinkCurr, Unlink
<1>8. CASE RenameQueue
  BY <1>8, ZenonT(30) DEF RenameQueue, Rename
<1>9. CASE OpenCurr
  BY <1>9, Zenon DEF OpenCurr
<1>10. CASE ReadLine
  <2>0. PICK l \in unread : /\ unread' = unread \ {l}
                           /\ read' = [read EXCEPT ![l] = @ + 1]
    BY <1>10, Zenon DEF ReadLine
  <2>1. OneoffTypeOK'
    <3>1. read' \in [Lines -> Nat]
      <4>1. read \in [Lines -> Nat] /\ l \in Lines
        BY <2>0, Zenon
      <4>2. read[l] + 1 \in Nat
        BY ONLY <4>1
      <4> QED  BY <2>0, <4>1, <4>2, Zenon
    <3> QED  BY <1>10, <2>0, <3>1, Zenon DEF ReadLine
  <2>2. OneQueueFile'
    BY <1>10, Zenon DEF ReadLine
  <2>3. Ordered'
    BY <1>10, SMTT(30) DEF ReadLine
  <2>4. AtMostOnce'
    BY <1>10 DEF ReadLine
  <2>5. NoLineVanishes'
    BY <1>10 DEF ReadLine
  <2> QED
    BY <2>1, <2>2, <2>3, <2>4, <2>5, Zenon
<1>11. CASE EndOfFile
  BY <1>11, Zenon DEF EndOfFile
<1>12. CASE EooqdCrash
  <2>1. OneoffTypeOK'
    <3>1. Taken \subseteq Lines
      BY Zenon
    <3> HIDE DEF Taken
    <3> QED
      BY <1>12, <3>1 DEF EooqdCrash
  <2>2. OneQueueFile'
    BY <1>12, Zenon DEF EooqdCrash
  <2>3. Ordered'
    BY <1>12, Zenon DEF EooqdCrash
  <2>4. AtMostOnce'
    BY <1>12, Zenon DEF EooqdCrash
  <2>5. NoLineVanishes'
    BY <1>12, Zenon DEF EooqdCrash
  <2> QED
    BY <2>1, <2>2, <2>3, <2>4, <2>5, Zenon
<1>13. CASE UNCHANGED oneoffVars
  BY <1>13, SMTT(30) DEF oneoffVars
<1> QED
  BY <1>1, <1>2, <1>3, <1>4, <1>5, <1>6, <1>7, <1>8, <1>9, <1>10, <1>11,
     <1>12, <1>13, Zenon DEF OneoffNext, Telnetd, Eooqd

-----------------------------------------------------------------------------
LEMMA OneoffInvariance == OneoffSpec => []OneoffIInv
<1>1. OneoffInit => OneoffIInv
  BY OneoffInitIInv, Zenon
<1>2. OneoffIInv /\ [OneoffNext]_oneoffVars => OneoffIInv'
  BY OneoffNextIInv, Zenon
<1> QED
  BY <1>1, <1>2, PTL DEF OneoffSpec

(* The variables of the hand-over keep their types.                        *)
THEOREM OneoffTypes == OneoffSpec => []OneoffTypeOK
<1>1. OneoffIInv => OneoffTypeOK
  BY Zenon DEF OneoffIInv
<1> QED
  BY <1>1, OneoffInvariance, PTL

(* eooqd reads no command twice, however the renames of the two daemons    *)
(* interleave and whoever crashes (the promise of checkQueue's comment).   *)
THEOREM ReadAtMostOnce ==
  OneoffSpec => []AtMostOnce
<1>1. OneoffIInv => AtMostOnce
  BY Zenon DEF OneoffIInv
<1> QED
  BY <1>1, OneoffInvariance, PTL

(* A command whose text telnetd wrote is never overwritten by one of the   *)
(* renames: it is read unless eooqd itself fails with it in hand.          *)
THEOREM NothingVanishes ==
  OneoffSpec => []NoLineVanishes
<1>1. OneoffIInv => NoLineVanishes
  BY Zenon DEF OneoffIInv
<1> QED
  BY <1>1, OneoffInvariance, PTL

(* eooqd reads the commands in the order in which telnetd queued them.     *)
THEOREM InOrder == OneoffSpec => ReadInOrder
<1> DEFINE Step == \A l \in Lines : read'[l] # read[l] =>
                     \A m \in Lines : m > l => read[m] = 0
<1>1. OneoffIInv /\ [OneoffNext]_oneoffVars => [Step]_oneoffVars
  <2> SUFFICES ASSUME OneoffIInv, [OneoffNext]_oneoffVars
               PROVE  [Step]_oneoffVars
    BY Zenon
  <2>1. CASE ReadLine
    <3>1. PICK l \in unread : read' = [read EXCEPT ![l] = @ + 1]
      BY <2>1, Zenon DEF ReadLine
    <3>2. \A m \in Lines : m > l => read[m] = 0
      BY <2>1, <3>1 DEF OneoffIInv, ReadLine, Ordered,
         Taken, Queued, OneoffTypeOK, Lines
    <3>3. \A k \in Lines : read'[k] # read[k] => k = l
      BY <3>1, Zenon DEF OneoffIInv, OneoffTypeOK
    <3> QED
      BY <3>2, <3>3, Zenon
  <2>2. CASE ~ReadLine
    <3>1. read' = read
      BY <2>2, Zenon DEF OneoffNext, Telnetd, Eooqd,
         oneoffVars, evars, Grab, AppendLine,
         AppendFails, RenameBack, TelnetdCrash,
         StatQueue, UnlinkCurr,
         RenameQueue, OpenCurr, EndOfFile,
         EooqdCrash
    <3> QED
      BY <3>1, Zenon
  <2> QED
    BY <2>1, <2>2, Zenon
<1>2. OneoffSpec => [][Step]_oneoffVars
  BY <1>1, OneoffInvariance, PTL DEF OneoffSpec
<1> QED
  BY <1>2, Zenon DEF ReadInOrder

-----------------------------------------------------------------------------

(* Only eperd takes the name away, so what it has opened and not unlinked  *)
(* is still the named file; and telnetd has written what it looks at.      *)
SameFile ==
  /\ estep = "unlink" => link = efd
  /\ tstep = "fstat" => written[tfd]

CrontabIInv == CrontabTypeOK /\ SameFile /\ NoUpdateLost

LEMMA CrontabInitIInv == CrontabInit => CrontabIInv
<1> SUFFICES ASSUME CrontabInit PROVE CrontabIInv
  BY Zenon
<1>1. failed \in BOOLEAN /\ written \in [Inodes -> BOOLEAN]
  BY Zenon DEF CrontabInit
<1>2. CrontabTypeOK
  BY <1>1, CrontabAssumption DEF CrontabInit, CrontabTypeOK, Inodes,
     NoFile
<1> QED
  BY <1>2, Zenon DEF CrontabInit, CrontabIInv, SameFile, NoUpdateLost

LEMMA CrontabNextIInv == CrontabIInv /\ [CrontabNext]_crontabVars => CrontabIInv'
<1> SUFFICES ASSUME CrontabIInv,
                    [CrontabNext]_crontabVars PROVE CrontabIInv'
  BY Zenon
<1> USE CrontabAssumption DEF CrontabIInv, CrontabTypeOK, SameFile,
   NoUpdateLost, Noticed,
        Inodes, NoFile, notifier, checker
<1>1. CASE InstallTable
  BY <1>1 DEF InstallTable
<1>2. CASE OpenUpdate
  <2>1. tfd' \in Inodes /\ (link # NoFile => tfd' = link) /\ (link = NoFile => tfd' # efd)
    BY <1>2 DEF OpenUpdate
  <2> QED
    BY <1>2, <2>1 DEF OpenUpdate
<1>3. CASE WriteUpdate
  BY <1>3, Zenon DEF WriteUpdate
<1>4. CASE FstatUpdate
  BY <1>4, Zenon DEF FstatUpdate
<1>5. CASE EndsEarly
  BY <1>5 DEF EndsEarly
<1>6. CASE OpenNotice
  BY <1>6, Zenon DEF OpenNotice
<1>7. CASE UnlinkNotice
  BY <1>7, Zenon DEF UnlinkNotice
<1>8. CASE ReadNotice
  BY <1>8, Zenon DEF ReadNotice
<1>9. CASE SynchronizeFile
  <2>1. failed' \in BOOLEAN
    BY <1>9, Zenon DEF SynchronizeFile
  <2>2. failed' = FALSE /\ UNCHANGED <<root, link, written, notifier, efd, fails>>
        /\ loaded' = root /\ estep' = "idle" /\ estep = "sync"
    BY <1>9, Zenon DEF SynchronizeFile
  <2>3. CrontabTypeOK'
    BY <2>1, <2>2
  <2> QED
    BY <2>2, <2>3, Zenon
<1>10. CASE SynchronizeDir
  BY <1>10, Zenon DEF SynchronizeDir
<1>11. CASE EperdRestart
  BY <1>11 DEF EperdRestart
<1>12. CASE UNCHANGED crontabVars
  BY <1>12, Zenon DEF crontabVars
<1> QED
  BY <1>1, <1>2, <1>3, <1>4, <1>5, <1>6, <1>7, <1>8, <1>9, <1>10, <1>11,
     <1>12, Zenon
     DEF CrontabNext, Announce, CheckUpdates

LEMMA CrontabInvariance == CrontabSpec => []CrontabIInv
<1>1. CrontabInit => CrontabIInv
  BY CrontabInitIInv, Zenon
<1>2. CrontabIInv /\ [CrontabNext]_crontabVars => CrontabIInv'
  BY CrontabNextIInv, Zenon
<1> QED
  BY <1>1, <1>2, PTL DEF CrontabSpec

(* Types are kept and every descriptor is closed on every path of          *)
(* end_crontab and CheckUpdates.                                           *)
THEOREM CrontabTypes == CrontabSpec => []CrontabTypeOK
<1>1. CrontabIInv => CrontabTypeOK
  BY Zenon DEF CrontabIInv
<1> QED
  BY <1>1, CrontabInvariance, PTL

(* The link count check of end_crontab is enough: an announced crontab is  *)
(* loaded or its notice is still to be acted on.                           *)
THEOREM UpdatesKept ==
  CrontabSpec => []NoUpdateLost
<1>1. CrontabIInv => NoUpdateLost
  BY Zenon DEF CrontabIInv
<1> QED
  BY <1>1, CrontabInvariance, PTL
=============================================================================
