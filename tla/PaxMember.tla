----------------------------- MODULE PaxMember ------------------------------
(***************************************************************************)
(* What happens to each member as runs of pax write an archive, add to it  *)
(* and list it: wr_archive(), append() and list() of ar_subs.c with the    *)
(* selection and naming of PaxMatch and the headers of PaxFormat.  Blocks, *)
(* data and errors of the device are in PaxWrite and PaxRead, the tree in  *)
(* PaxTree.                                                                *)
(*                                                                         *)
(*   sc    the runs of pax, one after the other, and the archive at first  *)
(*   n     the one that runs        todo  the files fts(3) has still to give*)
(*   m     the ARCHD                pos   where it reads in the archive    *)
(*   arch  the archive              pats, reps, sel  what the options hold *)
(*   tab   the tables of this run   pick  where the pattern matched        *)
(*   meta, saved   the locals of wr_archive for the metadata of a file     *)
(*   log, got, drop, told  history: what was written, what was listed,     *)
(*         what was left out and why, patterns told                        *)
(***************************************************************************)
EXTENDS PaxFormat

CONSTANT
  Scenes    \* the sequences of commands an instance covers; faults: how many
            \* files may fail to open, or lose their metadata

VARIABLES sc, n, todo, m, pos, arch, pats, reps, sel, tab, pick, meta, saved, pc,
          log, got, drop, told, left
vars == <<sc, n, todo, m, pos, arch, pats, reps, sel, tab, pick, meta, saved, pc,
          log, got, drop, told, left>>
given == <<sc, n, pats, reps, sel>>
hist  == <<log, got, drop, told>>

Cmd    == sc.runs[n]
Opt(o) == o \in Cmd.opt     \* n c d u r w a: the flags of pax; md: metadata are archived
(* pax_options: what a run does, and the flags that do not go with it; -w -u
   is -w -u -a                                                             *)
Flags  == Cmd.opt \cup (IF Opt("u") /\ Opt("w") /\ ~ Opt("r") THEN {"a"} ELSE {})
Act    == IF Flags \cap {"r", "w"} = {} THEN "list"
          ELSE IF {"r", "w"} \subseteq Flags THEN "copy"
          ELSE IF "r" \in Flags THEN "extract"
          ELSE IF "a" \in Flags THEN "append" ELSE "write"
Bad    == Flags \cap (CASE Act = "list"    -> {"a", "u"}
                        [] Act = "extract" -> {"a"}
                        [] Act = "copy"    -> {"a"}
                        [] OTHER           -> {"c", "n"})
Fmt    == IF Act # "write" THEN GetArc(arch[1], Act)
          ELSE IF Cmd.fmt = "" THEN "ustar" ELSE Cmd.fmt
NoPick == [k |-> 0, pend |-> 0]
NoSel  == [usr |-> {}, grp |-> {}, rng |-> <<>>]

Init ==
  /\ sc \in Scenes
  /\ n = 1 /\ todo = <<>> /\ m = Blank /\ pos = 1 /\ arch = sc.start
  /\ pats = <<>> /\ reps = <<>> /\ sel = NoSel /\ tab = NewTab /\ pick = NoPick
  /\ meta = FALSE /\ saved = Blank /\ pc = "options"
  /\ log = sc.was /\ got = <<>> /\ drop = {} /\ told = {} /\ left = sc.faults

Drop(why) == drop' = drop \cup {[mark |-> m.mark, why |-> why]}

(* The options of the run: one that is wrong ends it before it starts *)
OptionsOK ==
  /\ Bad = {}
  /\ \A i \in DOMAIN Cmd.subs : RepAdd(Cmd.subs[i]).ok
  /\ \A a \in Cmd.usr : UsrAdd(a, Cmd.db).ok
  /\ \A a \in Cmd.grp : GrpAdd(a, Cmd.db).ok
  /\ \A i \in DOMAIN Cmd.rng : TrngAdd(Cmd.rng[i]).ok
  /\ \A i \in DOMAIN Cmd.pats : Cmd.pats[i] # <<>>
(* get_arc finds no archive, or one of another format than append was given *)
Unusable == \/ Act # "write" /\ arch = <<>>
            \/ Act = "append" /\ Cmd.fmt # "" /\ Cmd.fmt # GetArc(arch[1], "append")
Options ==
  /\ pc = "options"
  /\ todo' = Cmd.files /\ pos' = 1 /\ m' = Blank /\ meta' = FALSE /\ saved' = Blank
  /\ pick' = NoPick /\ tab' = [NewTab EXCEPT !.x = Cmd.o.x]
  /\ IF OptionsOK
     THEN /\ pats' = PatAdd(Cmd.pats)
          /\ reps' = [i \in DOMAIN Cmd.subs |-> RepAdd(Cmd.subs[i])]
          /\ sel' = [usr |-> {UsrAdd(a, Cmd.db).id : a \in Cmd.usr},
                     grp |-> {GrpAdd(a, Cmd.db).id : a \in Cmd.grp},
                     rng |-> [i \in DOMAIN Cmd.rng |-> TrngAdd(Cmd.rng[i])]]
          /\ pc' = IF Unusable THEN "over" ELSE
                   CASE Act = "write" -> "file" [] Act = "append" -> "scan"
                     [] OTHER -> "member"
     ELSE pats' = <<>> /\ reps' = <<>> /\ sel' = NoSel /\ pc' = "over"
  /\ drop' = IF OptionsOK /\ ~ Unusable THEN drop
             ELSE drop \cup {[mark |-> Cmd.files[i].mark, why |-> "usage"] : i \in DOMAIN Cmd.files}
  /\ arch' = IF OptionsOK /\ Act = "write" THEN <<>> ELSE arch
  /\ UNCHANGED <<sc, n, log, got, told, left>>

---------------------------------------------------------------------------
(* next_head: the next member of the archive, with the extended headers    *)
(* before it, as the format reads it                                       *)

IsExt(i)  == arch[i].k \in {"x", "g"}
NextAt    == CHOOSE i \in pos..(Len(arch) + 1) :
               /\ i = Len(arch) + 1 \/ ~ IsExt(i)
               /\ \A j \in pos..(i - 1) : IsExt(j)
RECURSIVE Collected(_, _, _)
Collected(t, i, end) == IF i = end THEN t ELSE Collected(Collect(t, arch[i], Cmd.o), i + 1, end)
Head1 ==
  LET h == arch[NextAt]
      t == Collected(tab, pos, NextAt) IN
  CASE Fmt = "tar"   -> TarRd(h, t)
    [] Fmt = "ustar" -> UstarRd(h, t, Cmd.db)
    [] Fmt = "pax"   -> PaxRd(h, t, Cmd.o, Cmd.db)
    [] Fmt = "cpio"  -> CpioRd(h, t)
    [] Fmt = "bcpio" -> BcpioRd(h, t)
    [] OTHER         -> VcpioRd(h, t)
AtEnd == IF NextAt > Len(arch) THEN TRUE ELSE Fmt \in Cpios /\ IsTrailer(Head1.m)


(* Mutant: whatever has the name of a member is old *)
ChkFtimeName(ft, x) ==
  LET on == {e \in ft : e.name = x.name} IN
  [old |-> on # {}, ft |-> IF on # {} THEN ft ELSE ft \cup {[name |-> x.name, mt |-> x.mt]}]
(* chk_ftime: a member is old when one of its name at least as new was met *)
ChkFtime(ft, x) ==
  LET on == {e \in ft : e.name = x.name}
      old == \E e \in on : x.mt <= e.mt IN
  [old |-> old, ft |-> IF old THEN ft ELSE (ft \ on) \cup {[name |-> x.name, mt |-> x.mt]}]

(* append: the archive is read to its end, for the times and the devices *)
Scan1 ==
  /\ pc = "scan" /\ ~ AtEnd
  /\ \E h \in {Head1} :
       LET f == ChkFtime(tab.ft, h.m)
           skip == ~ SelChk(sel, h.m) \/ (Opt("u") /\ f.old) IN
       /\ tab' = [h.t EXCEPT !.ft = IF SelChk(sel, h.m) /\ Opt("u") THEN f.ft ELSE @,
                             !.dev = IF Fmt \in Cpios /\ ~ skip THEN AddDev(@, h.m.dev) ELSE @]
       /\ m' = h.m
  /\ pos' = NextAt + 1
  /\ UNCHANGED <<given, todo, arch, pick, meta, saved, pc, hist, left>>
ScanEnd ==
  /\ pc = "scan" /\ AtEnd
  /\ tab' = [tab EXCEPT !.lnk = {}] /\ arch' = SubSeq(arch, 1, NextAt - 1) /\ pc' = "file"
  /\ UNCHANGED <<given, todo, m, pos, pick, meta, saved, hist, left>>

---------------------------------------------------------------------------
(* wr_archive                                                              *)

MetaName(name) ==
  LET at == {i \in DOMAIN name : name[i] = "/"}
      k == IF at = {} THEN 0 ELSE CHOOSE i \in at : \A j \in at : j <= i IN
  SubSeq(name, 1, k) \o <<".", "_">> \o From(name, k + 1)
(* The file that holds the metadata: a new one, of the user who runs pax *)
MetaFile(f) == [Blank EXCEPT !.name = MetaName(f.name), !.type = "reg", !.size = 1, !.mt = f.mt,
                             !.ct = f.mt, !.dev = f.dev, !.data = <<"md">>, !.mark = 100 + f.mark]

(* next_file, sel_chk and chk_ftime; then the metadata go before the file *)
NextFile ==
  /\ pc = "file" /\ todo # <<>>
  /\ todo' = Tail(todo)
  /\ LET f == Head(todo)
         chosen == SelChk(sel, f)
         ft == ChkFtime(tab.ft, f)
         fresh == chosen /\ ~ (Opt("u") /\ ft.old) IN
     /\ tab' = [tab EXCEPT !.ft = IF chosen /\ Opt("u") THEN ft.ft ELSE @]
     /\ drop' = IF fresh THEN drop
                ELSE drop \cup {[mark |-> f.mark, why |-> IF chosen THEN "old" ELSE "sel"]}
     /\ pc' = IF fresh THEN "link" ELSE "file"
     /\ \/ fresh /\ f.md /\ Opt("md") /\ m' = MetaFile(f) /\ meta' = TRUE /\ saved' = f
           /\ UNCHANGED left
        \/ fresh /\ f.md /\ Opt("md") /\ left > 0 /\ left' = left - 1
           /\ m' = f /\ meta' = FALSE /\ saved' = f
        \/ fresh /\ ~ (f.md /\ Opt("md")) /\ m' = (IF meta THEN saved ELSE f)
           /\ meta' = FALSE /\ UNCHANGED <<saved, left>>
        \/ ~ fresh /\ m' = f /\ UNCHANGED <<meta, saved, left>>
  /\ UNCHANGED <<given, pos, arch, pick, log, got, told>>

(* chk_lnk for the formats that store a link as one, and open(2) *)
Hlk == Fmt \in Tars /\ ~ Cmd.o.linkdata
Linked == IF Hlk THEN ChkLnk(tab.lnk, m) ELSE [lnk |-> tab.lnk, m |-> m]
Link ==
  /\ pc = "link"
  /\ m' = Linked.m /\ tab' = [tab EXCEPT !.lnk = Linked.lnk]
  /\ pc' = "name"
  /\ UNCHANGED <<given, todo, pos, arch, pick, meta, saved, hist, left>>
CannotOpen ==
  /\ pc = "link" /\ Linked.m.type \in {"reg", "hrg"} /\ ~ meta /\ left > 0
  /\ left' = left - 1
  /\ m' = Linked.m /\ tab' = [tab EXCEPT !.lnk = PurgLnk(Linked.lnk, Linked.m)]
  /\ Drop("told") /\ pc' = "file"
  /\ UNCHANGED <<given, todo, pos, arch, pick, meta, saved, log, got, told>>

(* mod_name, and set_crc for sv4crc *)
Named == ModName(m, reps, Cmd.rmlead)
Name ==
  /\ pc = "name"
  /\ \E to \in {Named} :
       IF to.skip
       THEN /\ tab' = [tab EXCEPT !.lnk = PurgLnk(@, m)] /\ m' = m
            /\ Drop(IF to.told THEN "told" ELSE "empty") /\ pc' = "file"
       ELSE /\ m' = [to.m EXCEPT !.crc = IF Fmt = "sv4crc" THEN m.data ELSE @]
            /\ pc' = "store" /\ UNCHANGED <<tab, drop>>
  /\ UNCHANGED <<given, todo, pos, arch, pick, meta, saved, log, got, told, left>>

(* The header, and the data when the format wants any; after the metadata
   of a file comes the file                                                *)
Store ==
  /\ pc = "store"
  /\ \E w \in {Wr(Fmt, m, tab, Cmd.o, Cmd.db)} :
       /\ arch' = arch \o w.items
       /\ tab' = w.t
       /\ log' = IF w.res = "skip" THEN log
                 ELSE Append(log, [m |-> m, run |-> n, told |-> w.told, as |-> m.name])
       /\ IF w.res = "skip" THEN Drop(IF w.told THEN "told" ELSE "nodir") ELSE UNCHANGED drop
       /\ IF w.res = "data" /\ meta
          THEN m' = saved /\ meta' = FALSE /\ pc' = "link"
          ELSE UNCHANGED <<m, meta>> /\ pc' = "file"
  /\ UNCHANGED <<given, todo, pos, pick, saved, got, told, left>>

WriteEnd ==
  /\ pc = "file" /\ todo = <<>>
  /\ pc' = "over"
  /\ UNCHANGED <<given, todo, m, pos, arch, tab, pick, meta, saved, hist, left>>

---------------------------------------------------------------------------
(* list                                                                    *)

(* A name of GNU tar in a member of its own is kept for the next member *)
Member ==
  /\ pc = "member" /\ ~ AtEnd
  /\ \E h \in {Head1} :
       /\ m' = h.m
       /\ tab' = CASE h.m.type = "glf" -> [h.t EXCEPT !.gnu = arch[NextAt].data]
                   [] h.m.type = "gll" -> [h.t EXCEPT !.gnul = arch[NextAt].data]
                   [] OTHER -> h.t
       /\ pc' = IF h.m.type \in {"glf", "gll"} THEN "member" ELSE "match"
  /\ pos' = NextAt + 1
  /\ UNCHANGED <<given, todo, arch, pick, meta, saved, hist, left>>

(* pat_match, sel_chk *)
Match ==
  /\ pc = "match"
  /\ \E r \in {PatMatch(pats, m.name, m.type = "dir", Cmd.opt)} :
     /\ pats' = r.pats
     /\ pick' = [k |-> r.k, pend |-> r.pend]
     /\ pc' = CASE r.res = "stop" -> "listed"
                [] r.res = "go" /\ SelChk(sel, m) -> "select"
                [] OTHER -> "member"
  /\ UNCHANGED <<sc, n, reps, sel, todo, m, pos, arch, tab, meta, saved, hist, left>>

(* pat_sel, mod_name, ls_list *)
Select ==
  /\ pc = "select"
  /\ pats' = PatSel(pats, pick.k, pick.pend, m.name, m.type = "dir", Cmd.opt)
  /\ \E to \in {Named} :
       got' = Append(got, [m |-> to.m, run |-> n, org |-> m.name, shown |-> ~ to.skip,
                           no |-> IF pick.k = 0 THEN 0 ELSE pats[pick.k].no])
  /\ pc' = "member"
  /\ UNCHANGED <<sc, n, reps, sel, todo, m, pos, arch, tab, pick, meta, saved, log, drop, told,
                 left>>

ListEnd ==
  /\ pc = "listed" \/ (pc = "member" /\ AtEnd)
  /\ told' = told \cup {[run |-> n, no |-> k] : k \in PatChk(pats)}
  /\ pc' = "over"
  /\ UNCHANGED <<given, todo, m, pos, arch, tab, pick, meta, saved, log, got, drop, left>>

(* The next run of pax starts with tables of its own *)
NextRun ==
  /\ pc = "over" /\ n < Len(sc.runs)
  /\ n' = n + 1 /\ pc' = "options"
  /\ UNCHANGED <<sc, todo, m, pos, arch, pats, reps, sel, tab, pick, meta, saved, hist, left>>

Over == pc = "over" /\ n = Len(sc.runs)

Next ==
  \/ Options \/ Scan1 \/ ScanEnd \/ NextFile \/ Link \/ CannotOpen \/ Name \/ Store \/ WriteEnd
  \/ Member \/ Match \/ Select \/ ListEnd \/ NextRun
  \/ (Over /\ UNCHANGED vars)

Spec == Init /\ [][Next]_vars
=============================================================================
