----------------------------- MODULE PaxFormat ------------------------------
(***************************************************************************)
(* The member headers pax writes and reads: tar and ustar (tar.c), pax     *)
(* (pax_format.c) and the four cpio formats (cpio.c), with the tables they *)
(* use: hard links and device numbers (tables.c), users and groups         *)
(* (cache.c).  A field is the number it holds, when the number fits; the   *)
(* lengths of the fields are scaled down.                                  *)
(***************************************************************************)
EXTENDS PaxMatch

CONSTANTS
  NameSz,      \* TNMSZ: the name and link name fields of tar headers
  PrefixSz,    \* TPFSZ: the prefix field
  Short,       \* digits of an 8-byte tar field or a 6-byte cpio field
  Long,        \* digits of a 12-byte tar field or an 11-byte cpio field
  UidSz,       \* UID_SZ, UNM_SZ, ...: slots of the user and group caches
  NameHash     \* st_hash() of the names of users and groups

ASSUME PaxFormatAssumption ==
  /\ {NameSz, PrefixSz, Short, Long, UidSz} \subseteq Nat \ {0}
  /\ Short >= 3 /\ Long >= Short

Tars  == {"tar", "ustar", "pax"}
Cpios == {"cpio", "sv4cpio", "sv4crc", "bcpio"}
Links == {"hlk", "hrg"}

(* ul_oct, uqd_oct: a terminator takes one byte of the field, two when term
   is 0; ul_asc, uqd_asc have none.  The field holds val or refuses it.    *)
OctFits(val, len, term) == val < 2 ^ (IF term = 0 THEN len - 2 ELSE len - 1)
AscFits(val, len) == val < 2 ^ len

---------------------------------------------------------------------------
(* tables.c: hard links                                                    *)

Same(l, m) == l.dev = m.dev /\ l.ino = m.ino
(* Mutant: a file all of whose links were met stays in the table *)
ChkLnkStays(lnk, m) ==
  LET on == {l \in lnk : Same(l, m)}
      l == CHOOSE l \in on : TRUE IN
  IF m.type = "dir" \/ m.nlink <= 1 THEN [lnk |-> lnk, m |-> m]
  ELSE IF on = {} THEN [m |-> m, lnk |-> lnk \cup
         {[dev |-> m.dev, ino |-> m.ino, name |-> m.name, nlink |-> m.nlink]}]
  ELSE [m |-> [m EXCEPT !.ln = l.name, !.type = IF @ = "reg" THEN "hrg" ELSE "hlk"],
        lnk |-> (lnk \ {l}) \cup {[l EXCEPT !.nlink = @ - 1]}]
(* chk_lnk: a later link becomes a link to the name the file was met under *)
ChkLnk(lnk, m) ==
  LET on == {l \in lnk : Same(l, m)}
      l == CHOOSE l \in on : TRUE IN
  IF m.type = "dir" \/ m.nlink <= 1 THEN [lnk |-> lnk, m |-> m]
  ELSE IF on = {} THEN [m |-> m, lnk |-> lnk \cup
         {[dev |-> m.dev, ino |-> m.ino, name |-> m.name, nlink |-> m.nlink]}]
  ELSE [m |-> [m EXCEPT !.ln = l.name, !.type = IF @ = "reg" THEN "hrg" ELSE "hlk"],
        lnk |-> IF l.nlink <= 2 THEN lnk \ {l}
                ELSE (lnk \ {l}) \cup {[l EXCEPT !.nlink = @ - 1]}]
(* purg_lnk *)
PurgLnk(lnk, m) == IF m.type = "dir" \/ m.nlink <= 1 \/ m.type \in Links THEN lnk
                   ELSE {l \in lnk : ~ Same(l, m)}

(* tables.c: device numbers.  chk_dev finds the entry of a device          *)
Entry(dtab, dev) == {e \in dtab : e.dev = dev}
(* add_dev *)
AddDev(dtab, dev) == IF Entry(dtab, dev) # {} THEN dtab
                     ELSE dtab \cup {[dev |-> dev, list |-> {}]}
(* map_dev: the inodes of a device are split by the bits a field of mask + 1
   values loses; each part gets a device number of its own.  When no number
   is left the user is told and the file keeps the one it has.             *)
MapDev(t, m, mask) ==
  LET low  == m.ino % mask
      lost == m.ino - low
      big  == m.dev >= mask
      old  == Entry(t.dev, m.dev)
      e    == CHOOSE e \in old : TRUE
      hit  == {d \in e.list : d.lost = lost}
      new  == AddDev(t.dev, m.dev)
      base == IF old = {} /\ ~ big THEN {[lost |-> 0, dev |-> m.dev]} ELSE {}
      free == CHOOSE d \in (t.last + 1)..(t.last + 1 + Cardinality(new)) :
                /\ Entry(new, d) = {}
                /\ \A c \in (t.last + 1)..(d - 1) : Entry(new, c) # {}
      list == (IF old = {} THEN base ELSE e.list) \cup {[lost |-> lost, dev |-> free]} IN
  IF old # {} /\ hit # {}
  THEN [t |-> t, told |-> FALSE,
        m |-> [m EXCEPT !.dev = (CHOOSE d \in hit : TRUE).dev, !.ino = low]]
  ELSE IF old = {} /\ ~ big /\ lost = 0 THEN [t |-> t, told |-> FALSE, m |-> m]
  ELSE IF free >= mask
  THEN [t |-> [t EXCEPT !.last = free,
                !.dev = {x \in new : x.dev # m.dev} \cup
                        {[dev |-> m.dev, list |-> IF old = {} THEN base ELSE e.list]}],
        told |-> TRUE, m |-> m]
  ELSE [t |-> [t EXCEPT !.last = free,
                !.dev = {x \in new : x.dev # m.dev} \cup
                        {[dev |-> m.dev, list |-> list], [dev |-> free, list |-> {}]}],
        told |-> FALSE, m |-> [m EXCEPT !.dev = free, !.ino = low]]

---------------------------------------------------------------------------
(* cache.c: a slot of a cache holds the last name or number asked for that
   fell on it, and whether the data base knew it                           *)

Empty  == [used |-> FALSE, id |-> 0, name |-> "", valid |-> FALSE]
NoName == ""
Known(db, id) == {n \in DOMAIN db : db[n] = id}
(* Mutant: a slot in use is taken for the one asked for *)
NameOfSlot(c, id, db) ==
  LET e == c[id % UidSz]
      new == IF Known(db, id) = {} THEN [used |-> TRUE, id |-> id, name |-> NoName, valid |-> FALSE]
             ELSE [used |-> TRUE, id |-> id, name |-> CHOOSE n \in Known(db, id) : TRUE,
                   valid |-> TRUE] IN
  IF e.used THEN [c |-> c, name |-> IF e.valid THEN e.name ELSE NoName]
  ELSE [c |-> [c EXCEPT ![id % UidSz] = new], name |-> new.name]
(* name_uid, name_gid with frc = 0 *)
NameOf(c, id, db) ==
  LET e == c[id % UidSz]
      new == IF Known(db, id) = {} THEN [used |-> TRUE, id |-> id, name |-> NoName, valid |-> FALSE]
             ELSE [used |-> TRUE, id |-> id, name |-> CHOOSE n \in Known(db, id) : TRUE,
                   valid |-> TRUE] IN
  IF e.used /\ e.id = id THEN [c |-> c, name |-> IF e.valid THEN e.name ELSE NoName]
  ELSE [c |-> [c EXCEPT ![id % UidSz] = new], name |-> new.name]
(* uid_name, gid_name *)
IdOf(c, name, db) ==
  LET k == NameHash[name]
      e == c[k]
      new == [used |-> TRUE, name |-> name, valid |-> name \in DOMAIN db,
              id |-> IF name \in DOMAIN db THEN db[name] ELSE 0] IN
  IF name = NoName THEN [c |-> c, ok |-> FALSE, id |-> 0]
  ELSE IF e.used /\ e.name = name THEN [c |-> c, ok |-> e.valid, id |-> e.id]
  ELSE [c |-> [c EXCEPT ![k] = new], ok |-> new.valid, id |-> new.id]

NameUid(t, id, db)   == NameOf(t.uid, id, db.usr)
NameGid(t, id, db)   == NameOf(t.gid, id, db.grp)
UidName(t, name, db) == IdOf(t.usr, name, db.usr)
GidName(t, name, db) == IdOf(t.grp, name, db.grp)

NewTab == [lnk |-> {}, dev |-> {}, last |-> 0, ft |-> {}, uwarn |-> 0, gwarn |-> 0, x |-> <<>>,
           usr |-> [k \in 0..(UidSz - 1) |-> Empty], grp |-> [k \in 0..(UidSz - 1) |-> Empty],
           uid |-> [k \in 0..(UidSz - 1) |-> Empty], gid |-> [k \in 0..(UidSz - 1) |-> Empty],
           gl |-> <<>>, xc |-> <<>>, gnu |-> <<>>, gnul |-> <<>>]

---------------------------------------------------------------------------
(* Writing.  The result says whether data follow ("data"), only the header *)
(* was written ("head") or nothing was ("skip"), whether the user was told,*)
(* what goes into the archive, and the tables after.                       *)

Wrote(res, items, t)  == [res |-> res, told |-> FALSE, items |-> items, t |-> t]
Refused(items, t)     == [res |-> "skip", told |-> TRUE, items |-> items, t |-> t]
HasData(m) == m.type \in {"reg", "ctg"}

(* tar_wr *)
TarName(m) == IF m.type = "dir" THEN Append(m.name, "/") ELSE m.name
TarFlag(m) == CASE m.type \in Links -> "lnk" [] m.type = "slk" -> "slk" [] OTHER -> "areg"
TarWr(m, t, nodir) ==
  LET head == [k |-> "tar", name |-> TarName(m), prefix |-> <<>>, flag |-> TarFlag(m),
               ln |-> m.ln, size |-> IF HasData(m) THEN m.size ELSE 0, uid |-> m.uid,
               gid |-> m.gid, mt |-> m.mt, uname |-> NoName, gname |-> NoName,
               rdev |-> <<0, 0>>, data |-> m.data, mark |-> m.mark] IN
  IF m.type = "dir" /\ nodir THEN Wrote("skip", <<>>, t)
  ELSE IF \/ m.type \in {"chr", "blk", "sck", "fif"}
          \/ m.type \in Links \cup {"slk"} /\ Len(m.ln) >= NameSz
          \/ Len(TarName(m)) >= NameSz
          \/ HasData(m) /\ ~ OctFits(m.size, Long, 1)
          \/ ~ OctFits(m.uid, Short, 0) \/ ~ OctFits(m.gid, Short, 0)
          \/ ~ OctFits(m.mt, Long, 1)
       THEN Refused(<<>>, t)
  ELSE Wrote(IF HasData(m) THEN "data" ELSE "head", <<head>>, t)

(* name_split: the place of the slash between prefix and name, Len + 1 when
   the name needs no prefix, 0 when it cannot be split                     *)
Split(name, longest, most) ==
  LET len == Len(name)
      p == len - NameSz
      at == {k \in (IF name[p] = "/" /\ p = 1 THEN 2 ELSE p)..len : name[k] = "/"}
      pre == CHOOSE k \in at : \A j \in at : k <= j IN
  IF len <= NameSz THEN len + 1
  ELSE IF len > longest \/ at = {} THEN 0
  ELSE IF pre = 1 \/ pre - 1 > most THEN 0 ELSE pre
NameSplit(name)    == Split(name, PrefixSz + NameSz + 1, PrefixSz)
(* name_split of pax_format.c takes one character less *)
PaxNameSplit(name) == Split(name, PrefixSz + NameSz, PrefixSz - 1)

(* ustar_wr and pax_wr: an owner whose number does not fit is "nobody"; the
   user is told once for as long as it is the same                         *)
Owner(id, warned, nobody, c) ==
  IF OctFits(id, Short, 1) THEN [ok |-> TRUE, id |-> id, warn |-> warned, told |-> FALSE, c |-> c]
  ELSE [ok |-> nobody.ok /\ OctFits(nobody.id, Short, 1), id |-> nobody.id,
        warn |-> id, told |-> id # warned, c |-> nobody.c]
UstarFlag(m) == IF m.type \in Links THEN "lnk" ELSE m.type
UstarHead(m, t, split, size, db) ==
  LET u == Owner(m.uid, t.uwarn, UidName(t, "nobody", db), t.usr)
      g == Owner(m.gid, t.gwarn, GidName(t, "nobody", db), t.grp)
      un == NameUid(t, m.uid, db)
      gn == NameGid(t, m.gid, db)
      pre == IF split > Len(m.name) THEN <<>>
             ELSE SubSeq(m.name, 1, IF split > PrefixSz THEN PrefixSz - 1 ELSE split - 1) IN
  [ok |-> u.ok /\ g.ok /\ OctFits(m.mt, Long, 1)
          /\ (m.type \in {"chr", "blk"} => \A i \in 1..2 : OctFits(m.rdev[i], Short, 1)),
   told |-> u.told \/ g.told,
   t |-> [t EXCEPT !.usr = u.c, !.grp = g.c, !.uwarn = u.warn, !.gwarn = g.warn,
                   !.uid = un.c, !.gid = gn.c],
   head |-> [k |-> "ustar", prefix |-> pre,
             name |-> IF split > Len(m.name) THEN m.name ELSE From(m.name, split + 1),
             flag |-> UstarFlag(m), ln |-> m.ln, size |-> size, uid |-> u.id, gid |-> g.id,
             mt |-> m.mt, uname |-> un.name, gname |-> gn.name,
             rdev |-> IF m.type \in {"chr", "blk"} THEN m.rdev ELSE <<0, 0>>,
             data |-> m.data, mark |-> m.mark]]
TooLongFor(m, split) ==
  m.type = "sck" \/ (m.type \in Links \cup {"slk"} /\ Len(m.ln) > NameSz) \/ split = 0
UstarWr(m, t, db) ==
  LET split == NameSplit(m.name)
      h == UstarHead(m, t, split, IF HasData(m) THEN m.size ELSE 0, db) IN
  IF TooLongFor(m, split) \/ (HasData(m) /\ ~ OctFits(m.size, Long, 1)) THEN Refused(<<>>, t)
  ELSE IF ~ h.ok THEN Refused(<<>>, h.t)
  ELSE [Wrote(IF HasData(m) THEN "data" ELSE "head", <<h.head>>, h.t) EXCEPT !.told = h.told]

(* generate_pax_ext_header_and_data: a header of the -o keywords that were
   not deleted, none when there is none                                    *)
ExtHeader(kind, recs, del) ==
  LET live == SelectSeq(recs, LAMBDA r : r[1] \notin del) IN
  IF live = <<>> THEN <<>> ELSE <<[k |-> kind, recs |-> live]>>
(* pax_wr: a size that does not fit goes into an extended header, and stays
   in the list of those that every later one holds                         *)
PaxWr(m, t, o, db) ==
  LET split == PaxNameSplit(m.name)
      big == HasData(m) /\ ~ OctFits(m.size, Long, 1)
      x == IF big THEN Append(t.x, <<"size", m.size>>) ELSE t.x
      h == UstarHead(m, [t EXCEPT !.x = x], split,
                     IF HasData(m) THEN m.size % (2 ^ (Long - 1)) ELSE 0, db)
      exts == ExtHeader("g", o.g, o.del) \o ExtHeader("x", t.x, o.del)
              \o (IF big THEN ExtHeader("x", x, o.del) ELSE <<>>) IN
  IF TooLongFor(m, split) THEN Refused(<<>>, t)
  ELSE IF ~ h.ok THEN Refused(exts, h.t)
  ELSE [Wrote(IF HasData(m) THEN "data" ELSE "head", Append(exts, h.head), h.t)
        EXCEPT !.told = h.told]

(* What the cpio formats share: map_dev gives the file numbers that fit a
   field of short digits, and every field must hold its number             *)
CpioData(m) == HasData(m) \/ m.type = "hrg"
Stored(fmt, short, crc, m, t) ==
  LET d == MapDev(t, m, 2 ^ short)
      n == d.m
      size == IF CpioData(m) THEN m.size ELSE IF m.type = "slk" THEN Len(m.ln) ELSE 0
      rdev == IF m.type \in {"chr", "blk"} THEN m.rdev ELSE <<0, 0>>
      head == [k |-> fmt, name |-> m.name, ln |-> IF m.type = "slk" THEN m.ln ELSE <<>>,
               flag |-> m.type, size |-> size, uid |-> m.uid, gid |-> m.gid,
               mt |-> m.mt, dev |-> n.dev, ino |-> n.ino, nlink |-> m.nlink, rdev |-> rdev,
               crc |-> crc, data |-> m.data, mark |-> m.mark] IN
  IF \/ ~ AscFits(size, Long) \/ ~ AscFits(m.mt, Long)
     \/ \E v \in {n.dev, n.ino, m.uid, m.gid, m.nlink, rdev[1], rdev[2], Len(m.name) + 1} :
          ~ AscFits(v, short)
  THEN Refused(<<>>, d.t)
  ELSE [Wrote(IF CpioData(m) THEN "data" ELSE "head", <<head>>, d.t) EXCEPT !.told = d.told]
CpioWr(m, t)       == Stored("cpio", Short, <<>>, m, t)
VcpioWr(fmt, m, t) == Stored(fmt, Long, IF fmt = "sv4crc" THEN m.crc ELSE <<>>, m, t)
BcpioWr(m, t)      == Stored("bcpio", Short - 1, <<>>, m, t)

(* The write routine of a format *)
Wr(fmt, m, t, o, db) ==
  CASE fmt = "tar"   -> TarWr(m, t, o.nodir)
    [] fmt = "ustar" -> UstarWr(m, t, db)
    [] fmt = "pax"   -> PaxWr(m, t, o, db)
    [] fmt = "cpio"  -> CpioWr(m, t)
    [] fmt = "bcpio" -> BcpioWr(m, t)
    [] OTHER         -> VcpioWr(fmt, m, t)

---------------------------------------------------------------------------
(* Reading                                                                 *)

Blank == [name |-> <<>>, ln |-> <<>>, type |-> "none", uid |-> 0, gid |-> 0,
          size |-> 0, mt |-> 0, ct |-> 0, dev |-> 0, ino |-> 0, nlink |-> 1, rdev |-> <<0, 0>>,
          data |-> <<>>, crc |-> <<>>, mark |-> 0, skip |-> 0, md |-> FALSE]

(* expandname: a name GNU tar put in a member of its own goes first *)
Expand(gnu, name) == IF gnu # <<>> THEN gnu ELSE name

(* tar_rd, from what tar_id took for a header *)
TarRd(h, t) ==
  LET long == h.flag \in {"gll", "glf"}
      name == IF long THEN <<>> ELSE Expand(t.gnu, h.name)
      slash == name # <<>> /\ name[Len(name)] = "/"
      type == CASE h.flag = "lnk" -> "hlk" [] h.flag = "slk" -> "slk" [] h.flag = "dir" -> "dir"
                [] long -> h.flag [] OTHER -> IF slash THEN "dir" ELSE "reg" IN
  [t |-> IF long THEN t ELSE [t EXCEPT !.gnu = <<>>, !.gnul = <<>>],
   m |-> [Blank EXCEPT
     !.name = IF slash THEN SubSeq(name, 1, Len(name) - 1) ELSE name,
     !.ln = CASE type = "hlk" -> First(h.ln, NameSz - 1)
              [] type = "slk" -> Expand(t.gnul, h.ln) [] OTHER -> <<>>,
     !.type = type, !.uid = h.uid, !.gid = h.gid, !.size = h.size, !.mt = h.mt, !.ct = h.mt,
     !.nlink = IF type \in {"hlk", "dir"} THEN 2 ELSE 1,
     !.skip = IF type = "reg" \/ long THEN h.size ELSE 0,
     !.data = h.data, !.mark = h.mark]]

(* ustar_rd and pax_rd after the names: the owner is the one the data base
   has for the name in the header, the number in it only when it has none  *)
UstarBody(h, t, name, ln, db) ==
  LET u == UidName(t, h.uname, db)
      g == GidName(t, h.gname, db)
      type == CASE h.flag = "lnk" -> "hlk" [] h.flag \in {"areg", "ctg"} -> "reg"
                [] OTHER -> h.flag
      slash == type = "dir" /\ name # <<>> /\ name[Len(name)] = "/" IN
  [t |-> [t EXCEPT !.usr = u.c, !.grp = g.c],
   m |-> [Blank EXCEPT
     !.name = IF slash THEN SubSeq(name, 1, Len(name) - 1) ELSE name, !.ln = ln,
     !.type = type, !.uid = IF u.ok THEN u.id ELSE h.uid, !.gid = IF g.ok THEN g.id ELSE h.gid,
     !.size = h.size, !.mt = h.mt, !.ct = h.mt,
     !.nlink = IF type \in {"hlk", "dir"} THEN 2 ELSE 1,
     !.rdev = IF type \in {"chr", "blk"} THEN h.rdev ELSE <<0, 0>>,
     !.skip = IF type \in {"reg", "gll", "glf"} THEN h.size ELSE 0,
     !.data = h.data, !.mark = h.mark]]
Joined(h, name) == IF h.prefix = <<>> THEN name ELSE Append(h.prefix, "/") \o name
Spent(h, t) == IF h.flag \in {"gll", "glf"} THEN t ELSE [t EXCEPT !.gnu = <<>>, !.gnul = <<>>]
(* ustar_rd: the names of the header are put over the long ones *)
UstarRd(h, t, db) == UstarBody(h, Spent(h, t), Joined(h, h.name), <<>>, db)

(* expand_extended_headers: what the headers before a member say.  Of a
   keyword the option with := counts first, then the header of the member,
   the option with = and the global header.                                *)
Value(key, recs) == LET on == {i \in DOMAIN recs : recs[i][1] = key} IN
                    IF on = {} THEN <<>> ELSE <<recs[CHOOSE i \in on : \A j \in on : j <= i][2]>>
Upd(recs, new) == SelectSeq(recs, LAMBDA r : Value(r[1], new) = <<>>) \o new
Untold(recs, said) == SelectSeq(recs, LAMBDA r : Value(r[1], said) = <<>>)
Collect(t, item, o) == IF item.k = "x" THEN [t EXCEPT !.xc = Upd(@, Untold(item.recs, o.x))]
                       ELSE [t EXCEPT !.gl = Upd(@, Untold(item.recs, o.g))]
Pick(t, o, key) ==
  IF key \in o.del THEN <<>>
  ELSE IF Value(key, o.x) # <<>> THEN Value(key, o.x)
  ELSE IF Value(key, t.xc) # <<>> THEN Value(key, t.xc)
  ELSE IF Value(key, o.g) # <<>> THEN Value(key, o.g)
  ELSE Value(key, t.gl)
(* The size is not taken with the others: it stays for the members after,
   and where the reader looks for the next of them then is not modelled    *)
PaxRd(h, t, o, db) ==
  LET path == Pick(t, o, "path")
      uid == Pick(t, o, "uid")
      size == Value("size", t.xc)
      h2 == [h EXCEPT !.uid = IF uid # <<>> THEN uid[1] ELSE @,
                      !.size = IF size # <<>> THEN size[1] ELSE @]
      t2 == [t EXCEPT !.xc = IF size = <<>> THEN <<>> ELSE <<<<"size", size[1]>>>>]
      long == h.flag \in {"gll", "glf"} IN
  IF path # <<>> THEN UstarBody(h2, t2, path[1], <<>>, db)
  ELSE UstarBody(h2, Spent(h, t2), IF long THEN h.prefix ELSE Joined(h, Expand(t.gnu, h.name)),
                 IF long THEN <<>> ELSE Expand(t.gnul, h.ln), db)

(* com_rd: the type, and a link when the file was met before *)
ComRd(h, m, t) ==
  LET c == ChkLnk(t.lnk, [m EXCEPT !.type = IF h.flag = "ctg" THEN "reg" ELSE h.flag,
                                   !.skip = IF h.flag \in {"reg", "ctg"} THEN h.size ELSE 0]) IN
  [t |-> [t EXCEPT !.lnk = c.lnk], m |-> c.m]
Fields(h) == [Blank EXCEPT !.name = h.name, !.ln = h.ln, !.uid = h.uid, !.gid = h.gid, !.size = h.size,
                !.mt = h.mt, !.ct = h.mt, !.dev = h.dev, !.ino = h.ino, !.nlink = h.nlink,
                !.rdev = h.rdev, !.data = h.data, !.mark = h.mark]
CpioRd(h, t)  == ComRd(h, Fields(h), t)
VcpioRd(h, t) == ComRd(h, [Fields(h) EXCEPT !.crc = h.crc], t)
BcpioRd(h, t) == ComRd(h, Fields(h), t)
(* cpio_trail: a member that ends the archive *)
IsTrailer(m) == m.name = <<"T">> /\ m.size = 0

(* get_arc: the first format of ford[] whose id takes the first header.  As
   pax it takes one of ustar too, but not when members are to be added.    *)
GetArc(first, act) ==
  IF first.k \in {"x", "g"} THEN "pax"
  ELSE IF first.k = "ustar" THEN IF act = "append" THEN "ustar" ELSE "pax"
  ELSE first.k
=============================================================================
