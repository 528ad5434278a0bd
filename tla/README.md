# Verification of file_cmds

TLA+ models of the file commands of `file_cmds` (`dd`, `cp`, `mv`, `install`, `mkdir`,
`pax`, `gzip`, ...), the TLC configurations that check them on small instances, and
theorems about them whose proofs TLAPS checks. Paths below are relative to the
repository; `xinstall.c:1106` is a line of `src/install/xinstall.c`.

## 1. The system

`file_cmds` is a collection of single-process utilities that share next to no code.
They meet in the file system: two programs at work on one directory interact through
its names, inodes and attributes only, and so do one program and a crash, or a reader.
Inside, each is a sequential program whose steps are system calls. What is hard:

- **every call may fall short or fail**, and the error paths run with the work half
  done (temporary files, cleared immutable bits, an operand already unlinked);
- **names are looked up again**: what `stat` said of a name is used by a later call
  while another process, or the program's own `chown`, has changed it;
- **a stop between two calls** (signal, crash) leaves whatever is there;
- **boundaries shift against each other**: `dd` has input blocks, records and output
  blocks, `pax` members, tape blocks and volumes, and a read or write may end in the
  middle of any of them.

None of the programs has threads; `gzip` and `dd` have signal handlers.

### Components

| Component | State it keeps | Operations | What makes it correct | Status |
|---|---|---|---|---|
| `dd` (`dd.c`, `conv.c`, `misc.c`) | two buffers and their pointers, pending hole, statistics, file offset | `setup`, `dd_in`, `def`/`block`/`unblock` and their close routines, `dd_out`, `dd_close` | no byte lost, repeated or moved; no store past a buffer; the summary is true | partly: `DdCopy` |
| `install` (`xinstall.c`) | target, temporary file, backup, attributes | `install`, `makelink`, `do_link`, `do_symlink`, `copy`, `strip`, `compare` | readers find the old or a whole new file; no litter; attributes as asked | partly: `Install`, `Replace` |
| `mkdir`, `rmdir`, `install -d` | the tree, the umask | `build`, `main`, `install_dir`, `rm_path` | makers side by side succeed; modes; umask restored | modelled: `MkPath` |
| `mv` (`mv.c`) | source and target names, the copy's mode and owner | `do_move`, `fastcopy`, `copy` | the data is always under one of the names; `-n`; no early access to the copy | modelled: `Move` |
| `pax` writing (`ar_subs.c`, `buf_subs.c`, `ar_io.c`) | block buffer, device state, volumes | `wr_archive`, `append`, `wr_*`, `buf_flush`, `ar_write`, `ar_next`, `appnd_start` | order, layout, nothing lost silently | partly: `PaxWrite` |
| `pax` reading (the same files, `tar.c`) | the same buffer, `hdbuf`, `lstrval`, `done`, `fini` | `get_arc`, `next_head`, `list`, `extract`, `append`, `rd_*`, `ar_read`, `ar_rdsync`, `ar_fow` | every member found, an append starts at the trailer, resync finds the next header | partly: `PaxRead` |
| `pax` tables (`tables.c`, `cache.c`) | tables of links, devices, directories, access times, update times, renamed names | `lnk_start`, `chk_lnk`, `purg_lnk`, `map_dev`, `chk_ftime`, `add_dir`, `proc_dir`, `add_atdir`, ... | exactly the links of a file are links; final attributes of directories | partly: `PaxTree`, `PaxFormat`, `PaxMember` |
| `pax` and the tree (`ar_subs.c`, `file_subs.c`, `ftree.c`) | the tree, open directories, the member in hand | `extract`, `copy`, `chk_path`, `node_creat`, `file_creat`, `lnk_creat`, `next_file`, `sig_cleanup` | members where and as they should be; nothing else touched | partly: `PaxTree` over `Tree` |
| `pax` header formats (`tar.c`, `cpio.c`, `pax_format.c`) | fields of a fixed size, records before the header | `ustar_wr`, `ustar_rd`, `pax_wr`, `cpio_wr`, ... | what is written reads back as it was, or is refused and told | partly: `PaxFormat` |
| `pax` options, patterns, substitutions (`options.c`, `pat_rep.c`, `sel_subs.c`) | lists of patterns, substitutions, selections | `pat_match`, `pat_sel`, `rep_name`, `mod_name`, `sel_chk`, `opt_*` | what is chosen and named is what was said | partly: `PaxMatch`, `PaxMember` |
| `gzip` (`gzip.c`) | `remove_file`, the output buffer, `exit_value` | `file_compress`, `file_uncompress`, `gz_compress`, `gz_uncompress`, `cat_fd`, `unlink_input`, `got_sigint` | the operand goes only when its data is whole elsewhere | partly: `Gzip` |
| `gzip`, other formats (`zuncompress.c`, `unbzip2.c`, `unxz.c`, `unpack.c`, `unlz.c`) | decoder tables | one decoder each | the data comes back | partly: `Zopen` has `zuncompress.c` |
| `compress` (`compress.c`, `zopen.c`) | code table, bit buffer, the file in hand | `compress`, `decompress`, `setfile`, `permission`, `zwrite`, `zread`, `zclose` | as `gzip`; writer and both readers agree on every code | partly: `Zopen`, `Compress` |
| `cp` (`cp.c`, `utils.c`) | the walk, the target path, the rights still to be set | `main`, `copy`, `copy_file`, `copy_link`, `copy_fifo`, `copy_special`, `setfile` | nothing outside but where a link in the target leads, nothing it was told to leave, nothing written on its own source | partly: `Cp` over `Walk`, `Tree` |
| `rm`, `unlink` (`rm.c`) | the walk | `rm_tree`, `rm_file`, `check`, `checkslash`, `checkdot` | gone is what was asked, and the status says so | partly: `Rm` |
| `ln`, `link` (`ln.c`) | the target | `main`, `linkit`, `samedirent` | the link is made, or what was there is kept | modelled: `Ln` |
| `mtree` | specification tree against hierarchy | `vwalk`, `miss`, `compare` | what `-u` says it corrected is correct | planned: `Mtree` |
| `truncate`, `touch`, `chmod`, `chown`, `chflags`, `xattr` | one file at a time | | sizes; ACL order | perhaps as algorithms |
| `ls`, `stat`, `df`, `du`, `cksum`, `pathchk`, `mknod`, `mkfifo`, `ipcs`, `ipcrm`, `shar` | none that outlives a call | | layout and sums | not modelled |

How they interact: `mv` runs `cp` and `rm` as children across file systems; `install`,
`mkdir` and `rmdir` compete with themselves; `gzip -d` reads what `compress` wrote; every
program meets other programs in the tree. Inside `pax`, `ar_subs.c` calls the format's
functions through `frmt`, these the buffer of `buf_subs.c`, and that the device of
`ar_io.c`. The models cut along those calls: `PaxWrite` and `PaxRead` are buffer and
device with members as opaque units, `PaxMember` is selection, naming and headers
without blocks, and `PaxTree` is members against the tree without an archive format.

## 2. The modules

Each program has a module with its state and one action per step, its properties at
the end of it or, where theorems state them, in a `...Props` module, and an `MC...` module that lists the *scenes*: the command lines
and file systems it is started with. One constant `Scenes` of each module is the set of
them; the first state picks one. So a run covers all command lines and one state graph
holds them all. A definition commented "Mutant" is a faulty variant of the one after it;
it occurs in no specification and serves to see that a property notices the fault.

    Replace <--refined by-- Install        PaxMatch <- PaxFormat <- PaxMember
    Tree <- PaxTree                        Zopen <- Compress
    Tree <- Walk <- Rm, Ln, Cp <- FileTools
    DdCopy   MkPath   Move   PaxWrite   PaxRead   Gzip

### DdCopy

A step is one system call (`read`, `write`, `lseek`) or one record moved between the
buffers. `ibuf` is `in.db..in.dbp`, `obuf` what is not written of `out.db`, `rd` the
block being read; `n`, `cnt`, `force`, `ret` are the locals of `dd_out` and the place it
returns to. `Setup`, `StartBlock`, `Read`, `ReadEof`, `ReadError` are `setup` and `dd_in`;
`Def`, `BlockStart`, `BlockRecord`, `UnblockRecord` and the `...Close` actions are
`conv.c`; `Flush`, `Fini` are `dd_close`; `SkipHole`, `Write`, `SeekOnly`, `WriteError` are
the loop of `dd_out`. Every read returns any part of what is left, every write any part
of what it is given. Left out: progress display, `iflag`/`oflag` other than `fullblock`,
speed limit, output that is not a regular file, parity and the case tables (one table
`ctab` stands for them all).

### Install

A step is one system call or the child `strip`; each may fail. `dir` says what the
target, the backup, a further link and each process's temporary name lead to, `file` the
content (whose, and whether plain, stripped or in part), mode, owner and immutable bit of
each inode. An absent target leaves `to_sb.st_flags` uninitialized (`xinstall.c:1069`):
`Lstat` chooses any value. The sandbox (EPERM on the temporary file) is a flag of the
scene. `Replace` is the abstract specification: a name shows the old file, then the whole
new file of one replacer, in one step, for each of them at most once; a new file that
cannot be given its attributes may be taken away. `InstallProps` maps to it what a reader
finds (`Shown`), what each process brings (`Offer`) and how far it is (`Stage`), and `Ins`
checks that `Install` implements it. Left out: `-l` with relative symbolic link texts, the metalog, `-p` times,
`strip` variants, extended attributes.

### MkPath

A path is a sequence of names and slashes, read as the loops of `build`, `install_dir` and
`rm_path` read it. `tree` maps directories to the mode they got, `um` is the umask of
each process (the one it came with, or relaxed). Any number of the five programs run at
once, beside one that makes and removes given directories for ever (`Flapping`).
`NodeAt(path, k)` is the directory that the first k places of a path lead to: what the loops
hand to `mkdir(2)` and `stat(2)` when they have put a NUL there. `MadeRight` has four parts:
makers side by side all succeed, a strict umask does not stop `mkdir -p`, it keeps the modes of
what it finds, and with `-m` it gives that mode to each directory it has made for an operand.
The last excepts what was made on the way (`OnTheWay`): `mkdir -p -m 700 a/b a` makes `a` as an
intermediate directory of the first operand, so the second finds it and leaves its mode alone.

### Move

`do_move` from `access` on, `fastcopy` call by call, and `copy` (the children `cp` and `rm`,
one step each: they do all, a part, or nothing). `Creator` adds a program that puts a
file under the target's name whenever there is none, as often as it likes. Left out: times,
flags and ACLs of the copy.

### PaxWrite

A unit is half a tape record, and the k-th unit given to the buffer is the number k, so
that a volume shows the order in which it was written. `vols` are the volumes, `dev` the
state of `ar_io.c` (`lstrval`, `wr_trail`, `done`, ...), `b` the buffer of `buf_subs.c`, `k`
the place in the program. `WrStart`, `AppndStart` open; `NextMember`, `Return`, `Put`,
`PutFlush`, `PutFlushed` are the loops of `wr_archive` and the `wr_*` functions; `Flush`,
`WriteFull`, `WritePart`, `WriteNone`, `WriteBroken`, `NextNone`, `NextVolume` are
`buf_flush` with `ar_write` and `ar_next`. Left out: traversal and selection, the link
tables, `lseek` and `ftruncate` that fail, a file that grows while it is archived (only
warned about); devices return whole blocks. An archive that is added to is made of whole
records, a device of whole blocks, and ends behind its trailer (`SceneOK`). An append
that changes its block size between volumes can lose data (`Shrinks`, `Grows`; section 5), and
the parts of `ArchiveRight` that fail then except it.

### PaxRead

The same half records, named for what they are: the header of a member, its data, zeros.
An archive is made from its members, and may be cut off, split into two volumes, have
damaged units (`dam`, which no header survives) and bad media (`bad`, which `read` fails
on). Data may look like the header of the first member or like a trailer. `dev` is the
state of `ar_io.c`, `b` the unread buffer, `h` is `hdbuf`, `k.want` what is still to go into
it, `k.resync`, `k.cnt`, `k.first` the locals of `next_head`. `FillData`, `FillNext`, `FillError`
and `FillEnd` are `buf_fill` for its three callers, and `Came` what they make of 0 and -1;
`Take` is `rd_wrbuf`; `IdFound`, `IdSearch` are `get_arc`; `Sync`, `Reread`, `RereadFails` are
`rd_sync` with `ar_rdsync`; `Headed`, `Trailer`, `ZeroRecord`, `Search` are the cases of
`next_head`; `Member`, `Copy`, `CopyFails`, `SkipStart`, `Skip` are a round of `list`, `extract`
and `append`. `found` and `gaps` are history. Where `append` is done reading (`pc` =
`"append"`) `PaxWrite` begins. A byte-by-byte search is one unit by unit; the step over bad
media may then land in the middle of a record, as in the code. Left out: formats with the
trailer in a header (cpio), long names before a header, `-n`, `-u`, `-i`, holes in extracted
files, and tapes, which are not compiled on this system.

### Gzip

A file is a sequence of pieces (plain blocks; header, blocks, CRC and length of a
member). `remove_file` is modelled as what it is: a pointer into the buffer `outfile`,
`armed` when it is set and `live` while the frame with the buffer exists; `Sigint`
unlinks what the buffer holds then. `Converts` says what a finished output is: the operand
packed, or the blocks of the whole members the operand begins with (`UnpacksTo`). `owed` is what
must not get lost: what the files held and what the other program writes, until `-f`, the
user or that program gives it up. `OtherSaves`, `OtherMakes`, `OtherDrops` are another
program in the directory; it leaves alone what gzip has made. Left out: `-l`, `-r`, `-S`,
the other formats, symbolic links, standard input, a `close` that loses data; and what
comes to the operand's name between the `stat` and the `unlink` of `unlink_input`
(`gzip.c:1273`), which two calls cannot close, is not counted as owed.

### Tree and PaxTree

`Tree` is a file tree as a record: names to inodes, inodes to nodes with type, rights,
owner, times and data, and for each system call what it needs and what it leaves.
`PaxTree` is what `extract` and `copy` do to it: `ExtractNext`, `ExtractChdir` and `CopyNext` take
a member through selection, the age tests of `-u` and `-D`, `mod_name` (a table of names) and
`chk_lnk`; the `Path...` actions are `chk_path`, which makes missing parents; `File...`, `Node...`
and `Link...` are `file_creat` and `file_close`, `node_creat`, and the hard links with, in copy
mode, `cross_lnk` and `chk_same`; `NextOperand`, `ReadDir`, `LeaveDir` walk as `ftree.c` does with
`-n` and `-t`; and at the end, or on a `Signal` between any two calls, come `proc_dir` and
`atdir_end`. `tab` holds the tables of
`tables.c`. One read or write of data may fail. Left out: ACLs and extended attributes,
`-H`, `-L`, `-P`, `-X`, `path_check`, hashing of the tables, symbolic links as directories.

### PaxMatch, PaxFormat, PaxMember

`PaxMatch` has `fn_match`, `range_match`, `pat_match`, `pat_sel`, `rep_name`, `resub` and the
selections of `sel_subs.c` over strings of characters; a regular expression is a literal,
anchored or not. `PaxFormat` has what each of seven formats stores of a member: names cut
at a slash into two fields, in records before the header, or refused; numbers by the
width of their field; owner names and the `cache.c` that resolves them; the link table
and the device map of `tables.c`. `PaxMember` runs pax on it: a scene is a sequence of
commands on one archive, so that one reads what another has written. `Options` says which
flags make which operation and which are refused; `wr_archive` with its metadata members
(copyfile), `append` with `-u`, and `list` are one action per step. Field widths are scaled
down (`NameSz`, `PrefixSz`, `Short`, `Long`), so that every boundary is reached by names of a
few characters. Left out: digits, checksums and byte orders, the text of options and
`-o`, percent names, interactive renaming, the command lines of tar and cpio.

### Walk, Rm, Ln, Cp, FileTools

`Walk` has what the three share: name resolution through symbolic links (`Real`, `Spot`),
option letters in their order (the last of `-f` and `-i` counts), `fts_read` as a list of
entries whose directories are read when they are reached and whose entries come in any
order (`Ahead`), the person who answers, and `Race`: another process that at any moment
makes, removes or exchanges one entry. `Rm`, `Ln` and `Cp` are one action per step of their
loops, cut between the `stat` and the call that uses it, so that `Race` can come between.
`seen` is what `lstat` said of the target, `got` the source as it was opened, `root` the
directory cp copies into and its `recurse_path`. cp's calls fail as the scene says;
`clonefile` is there or not for a whole scene, and without it `-c` goes on to the ordinary
copy (`Clones`). What is right is said of the tree as it was: `Wanted` has the entries that
cp is to copy, each with its origin and destination, `Behind` what an open of the
destination writes on when a symbolic link stands there, from before or copied there from
an earlier source. Left out: `rm -P -W -x`, the warning of `ln -w`, the content of ACLs and
extended attributes, a FIFO or device that is opened as a file, `.` as a source of cp.

### Zopen and Compress

`Zopen` is the coder as operators on a record: `zwrite`, `zclose` and `zread` of `zopen.c` and
`zread` of `zuncompress.c`, with codes of a growing number of bits in a buffer of `n_bits`
bytes, the table, CLEAR and the ratio test. A byte has `Width` = 2 bits and the widest code
5, so that a table fills after a few bytes. The hash is left out: the table is searched.
`Compress` is `compress.c` over it, one action per system call, and `gzip -dc < f.Z`, whose
reader is the other one. A scene is a sequence of commands on the same files: written,
perhaps cut off (`Cut`), read back. Left out: two names of one file for uncompress, damaged
bytes (a stream may only lose its end), other programs.

## 3. The runs

Every run checks the module's `TypeOK`; the other properties are these.

| Run | Shows | Distinct states |
|---|---|---|
| `Dd` | every conversion with every pattern of short reads and writes and one read error: no store past a buffer (`BuffersFit`); output, summary and file offset are those of the reference conversion (`CopyExact`); `Terminates` | 1,098,369 |
| `Ins` | one install with each command line, and each competing pair: the target changes as `Replace` says, and a failure before the rename keeps target and flags (`Replaces`); every exit leaves no litter, keeps the backup and, on success, has installed what was asked (`ExitsRight`) | 1,116,211 |
| `Mk` | three makers at once; every program alone; two of any kind beside the flipping program: makers succeed with the modes asked for (`MadeRight`), `UmaskRestored`, `Terminates` | 46,079 |
| `Mv` | one mv with every option, source and target, and pairs of them: the data is under a name at every moment, moved whole, and guarded while it is copied (`DataSafe`), `NoClobber`; it ends unless its `open` loses against a creator for ever (`Terminates`) | 177,382 |
| `PaxWr` | archives of none to two members, written and appended to, on files, pipes and devices, up to three volumes, with block sizes that stay or change: order, layout, the end of the old archive, and the status (`ArchiveRight`), `FailStops`, `Terminates` | 1,173,079 |
| `PaxRd` | three members listed, extracted or about to be added to, on files, disks and pipes; every cut, every split, one damaged unit or up to three bad ones anywhere: a sound archive is read whole, behind a flaw the next whole header is found (`ReadRight`); an append begins at a trailer and a file being extracted holds nothing but the beginning of its data (`InPlace`); `Terminates` | 219,950 |
| `PaxEx` | every archive of two (of some kinds three) members over small trees, and small trees copied, with the options that decide what is replaced: everything where it was to be and nothing else changed, `-k` and `-u` obeyed, a copy's source kept (`Placed`); modes, times and owners, no rights left that pax gave itself, no set-user-id for another owner (`Attributes`); `Terminates` | 308,298 |
| `PaxMem` | sequences of up to three runs on an archive in seven formats: no file is left out but for a reason, and what is written reads back, links as links (`ComesBack`); patterns, substitutions and selections against definitions of their meaning (`Chosen`) | 163,842 |
| `Tools` | rm, ln and cp on trees with links, closed and immutable entries, failing calls, another process: outside the names it is about, and what the links lead to that cp opens (`Followed`), and against a *no* nothing changes at any moment (`Kept`); result and status agree (`ResultRight`) | 68,060 |
| `Gz` | gzip and gunzip on one and two operands, two failing calls, two steps of another program, SIGINT anywhere: what is owed is never lost (`FilesKept`), `ResultRight`, `Terminates` | 143,805 |
| `Z` | compress, uncompress, zcat and gzip on each other's streams and on files in the way, one failing call: no file is lost or changed that should not be (`Kept`); both readers give back what was written, and the status tells it (`ResultRight`) | 39,805 |

One run is of another kind: TLC finds its property violated. For `GzReadError`, gzip.c calls the output "good" where it unlinks
the operand (`gzip.c:1519`), and TLC shows how that fails: after a read error the output is
short, its length agrees with what was counted, and the operand is unlinked.

Properties that are conjunctions have their parts as named definitions in the
component's module or its `...Props` module (`Kept == Others /\ Told /\ ...`), each with a comment of its own.

### Bounds

*Dd*: inputs of up to five bytes over two or three values against blocks and records of
one to three (four): every way in which the three boundaries can fall, with a record or
block that is exactly full, one short and one over; one read error, since each resets the
same state. *Ins*, *Mv*: one process is checked with all command lines, two with those
that share a step; three add no new kind of overlap since every step concerns one name.
*Mk*: three makers so that two can build for a third; three levels so that there is a
first, a middle and a last directory. *PaxWr*: blocks of two records, `MAXBLK` 6 and
`FILEBLK` 4 units, so that a block size divides, equals or exceeds another; three volumes
so that one is neither the first nor the last. *PaxRd*: the same block sizes, members
whose data fills records and does not, two records for the trailer; one flaw, or bad media
in two places so that the step over one leads to the other; `maxflt` below, at and above
the number of flaws. *PaxEx*: a directory, a file in it and three names beside it, with
twelve kinds of members, so that a member can be the parent of one, in the way of one, the
link of one, or older than one; `Faults` = 1. *PaxMem*: names of up to nine characters
against fields of four and five, so that a name fits, just fits, splits, just fills the
prefix, or must go elsewhere; a size on each side of its field, in first and last place;
device and inode numbers on each side of what a field holds, one of them a number that
`map_dev` gives away; patterns of up
to four characters against all names that they tell apart; up to three runs, since the
link table and the options live for one. *Tools*: a tree of three levels and a few
names beside it, up to five deep where a directory is copied into itself; below the target
a symbolic link out of it or to a directory; two sources with one last name; `cp -R` of a
directory into itself, once and twice; one race per scene, since every step looks at one entry; each call that
can fail fails in a scene. *Gz*: `MaxIno` 7 leaves room for every input, output and foreign
file; two faults, because an error path can fail in turn; two foreign steps, because one
can make what the next replaces. *Z*: codes of three to five bits, so that the width grows
twice, a table fills and is given up at the first look (`CHECK_GAP` 4), and `InMax` is passed;
reads of `Num` = 5 bytes, so that buffers of the coder and of the program do not line up.

`CHECK_DEADLOCK FALSE` where it stands: these programs end. `Tools`, `PaxMem` and `Z` stutter
at their end instead, so there TLC also checks that they stop nowhere else.

### Fairness

`Terminates` of `Dd`, `PaxWr`, `PaxRd`, `PaxEx` and `Gz` assumes weak fairness of the program's
next step: system calls return. The other program and the signals have none. For `Mk` and
`Mv` each process is fair and the flipping and creating programs are not fair but may go on
for ever, so termination does not rest on their stopping. For `Mv` there is one way not to
end: `fastcopy` unlinks what keeps `open(O_EXCL)` from making the target and tries again
without a limit (`mv.c:396-399`), so a program that creates the target anew each time just then
keeps it going. `Terminates` names that: a process ends, or the creation has come between its
`unlink` and its `open` again and again for ever (`Recreated`). `PaxMem`, `Tools` and `Z` state no
liveness: they go through their operands, entries and bytes once, and their runs end by
reaching every final state.

## 4. The proofs

### DdCopy

`DdCopyProofs` proves about `DdCopy`, for every set of operands, inputs, old files and byte
values that satisfies `ByteAssumption` and `OptionAssumption` (what `jcl` guarantees:
positive block sizes, `cbs` with `block` and `unblock`, no two of the exclusive
conversions, `bs=` alone), and for any number of read errors:

- `Invariance`: `Spec => []IInv`, the inductive invariant;
- `TypeCorrect`: `Spec => []TypeOK`;
- `NoOverrun`: `Spec => []BuffersFit`. No byte is stored past the end of either buffer:
  the sizes that `setup` computes (`dd.c:279`) are enough for every mix of short reads;
- `HoldsLittle`: what dd holds back while it reads is less than a block or a record.

`BuffersFit` is not inductive: that a whole input block fits behind what the buffer
holds follows only when the buffer was left with less than a block (`def`) or a record
(`block`, `unblock`). `IInv` adds that (`HeldBack`), and `Place`, which says for each
place in the program how `n`, `cnt`, `past` and the buffers stand to each other, so that
`dd_out` is known to bring the output buffer below a block. There is one lemma per
action, and lemmas about the sequence operators (`TakeProp`, `SwapPairsProp`,
`OsyncProp`, ...) they cite. `Dd` checks the same invariants on its instance.

### MkPath

`MkPathProofs` proves about `MkPath`, for any set of processes and any scenes that satisfy
`MkPathAssumption` (one of the five commands, a non-empty list of non-empty paths, `getopt`
and the usage checks see to that; names of a path have a slash between them, or they would be
one name; the directories of the start have one of the modes, and each is in another or in the
root, as in any file system):

- `MkPathInvariance`: `Spec => []IInv`, the inductive invariant;
- `UmaskAlwaysRestored`: `Spec => []UmaskRestored`. Whatever a path meets, and whatever the
  other processes do to the tree in between, only `build` runs under the relaxed umask
  and only before the last component;
- `MkPathTypeCorrect`: `Spec => []TypeOK`. `i` never passes the end of the path;
- `MkPathMadeRight`: `Spec => []MadeRight`, from the second inductive invariant `MakeInv`.

Neither part is inductive alone. That `i` stays in the path needs that a process at work
has an operand left, that the place where the loop stops exists and lies between `i` and the
end (`StopProp`, from the well-ordering of the naturals), and that a `stat` follows the
`mkdir` of the same component: `last` as stored before the call is what the path says
after it. `OthersKeep` reduces a step of one process to what it does to its own locals;
`NextOperandProp`, `TurnProp`, `ReturnProp`, `ErrProp` and `NextStopProp` say that for the
parts the actions share, and then there is one lemma per action.

`MakeInv` adds to `IInv` where a command can be (`Route`), and two things about makers. When nobody
removes and nothing is in the way (`Calm`), every directory is in another (`Rooted`), whoever is on
the way finds what it has passed (`Progress`: the directory that the places before `i` lead to,
and after an `EEXIST` the component in hand), and the only directory that denies its owner
anything is the one a `mkdir -p` under a strict umask was asked for, when nothing is left to be
made below it (`Closed`): so every `mkdir(2)` either makes the directory or finds it. Other makers
only add to the tree, so they disturb none of it (`CalmFrame`). A `mkdir -p` alone
(`AloneInv`) keeps what was there, and what it has made with `-m` has that mode, was made on the way
of an operand, or is what it is about to `chmod`. Both rest on `PathStep`: from one stop of
the loops to the next there is one name at most, so the next component is what was reached or
in it. The recursive `NodeAt` is got from the well-ordering of the naturals (`NodeProp`).

### Install

`InstallProofs` and `InstallExits` prove about `Install`, for any finite set of processes
whose temporary names are not the target's, the backup's or the further link's
(`ProcAssumption`, what `mkstemp` gives), and any scenes of such processes, requests and
targets (`InstallAssumption`):

- `Invariance`: `Spec => []IInv`, and `TypeCorrect`: `Spec => []TypeOK`;
- `NoLitter`: `Spec => []NoTempLeft`, for any number of processes at once;
- `Replacing`: `Spec => Atomic!Spec`. `install()` implements `Replace`: whatever fails, and
  however many installs compete for the name, a reader finds the old file or all of one new
  one. `FailuresKeep` adds what a failure leaves, and `Replacement`: `Spec => Replaces` is both;
- `RightExits`: `Spec => []ExitsRight`, what every exit leaves.

The refinement is not to be had from the types: that the renamed file holds what its process
offers needs to know, at every call, what the temporary name leads to and that this file is
finished (`Temporary`), which name the program works on (`Working`), which command lines come
to the call at all (`Route`), and that nobody else's file is under the temporary name while no
file of a process that is not through has the target's (`Hidden`). A step of one process
keeps this for the others because it changes no other process's files and temporary name
(`Alters`, `OthersKeep`); so each action has a lemma about its own process (`Fine`), and
another says what `Replace` sees of it: nothing (`Quiet`), the put (`Puts`) or the end of a
file that could not be given its attributes (`Gives`). `ExitsRight` and `FailureKeeps` are about
an install that has the target for itself. `AInv` holds then: the target as it was until
the rename (`Before`), the immutable bit (`Locks`), the backup (`Backup`), data, mode and owner
of the file that has the name (`Result`, `Private`, `Owned`), and the file filled in place in
the sandbox (`Boxed`).

### Move

`MoveProofs` proves about `Move`, for any finite set of processes and scenes in which a source
that is the target's own file is a regular one on its file system, and a target that is not
moved into is no directory (`MoveAssumption`; `main` sees to that):

- `Invariance`, `TypeCorrect`;
- `SafeData`: `Spec => []DataSafe`. Until `mv` reports success the source's data is whole under
  one of the names; what success says is true; nobody opens a part of a copy, and no copy is
  set-user-id for another owner; for any number of moves to one target;
- `NoClobbering`: `Spec => NoClobber`.

The invariant says per process what it may rely on (`Request`, `Source`, `Kept`, `Guarded`). The
hard part is `LastWins`: with several moves to one target each may take away what another has
put, so no process can be sure of its own file. `Owed` is what holds instead: some file has
arrived, or some process is still to bring one, and a process that is no longer to bring one
(`Settled`) has seen it arrive. It holds with and without the program that creates files.

### PaxWrite

`PaxWriteProofs` proves about `PaxWrite`, for every record and block size,
every number of volumes, and all commands that satisfy `SceneOK` (any number of members of any
size):

- `Invariance`, `TypeCorrect`: no volume holds what was not put, the offset lies on the open
  volume, the buffer is never shorter than a block, and no flush reaches past it;
- `FailureStops`: `Spec => FailStops`;
- `ArchiveIsRight`: `Spec => []ArchiveRight`: the order of what is on the volumes and in the
  buffer, the place of each part of a member, the status, and the end of the old archive.

`TInv` adds to the types which block size is in use, and that a flush counts no more than the
block it began with, so that what it moves to the front is in the buffer. `Control` says how
much has been put at each place of `wr_archive` (`Place`, against the recursive function
`Ends`), that the buffer is never fuller than a block and full when it is flushed unless the
append shrinks its blocks (`Fits`, `Flushes`), and that a failure leaves its mark in the status
(`Blamed`). `Kept` is the heart: unit i of the volumes, and unit i behind them of the buffer, is
i or, behind all that was put, zero; and volumes and buffer together hold no less than what
was put, and exactly that until `wr_fin` fills the last block up (`Enough`). `InOrder` alone is not
inductive, since a unit of zeros behind the last could be followed by more. `Emptied` says
that a program that is through has flushed its buffer, unless it has said so. Underneath are
lemmas about `Splice`, `SubSeq` and `FlattenSeq` (`SpliceProp`, `PartProp`, `FlattenAppend`,
`EndedMore`: to write behind the offset of the last volume is to append to all of them) and one
about where an append begins (`AppendsAt`: going back whole blocks from the end of what was
read, and keeping what lies before the trailer, never loses a unit of the old members).

Proving found what the run had not: `InOrder` failed for appends whose next volume has smaller
blocks, `Told` for larger ones, and both are faults of the code (section 5). TLC shows
them when `Shrinks` is taken out of `InOrder`, or `~ Grows` out of `Told`.

### PaxRead

`PaxReadProofs` proves about `PaxRead`, for every record and block size, all archives that satisfy
`SceneOK` (any number of members of any size, cut off anywhere or split into two volumes, any
damaged units and bad media) and whatever each `read` returns:

- `TypeCorrect`: `Spec => []TypeOK`, with the bounds of the buffer and of `hdbuf`;
- `FilesBeginRight`: `Spec => []FilesBegin`;
- `AppendsRight`: `Spec => []AppendsAtTrailer`, and `InPlaceRight` the two together.

None of the three is inductive. `TInv` adds to the types where each local is set: how much may be
in `hdbuf` at each place of `next_head` and `get_arc`, that the buffer is empty where it is
dropped, that the device stands on its volume, and that a file in hand has room for just
what is still to be copied (`OutOK`). `CInv` ties the buffers to the archive. `Q`, the place of the
device less what is buffered, is where the next unit comes from: the buffer holds the units
behind `Q` (`BufHolds`), and `hdbuf` those before it (`HeadHolds`), whatever was read, thrown out,
given back, stepped over or in the volume before. From it follows that what passes for a header is one
(`IdFound`, `Headed`), unless data looks like it, and so where the member in hand lies
(`FilesPlaced`): this gives `FilesBegin`. `AppendOn` follows an append from the first header on:
as long as nothing was wrong members are found in order, `Q` stands at the place of the next
one (`Spot`) or the need is what is missing to it, zeros before a trailer are counted only behind
the last member, and input that ends where a header is due (`fini`) leads to a closed volume and no
append. The arithmetic of blocks in `rd_skip`, `ar_fow` and `ar_rdsync` is in `BlockSizes` and the
lemmas `SkipC`, `SkipStartC` about what one step moves over; that members do not overlap, and that
the place of a header tells the member, comes from the recursive `UpTo` by the well-ordering
of the naturals.

### Gzip

`GzipProofs` proves about `Gzip`, for every set of calls that satisfies `ScenesAssumption` (`-t`
is `-c`, every file has a name, what is to be packed is plain), any archives, whole, damaged or
with garbage behind them, and any number of inodes, failures and steps of another program:

- `Invariance`: `Spec => []IInv`, and `TypeCorrect`: `Spec => []TypeOK`;
- `KeepsFiles`: `Spec => []FilesKept`. What is owed is whole under some name at every moment
  (`SourceKept`), an output that is still there at the end is whole or empty (`NothingHalf`),
  and none can be read by others before it is whole (`PrivateUntilWhole`).

`FilesKept` says nothing of how an output comes to be whole, so it is far from inductive. `IInv`
says of one operation (`Locally`): which locals are set where and that the output has one name
and is the newest file (`Places`, `Own`); when `remove_file` may be used (`Pointer`); that the
input is of the other kind and so never an output of the same call (`Kinds`); that the output
keeps mode 0600 (`Hidden`); and what the output holds (`Contents`): while packing, header and
blocks up to `w.pos`, written or in the buffer (`Deflated`); while unpacking, the blocks of what
was read, whole members before it and one begun `Began` pieces ago, whose checksum and length
are those in `w.sum` (`Inflated`); and from there to the unlink that the output `Converts` the
input, which is `Packed(Values(d))` or `UnpacksTo(d, e)`. The step to it is the comparison of
lengths in `CSize` and `DReopen`: no path with an error has the right length but those in `excused`.
`Overall` says of the directory that a file made by an operation that is over is whole
(`Settled`), that outputs are plain or not as the call says (`Plains`), and `Held`: everything owed
is under a name that is not the output in hand, and at the `unlink` of the operand under another
name than the operand or in the very file that was read. An output may hold it in converted form,
a file of others only as it is; so converting never has to be done twice to get data back.

The proof has lemmas about pieces, packing and blocks (`BlocksProp`, which gets the recursive
`Blocks` from the well-ordering of the naturals, `MembersMore`, `NotBothPlain`), then one about what
a step that touches only the output does to the directory (`OnOutput`, `HeldStep`, `SettledStep`),
what another program's step does to an operation under way (`OtherStep`), and one per action.

### What is only model-checked

Liveness (`Terminates` everywhere), and what the recursive definitions of the reference functions
in the properties compute, are checked by TLC only; so are `CopyExact` of `DdCopy`, whose reference
conversion is an induction over the input; `ResultRight` of `Gzip`, whose end compares with the
names and files of the start; and `ReadRight` of `PaxRead`, which says what has been found when
reading is over: on sound archives it would need `AppendOn` for files that are extracted too,
and behind a flaw the path of `rd_sync` from each bad place to the next header. Nothing is
proved of `PaxTree`, `PaxMember`, `FileTools` and `Compress`; the modules `PaxMatch`, `PaxMember`,
`PaxMemberProps`, `Zopen` and `Compress` declare recursive operators, which the provers do not
take.

## 5. Where code and documentation differ

Reading for the models, and counterexamples on the way to properties that hold, turned up
the following. But for the run above no run shows them: where a property would be
violated it has an exception that names the case, and TLC violates it when that is taken
out. *Not run* marks what the models or their scenes leave out instead. Each is a line to
look at.

- dd: `dd.c:583` a copy that ends in a hole is cut to its end by `ftruncate` also with
  `notrunc`, which dd.1 says preserves blocks not written; `conv.c:204` the last record of
  `block` is not translated (dd.1, *conv=*); `conv.c:207`
  `osync` padding starts inside it; `conv.c:170` a record is counted as truncated when
  its newline is the first byte of the next block; `dd.c:529` `if=`, `of=` and `count=` set
  flags and so turn the unbuffered path of `bs=` off; `dd.c:498` with `noerror` and `fullblock`
  part of the next block is skipped.
- install: `xinstall.c:1167` with `-C -m 4755 -o` the mode is compared with what `fstat` said
  before `fchown`, which takes the bits away, so `fchmod` is left out; `:979` in the sandbox
  there is no backup; `:985` and no second try to strip; `:1186` flags are compared with what
  they were before they were cleared.
- mkdir: `mkdir.c:159` `mkdir -p -m` gives `a/b//` no mode.
- mv: `mv.c:396` the loop of `open` and `unlink` has no limit (`Recreated`); `mv.c:276`, `:323` `-n` replaces a dangling link, and a file made after `access`; a rename
  of two links of a file does nothing and succeeds.
- rm: `rm.c:241` an unreadable directory is left before the `rmdir` that the comment at
  `:302` promises, and the case at `:309` is dead; `checkslash` (`:539`) does not know `//`;
  `:350` tests `rval == 0 &&` where the cases above it test `||`; `:363` `-rf` of an operand in a
  directory that may not be searched does nothing and ends with 0; `:269` the superuser's
  `-i` clears the immutable bit of a directory before it asks.
- ln: `ln.c:289` `ln -f l c` with `l` a symbolic link to `c` removes `c`, then fails: `samedirent`
  compares names, not files; `ln -sf a a` makes a link to itself; `-sF` with several sources
  puts each at the one name and ends with 0, as `ln -f` does with several sources of one last
  name in a directory, of which only the last has its link (`LnLast`); a source that
  is what another's link replaces is lost before it is linked (`ToTarget`); with `-f` the
  target is lost when the link then fails.
- cp: `cp.c:278` `tmp_stat` is read uninitialized when source and target are missing; `cp.c:458`
  the `assert` fails for `cp -R a a a` and `cp -R a a a/b` (`IntoTwice`); `utils.c:300` the open
  of an existing target follows a symbolic link, so that `cp -R a b` writes on a file outside
  of `b` when a link to it stands where a file of `a` is to go (`Followed`); of several sources
  with one last name the last stays and the status is 0 (`cp c a/c b`), and a copy may be
  written to what is copied afterwards, as in `cp -R c a a/b` (`Fed`); a directory `._x` is
  skipped but what is in it is not, and fails (`Plain`);
  a socket is not copied and the status stays 0 (`Mirrors`); `utils.c:502` `copy_link`, `copy_fifo` and
  `copy_special` replace without asking under `-i`; `-n` truncates a file that appears after
  the `lstat`, as the open has no `O_EXCL`; a directory that cannot be read leaves its copy
  with the owner's rights only; a failing `fstat` of the target leaks the descriptor; a
  `write` of 0 bytes is taken for success.
- pax, blocks: `buf_subs.c:458` the flush of the last block is not looked at, so that a block
  written in part ends with 0 (pax.1: all files processed); `ar_subs.c:1335` an archive that
  ends in the data of a file is taken for one without a trailer, the file is cut off and
  the status 0;
  `ar_io.c:1161` no further volume for tar and pax formats (pax.1 has them);
  `buf_subs.c:99` a block size above 32256 exits with status 0; `buf_subs.c:609` a flush
  that returns 0 is taken for the end of the file; `buf_subs.c:916`, `:943`
  an append that goes on to a volume of other blocks loses data with status 0, though `:584`
  says "it is important that we always write EXACTLY the number of bytes" asked for. With
  smaller blocks `buf_flush` returns the length it has written while the buffer still holds the
  surplus, its callers put that much behind it, and the next flush drops what does not fit, or
  `wr_fin` clears a negative length (`:457`). With larger ones it returns 0, and when the
  block was the last nobody asks again, though `:447` says that `wr_fin` will "flush out any
  data (and pad if required) the last block";
  `ar_subs.c:944` an append to an archive without trailer
  would go back by a whole trailer, and is refused only because `ar_next` has closed the
  volume, with a message about its offset (`AppendsAtTrailer` depends on it);
  `ar_subs.c:1536` `-a` on what is no archive ends silently with status 0; `ar_io.c:186` so does
  listing a directory; `ar_io.c:633` EPIPE is a success.
- pax, tree: `file_subs.c:262` a `symlink` that fails is not told; `tables.c:1255` `proc_dir` goes
  from last to first, so that a directory stored twice ends with its oldest mode and
  times, and one whose parent is closed by then cannot be set; a parent that `chk_path` made
  and forced open, when it comes as a member later, gets the umask's mode back;
  `ar_subs.c:1160` in copy mode members left out by `-k`, `-Y`, `-Z` are not taken from the link
  table, against the comment at `tables.c:216`, and `wr_archive` when `res > 0` and `extract`
  with `-u` do not do it either; with `-C` members left out skip the `fchdir` back; a signal
  between a forced mode and `add_dir` leaves it; `-u` and `-D` are tested before `-C` and before
  the name is replaced; `tty_subs.c:127` a warning counts for the status only with the
  default `invalid=`.
- pax, names: `rep_name` with `g`, an empty match and an empty replacement goes on for ever, and
  `^` matches again at each continuation (not run); a replacement cut at `PAXPATHLEN` is taken as it is;
  `fn_match` has a backslash as itself (not run); with `-n` and no pattern nothing is listed; with `-n`
  `pat_sel` clears `arcn->pat` before the `chdir` of `-C` looks at it; ranges of ctime test the
  mtime when an archive is read.
- pax, headers: `tables.c:774` `map_dev` asks only which devices it has mapped, and may give one
  the number of another that it has not, whose files the reader then takes for links
  (`Confused`); `tar.c:1034` a ustar prefix of exactly `TPFSZ` loses its last character, though
  "both the name and prefix may fill the entire field" (`:1047`; `Stem`); after a file too big for
  its field every later member of `pax_wr` has a stale `size` record, and so where the reader
  looks for the next is wrong (`Oversize`); `ar_subs.c:654` a metadata member that is refused
  leaves a flag set: the file goes into the place of the next one, which is lost without a
  word, or is lost itself when it was the last (`Bared`). Not run: a reader of ustar overwrites
  a GNU long name, and a link's `ln` likewise; `uid` of a record is read as octal; a `path`
  record leaves a link's name alone; records above 512 bytes end the program; `ar_subs.c:908` an append does not enter the devices of
  members it skips; `pax -wa -x pax` cannot add to an archive of its own that has no records.
- gzip: `gzip.c:1677` after a failed operand `remove_file` points into a dead frame, and SIGINT
  removes the next operand; `gzip.c:1898` with `-df` a failing standard output counts 0 bytes, which agrees;
  `:1516` a failed `close` is only warned about; `:1469` closes `stdin`, not `in`; `:1984` a damaged
  `.Z` on standard input ends silently with 0.
- compress: `compress.c:367` unlinks the operand by name, whatever it is by then; `-b 9` to `-b 11`,
  which compress.1:112 allows, write files that its own reader and gzip's refuse
  (`maxbits` below 12), with the operand gone; `-f` on an empty file gives an empty `.Z` that
  uncompress refuses; a failing `fclose` is followed by a second one; `compress.c:338` a
  failing first write leaves its part of the output; a `.Z` cut off in a code gives one wrong
  code or ends silently with 0, and the operand goes; `cat` set by `-` stays set; a failing
  `setfile` does not keep the operand; an `eval` of 2 becomes 1 when the unlink fails; a bad code
  loses what the same call had decoded; `f.Z` that is a link of `f` loses the data with `-f`.
- mtree (read, not modelled): `spec.c:193` `value == 0 ||` makes the keywords `ignore` and `nochange`
  of mtree.8, which take no value, always end with "missing value"; in `verify.c` `miss()` the
  `continue` of a missing name that is no directory does not take its length back from
  `path_length`, so after many of them later names are skipped as too long; `vwalk()` does not
  set `rval` for an extra file, removed or not; a directory whose postorder visit is `FTS_DNR`
  leaves `level` inside it; `compare.c:224`-`373` corrects through symbolic links where `miss()`
  uses `lchown`.

## 6. Plan

1. Proofs: `ReadAll` of `PaxRead`, from `AppendOn` for all three programs; `ResultRight` of
   `Gzip`; the types of `PaxTree`.
2. `Mtree`: `vwalk`, `miss`, `compare` with the stale `stat`.
3. A second abstract specification, `Stream` (a queue of units in order), implemented by
   `DdCopy` for `def` and by `PaxWrite`; `Move`'s `copy` as the abstract specification of `Cp`
   followed by `Rm`.
4. `unpack.c` as functions; `truncate`; the option texts of `pax`.

The number of runs is kept small: scenes go into the run of their module, and what refutes
a sentence of a manual page is listed in section 5.
