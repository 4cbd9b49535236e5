-------------------------------- MODULE Pkg --------------------------------
(***************************************************************************)
(* The package manager: the index and the install transaction of kilget    *)
(* (pkg/kilget.c), the database of dpkg (pkg/dpkg.c), archives (pkg/deb.c, *)
(* pkg/tar.c).                                                             *)
(*                                                                         *)
(* Three machines: packages that are installed and removed, with a failure *)
(* possible at every write; the stream of an index cut into paragraphs;    *)
(* and the blocks of a tar archive.                                        *)
(***************************************************************************)
EXTENDS Naturals, Sequences, FiniteSets, SequencesExt

CONSTANTS Cap,          \* DEB_MAX_FILES: paths that are recorded
          Depth,        \* 16: nested dependencies
          Commands,     \* commands the user gives
          TextLen,      \* characters of an index
          ParaMax,      \* FEED_PARA_MAX
          Entries       \* entries of an archive

VARIABLES deps,     \* the repository: what a package depends on
          disk,     \* files that exist
          list,     \* info/<pkg>.list, or None
          status,   \* /var/lib/dpkg/status: the version, 0 if there is no paragraph
          index,    \* /var/lib/kilget/Packages
          todo,     \* what kilget_install has still to install, or "idle"
          astray,   \* files that failed and repeated installations left behind (ghost)
          broken,   \* a dependency was removed, or a cycle interrupted (ghost)
          given,
          text, feed,       \* an index, and the feeder in it
          tape, reader      \* an archive, and tar_iterate() in it

Pkgs == {"a", "b", "c"}
None == {0}

\* What is in the .deb of version v; file 1 is shared by a and c, file 2 by a and b.
\* Version 2 of a has dropped file 2
Payload(p, v) ==
  CASE p = "a" -> IF v = 1 THEN <<1, 2>> ELSE <<1>> [] p = "b" -> <<2, 3>> [] OTHER -> <<4, 3, 1>>
DependsOn(p, v) == IF v = 1 THEN deps[p] ELSE {}

PkgInit ==
  /\ deps \in {d \in [Pkgs -> SUBSET Pkgs] : \A p \in Pkgs : p \notin d[p]}
  /\ disk = {} /\ list = [p \in Pkgs |-> None] /\ status = [p \in Pkgs |-> 0]
  /\ index = {} /\ todo = <<"idle">> /\ astray = {} /\ broken = FALSE /\ given = 0

Idle == todo = <<"idle">>
Command == Idle /\ given < Commands /\ given' = given + 1

\* dpkg_is_installed
Installed(p) == status[p] # 0
-----------------------------------------------------------------------------
(* kilget update                                                           *)

Components == <<<<"a", "b">>, <<"c">>>>

\* What fetch_component_index() leaves in the table: everything, the records before
\* the place where the decompression failed, or nothing
Fetched(c) == {[ok |-> k = Len(c), recs |-> SubSeq(c, 1, k)] : k \in 0..Len(c)}

\* index_store_compact: written anew, and read back by index_load
Stored(recs) == ToSet(recs)

\* The old index stays unless the new one was stored
Update ==
  /\ Command
  /\ \E f \in Fetched(Components[1]), g \in Fetched(Components[2]) :
       LET recs == f.recs \o g.recs
       IN /\ (f.ok \/ g.ok) /\ recs # <<>>
          /\ index' = Stored(recs)
  /\ UNCHANGED <<deps, disk, list, status, todo, astray, broken>>
-----------------------------------------------------------------------------
(* dpkg                                                                    *)

Took(s, n) == {s[i] : i \in 1..(IF n > Len(s) THEN Len(s) ELSE n)}

\* deb_unpack(): the payload up to the k-th file; the failure of the k-th write, of a
\* member, or the missing control file are found after that
Unpacked(p, v, k) == disk' = disk \cup Took(Payload(p, v), k)

Left(p, v, k) == astray' = astray \cup Took(Payload(p, v), k)

UnpackFails(p, v) ==
  /\ \E k \in 0..Len(Payload(p, v)) : Unpacked(p, v, k) /\ Left(p, v, k)
  /\ UNCHANGED <<list, status>>

\* dpkg_check_deps(), after the payload is on the disk
Missing(p, v) == \E q \in DependsOn(p, v) : ~ Installed(q)
DepsFail(p, v) ==
  /\ Missing(p, v)
  /\ Unpacked(p, v, Len(Payload(p, v))) /\ Left(p, v, Len(Payload(p, v)))
  /\ UNCHANGED <<list, status>>

\* info_write_list(): a list that cannot be written is empty, or the old one
ListFails(p, v) ==
  /\ Unpacked(p, v, Len(Payload(p, v))) /\ Left(p, v, Len(Payload(p, v)))
  /\ list' = [list EXCEPT ![p] = IF @ = None THEN {} ELSE @] /\ UNCHANGED status

\* filelist_cb: the first Cap paths
Noted(p, v) == Took(Payload(p, v), Cap)

Recorded(p, v) ==
  LET all == Took(Payload(p, v), Len(Payload(p, v)))
      new == Noted(p, v)
  IN /\ Unpacked(p, v, Len(Payload(p, v))) /\ list' = [list EXCEPT ![p] = new]
     /\ astray' = astray \cup (all \ new) \cup (IF list[p] = None THEN {} ELSE list[p] \ new)

\* The status file cannot be written, and is the old one
StatusFails(p, v) == Recorded(p, v) /\ UNCHANGED status

InstallFails(p, v) == UnpackFails(p, v) \/ ListFails(p, v) \/ StatusFails(p, v)
\* status_without: the paragraphs of the others
Without(p) == [status EXCEPT ![p] = 0]

InstallFile(p, v) == Recorded(p, v) /\ status' = [Without(p) EXCEPT ![p] = v]

\* dpkg -i
DpkgInstall(p, v) ==
  /\ Command
  /\ IF Missing(p, v) THEN DepsFail(p, v) \/ UnpackFails(p, v) ELSE InstallFile(p, v) \/ InstallFails(p, v)
  /\ UNCHANGED <<deps, index, todo, broken>>

\* Mutant: the lists of other packages are not looked at
OwnedByNone(p, f) == FALSE

\* file_owned_by_other
OwnedByOther(p, f) == \E q \in Pkgs \ {p} : f \in list[q]

\* The paragraph stays if the status file cannot be written
DpkgRemove(p) ==
  /\ Command /\ Installed(p)
  /\ disk' = disk \ {f \in list[p] : ~ OwnedByOther(p, f)}
  /\ list' = [list EXCEPT ![p] = None]
  /\ status' \in {Without(p), status}
  /\ broken' = (broken \/ \E q \in Pkgs : Installed(q) /\ p \in DependsOn(q, status[q]))
  /\ UNCHANGED <<deps, index, todo, astray>>
-----------------------------------------------------------------------------
(* kilget install                                                          *)

\* index_find
InIndex(p) == p \in index

\* plan_visit: dependencies first, a back edge of a cycle ignored
RECURSIVE Visit(_, _, _)
Visit(plan, p, d) ==
  IF plan.failed \/ d > Depth THEN [plan EXCEPT !.failed = TRUE]
  ELSE IF plan.mark[p] # 0 THEN plan
  ELSE LET v == FoldLeft(LAMBDA acc, q : IF acc.failed \/ Installed(q) THEN acc
                                         ELSE IF ~ InIndex(q) THEN [acc EXCEPT !.failed = TRUE]
                                         ELSE Visit(acc, q, d + 1),
                         [plan EXCEPT !.mark[p] = 1], SetToSeq(deps[p]))
       IN IF v.failed THEN v ELSE [v EXCEPT !.mark[p] = 2, !.order = Append(@, p)]

Plan(p) == Visit([mark |-> [q \in Pkgs |-> 0], order |-> <<>>, failed |-> FALSE], p, 0)

KilgetInstall(p) ==
  /\ Command /\ InIndex(p) /\ ~ Installed(p)
  /\ ~ Plan(p).failed /\ todo' = Plan(p).order
  /\ UNCHANGED <<deps, disk, list, status, index, astray, broken>>

Reaches == [p \in Pkgs |-> LET step(S) == S \cup UNION {deps[q] : q \in S} IN step(step(deps[p]))]
Cyclic == \E p \in Pkgs : p \in Reaches[p]

\* fetch_and_install, "force-deps: continuing (transaction mode)".  A download that
\* failed or did not have the digest of the index, and a full cache, change nothing
Fetch ==
  /\ ~ Idle /\ todo # <<>> /\ ~ Installed(Head(todo))
  /\ \/ InstallFile(Head(todo), 1) /\ todo' = Tail(todo) /\ UNCHANGED broken
     \/ /\ InstallFails(Head(todo), 1) \/ UNCHANGED <<disk, list, status, astray>>
        /\ todo' = <<"idle">> /\ broken' = (broken \/ Cyclic)
  /\ UNCHANGED <<deps, index, given>>

\* The loop ends; a plan names no package that is installed, and none twice
Complete ==
  /\ todo = <<>> /\ todo' = <<"idle">>
  /\ UNCHANGED <<deps, disk, list, status, index, astray, broken, given>>

PkgNext ==
  \/ Update \/ Fetch \/ Complete
  \/ \E p \in Pkgs : KilgetInstall(p) \/ DpkgRemove(p) \/ DpkgInstall(p, 1)
  \/ DpkgInstall("a", 2)

(***************************************************************************)
(* Every recorded file exists, whoever else was installed, half installed  *)
(* or removed since: dpkg_remove keeps what another list names, and an     *)
(* installation that fails half-way takes no file away.                    *)
(***************************************************************************)
ListedExist == \A p \in Pkgs : list[p] # None => list[p] \subseteq disk

(***************************************************************************)
(* Nothing stays behind but what a failed installation, the limit on a     *)
(* list or a new version left: removing the packages removes the files.    *)
(***************************************************************************)
NoLeftovers == disk \subseteq astray \cup UNION {list[p] : p \in Pkgs}

(***************************************************************************)
(* "The final state after the loop is consistent": what an installed       *)
(* package depends on is installed, also after a transaction that was      *)
(* given up, unless the user removed a dependency or a cycle was cut.      *)
(***************************************************************************)
Consistent ==
  Idle /\ ~ broken => \A p \in Pkgs : Installed(p) => \A q \in DependsOn(p, status[p]) : Installed(q)
-----------------------------------------------------------------------------
(* The paragraphs of an index that arrives in pieces.  "n" is a newline    *)

FeedInit ==
  /\ text \in UNION {[1..k -> {"x", "n"}] : k \in 1..TextLen}
  /\ feed = [at |-> 0, buf |-> <<>>, run |-> 0, over |-> FALSE, out |-> {}, done |-> FALSE]

Xs(buf) == {buf[i] : i \in {j \in DOMAIN buf : text[buf[j]] = "x"}}
Ends(S) == <<CHOOSE i \in S : \A j \in S : i <= j, CHOOSE i \in S : \A j \in S : j <= i>>

\* parse_record: a paragraph without a Package field is none
Parsed(f) == IF f.over \/ Xs(f.buf) = {} THEN f.out ELSE f.out \cup {Ends(Xs(f.buf))}

\* feed_append
Kept(f, i) ==
  IF Len(f.buf) + 1 >= ParaMax THEN [f EXCEPT !.over = TRUE] ELSE [f EXCEPT !.buf = Append(@, i)]

BlankLine(f) == [f EXCEPT !.out = Parsed(f), !.buf = <<>>, !.over = FALSE]

\* index_feed, one character
Feed ==
  /\ feed.at < Len(text)
  /\ LET i == feed.at + 1
         f == [feed EXCEPT !.at = i]
     IN feed' = CASE text[i] = "x" -> Kept([f EXCEPT !.run = 0], i)
                  [] text[i] = "n" /\ f.run = 0 -> Kept([f EXCEPT !.run = 1], i)
                  [] text[i] = "n" /\ f.run = 1 -> BlankLine([f EXCEPT !.run = 2])
                  [] OTHER -> [f EXCEPT !.run = IF @ < 3 THEN @ + 1 ELSE @]
  /\ UNCHANGED text

\* index_feed_finish
FeedFinish ==
  /\ feed.at = Len(text) /\ ~ feed.done /\ feed' = [feed EXCEPT !.out = Parsed(feed), !.done = TRUE]
  /\ UNCHANGED text

\* A stretch between two blank lines
Unbroken(i, j) == \A k \in i..(j - 1) : ~ (text[k] = "n" /\ text[k + 1] = "n")
Paragraph(i, j) ==
  /\ i <= j /\ text[i] = "x" /\ text[j] = "x" /\ Unbroken(i, j)
  /\ \A k \in DOMAIN text : text[k] = "x" =>
       (k < i => ~ Unbroken(k, i)) /\ (k > j => ~ Unbroken(j, k))

(***************************************************************************)
(* The records are the paragraphs of the text, however many blank lines    *)
(* separate them and wherever the stream is cut into calls; one that does  *)
(* not fit the buffer is passed over without a trace in the next one.      *)
(***************************************************************************)
ParagraphsExact ==
  /\ feed.done => \A i, j \in DOMAIN text :
       Paragraph(i, j) /\ j - i + 3 < ParaMax => <<i, j>> \in feed.out
  /\ \A r \in feed.out : Paragraph(r[1], r[2])
-----------------------------------------------------------------------------
(* tar_iterate                                                             *)

\* A block is a header (n: the blocks of its body), or the zero block.  Name 0 is the
\* name field of an entry whose long name is in the "L" entry before it
Header(kind, name, n) == <<kind, name, n>>
Zero == <<"zero", 0, 0>>
\* What a body may hold: also something that looks like a header
Bodies == {<<>>, <<Zero>>, <<Header("file", 9, 0)>>}

Blocks(e, i) ==
  (IF e.long THEN <<Header("L", 0, 1), Header("name", i, 0)>> ELSE <<>>)
  \o <<Header(e.kind, IF e.long THEN 0 ELSE i, Len(e.body))>> \o e.body

Entry == [kind : {"file", "dir", "link"}, long : BOOLEAN, body : Bodies]

\* A whole archive, and the first k blocks of it
TapeInit ==
  \E n \in 1..Entries : \E es \in [1..n -> Entry] :
    LET all == FlattenSeq([i \in 1..n |-> Blocks(es[i], i)]) \o <<Zero, Zero>>
    IN \E k \in 0..Len(all) :
         /\ tape = [blocks |-> SubSeq(all, 1, k), whole |-> k = Len(all),
                    want |-> SelectSeq([i \in 1..n |-> <<es[i].kind, i, es[i].body>>],
                                       LAMBDA e : e[1] # "link")]
         /\ reader = [pos |-> 0, long |-> 0, out |-> <<>>, at |-> "reading"]

\* extract_cb: links and devices are skipped
Extracted(kind) == kind \in {"file", "dir"}

Named(h) == [name |-> IF reader.long # 0 THEN reader.long ELSE h[2], long |-> 0]

Iterate ==
  /\ reader.at = "reading"
  /\ LET left == Len(tape.blocks) - reader.pos
         h == tape.blocks[reader.pos + 1]
         body == SubSeq(tape.blocks, reader.pos + 2, reader.pos + 1 + h[3])
         past == [reader EXCEPT !.pos = @ + 1 + h[3]]
     IN reader' =
          IF left = 0 \/ h = Zero THEN [reader EXCEPT !.at = "end"]
          ELSE IF h[3] + 1 > left THEN [reader EXCEPT !.at = "error"]
          ELSE CASE h[1] = "L" -> [past EXCEPT !.long = body[1][2]]
                 [] ~ Extracted(h[1]) /\ h[1] # "L" -> [past EXCEPT !.long = Named(h).long]
                 [] OTHER -> [past EXCEPT !.long = Named(h).long,
                                          !.out = Append(@, <<h[1], Named(h).name, body>>)]
  /\ UNCHANGED tape

(***************************************************************************)
(* What is extracted is what was archived, in order, under the right names *)
(* and with the right contents, also where a body looks like a header or   *)
(* the archive is cut; a whole archive is extracted whole.                 *)
(***************************************************************************)
ArchiveExact ==
  /\ IsPrefix(reader.out, tape.want)
  /\ tape.whole => reader.at # "error" /\ (reader.at = "end" => reader.out = tape.want)
=============================================================================
