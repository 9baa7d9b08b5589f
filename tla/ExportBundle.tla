---------------------------- MODULE ExportBundle ----------------------------
(***************************************************************************)
(* An audit export on its way from the gateway to an auditor, as a test of *)
(* ExportChain over bounded inputs.  A bundle is built from rows by        *)
(* build_manifest; then page files may be lost, repeated, exchanged or     *)
(* altered, and the manifest may be edited, with or without a fresh        *)
(* signature by the holder of the key.  verify_export judges the result.   *)
(***************************************************************************)
EXTENDS ExportChain

CONSTANTS MaxData,     \* bound on the rows of the request section
          MaxControl,  \* bound on the rows of the control section
          MaxSize,     \* bound on page_size
          MaxEdits     \* bound on the changes made to a bundle

ASSUME BundleAssumption == {MaxData, MaxControl, MaxSize, MaxEdits} \subseteq Nat

VARIABLES manifest, signature, files,  \* the bundle
          built,                       \* history: what build_manifest made
          resigned,                    \* history: the key holder signed an edit
          edits                        \* counter of MaxEdits

bundleVars == <<manifest, signature, files, built, resigned, edits>>

Key == "key"

DataRows(n) == [i \in 1..n |-> <<"event", i>>]
ControlRows(n) == [i \in 1..n |-> <<"action", i>>]

(* The header of an export and the two sections of produce. *)
Sections(d, c, size, format) ==
  <<SectionInput(SECTION_REQUEST_EVENTS, DataRows(d), size, format),
    SectionInput(SECTION_CONTROL_PLANE, ControlRows(c), size, format)>>

(* What produce made of d and c rows. *)
Bundled(d, c, size, format) ==
  LET sections == Sections(d, c, size, format)
  IN /\ manifest = BuildManifest([export |-> "e1", page_size |-> size, format |-> format],
                                 sections, "within_retention", 0)
     /\ files = PageFiles(sections)
     /\ signature = Sign(Key, manifest)
     /\ built = [manifest |-> manifest, files |-> files]
     /\ resigned = FALSE
     /\ edits = 0

BundleInit ==
  \E d \in 0..MaxData, c \in 0..MaxControl, size \in 1..MaxSize, format \in {"csv", "jsonl"} :
    Bundled(d, c, size, format)

Edit == edits < MaxEdits /\ edits' = edits + 1 /\ UNCHANGED built

(* A change to the page files alone. *)
EditFiles(new) ==
  /\ Edit
  /\ files' = new
  /\ UNCHANGED <<manifest, signature, resigned>>

LosePage(p) == EditFiles(SubSeq(files, 1, p - 1) \o SubSeq(files, p + 1, Len(files)))
RepeatPage(p) == EditFiles(SubSeq(files, 1, p) \o SubSeq(files, p, Len(files)))
SwapPages(p, q) == EditFiles([files EXCEPT ![p] = files[q], ![q] = files[p]])
AlterPage(p) == EditFiles([files EXCEPT ![p].rows = Append(@, <<"event", 0>>)])
TruncatePage(p) ==
  /\ files[p].rows # <<>>
  /\ EditFiles([files EXCEPT ![p].rows = Tail(@)])

(* A change to the manifest, which its holder may also sign. *)
EditManifest(new) ==
  /\ Edit
  /\ manifest' = new
  /\ \/ UNCHANGED <<signature, resigned>>
     \/ signature' = Sign(Key, new) /\ resigned' = TRUE
  /\ UNCHANGED files

DropSection == EditManifest([manifest EXCEPT !.sections = SubSeq(@, 1, Len(@) - 1)])
MoveBoundary(k, d) ==
  EditManifest([manifest EXCEPT !.sections[k].last_page = @ + d,
                                !.sections[k].pages = @ + d])
MoveStart(k, d) ==
  EditManifest([manifest EXCEPT !.sections[k].first_page = @ + d,
                                !.sections[k].pages = @ - d])
RelabelPage(p) == EditManifest([manifest EXCEPT !.pages[p].section =
                    IF @ = SECTION_CONTROL_PLANE THEN SECTION_REQUEST_EVENTS
                    ELSE SECTION_CONTROL_PLANE])
ClaimRows(d) == EditManifest([manifest EXCEPT !.total_rows = @ + d])
ClaimSectionRows(k, d) == EditManifest([manifest EXCEPT !.sections[k].rows = @ + d])
Rehead == EditManifest([manifest EXCEPT !.header.export = "e2"])

BundleNext ==
  \/ \E p \in DOMAIN files : LosePage(p) \/ RepeatPage(p) \/ AlterPage(p) \/ TruncatePage(p)
  \/ \E p, q \in DOMAIN files : p < q /\ SwapPages(p, q)
  \/ Len(manifest.sections) > 1 /\ DropSection
  \/ \E k \in DOMAIN manifest.sections, d \in {-1, 1} :
       MoveBoundary(k, d) \/ MoveStart(k, d) \/ ClaimSectionRows(k, d)
  \/ \E p \in DOMAIN manifest.pages : RelabelPage(p)
  \/ \E d \in {-1, 1} : ClaimRows(d)
  \/ Rehead

BundleSpec == BundleInit /\ [][BundleNext]_bundleVars

Accepted == VerifyExport(manifest, signature, Key, files)

-----------------------------------------------------------------------------
(* The manifest splits its pages into the two required sections, in order,  *)
(* and every count it declares is the count of what it lists.               *)
Coherent(m) ==
  LET rows == [p \in DOMAIN m.pages |-> m.pages[p].rows]
  IN /\ Len(m.sections) = 2
     /\ \E k \in 1..(Len(m.pages) - 1) :
          /\ \A p \in DOMAIN m.pages :
               m.pages[p].section = REQUIRED_SECTIONS[IF p <= k THEN 1 ELSE 2]
          /\ m.sections[1].rows = SumOver(rows, 1..k)
          /\ m.sections[2].rows = SumOver(rows, (k + 1)..Len(m.pages))
     /\ m.total_rows = m.sections[1].rows + m.sections[2].rows

(* verify_export accepts what build_manifest made and, short of a new       *)
(* signature by the key holder, nothing else: a lost, repeated, moved,      *)
(* altered or cut page is refused, whatever the format, the page size and   *)
(* the number of rows, an empty section and a last short page included.     *)
(* And not even the key holder gets an export accepted whose sections leave *)
(* a page out or whose counts do not add up.                                *)
VerdictIsSound ==
  /\ ~resigned => (Accepted <=> manifest = built.manifest /\ files = built.files)
  /\ Accepted => Coherent(manifest)

=============================================================================
