---------------------------- MODULE ExportChain ----------------------------
(***************************************************************************)
(* The signed audit export of secureprompt-common: how rows become pages,  *)
(* how the pages are chained into a manifest (build_manifest) and what an  *)
(* auditor checks (verify_export).                                         *)
(*                                                                         *)
(* SHA-256 is injective here and an Ed25519 signature is the pair of the   *)
(* key and the bytes it covers, so that nobody else can produce it.  Row   *)
(* contents are opaque; text the manifest carries for a reader is left     *)
(* out, and the error verify_export names is reduced to a refusal.         *)
(***************************************************************************)
EXTENDS Sequences, Sums

SECTION_REQUEST_EVENTS == "request_events"
SECTION_CONTROL_PLANE == "control_plane_events"
REQUIRED_SECTIONS == <<SECTION_REQUEST_EVENTS, SECTION_CONTROL_PLANE>>
SCHEMA_VERSION == 2

(* An injective hash. *)
Sha256(x) == <<"sha256", x>>

(* A page file: a CSV page starts with the header row of its section, a     *)
(* JSONL page is its rows alone, so an empty one is empty in both sections. *)
RenderPage(section, rows, format) ==
  [header |-> IF format = "csv" THEN section ELSE "none", rows |-> rows]

(* Rows in chunks of size, and one empty page when there are none. *)
Paginate(rows, size) ==
  IF rows = <<>>
  THEN << <<>> >>
  ELSE [i \in 1..((Len(rows) + size - 1) \div size) |->
          SubSeq(rows, (i - 1) * size + 1,
                 IF i * size < Len(rows) THEN i * size ELSE Len(rows))]

(* One section as build_manifest takes it: pages and the rows on each. *)
SectionInput(section, rows, size, format) ==
  LET chunks == Paginate(rows, size)
  IN [section |-> section,
      pages |-> [i \in DOMAIN chunks |-> RenderPage(section, chunks[i], format)],
      rows_per_page |-> [i \in DOMAIN chunks |-> Len(chunks[i])]]

(* The chain seed binds the header: export, workspace, window, format, size. *)
Genesis(header) == Sha256(<<"genesis", header>>)

ChainStep(prev, digest) == Sha256(<<prev, digest>>)

(* The running chain over a sequence of digests; index 0 is the seed. *)
Chain(seed, digests) ==
  LET c[i \in 0..Len(digests)] ==
        IF i = 0 THEN seed ELSE ChainStep(c[i - 1], digests[i])
  IN c

Sign(key, bytes) == [key |-> key, bytes |-> bytes]

(* build_manifest over the two sections, in REQUIRED_SECTIONS order; it      *)
(* refuses any other list.  retention is what the request section declares  *)
(* of its source.                                                           *)
BuildManifest(header, sections, retention, generated_at) ==
  LET first == Len(sections[1].pages)
      n == first + Len(sections[2].pages)
      bodies == sections[1].pages \o sections[2].pages
      rows == sections[1].rows_per_page \o sections[2].rows_per_page
      digests == [p \in 1..n |-> Sha256(bodies[p])]
      chain == Chain(Genesis(header), digests)
      Entry(s, from, to) ==
        [section |-> s.section, first_page |-> from, last_page |-> to, pages |-> to - from + 1,
         rows |-> SumOver(s.rows_per_page, DOMAIN s.rows_per_page)]
  IN [schema_version |-> SCHEMA_VERSION,
      header |-> header,
      retention |-> retention,
      generated_at |-> generated_at,
      total_rows |-> SumOver(rows, 1..n),
      total_pages |-> n,
      chain_genesis |-> Genesis(header),
      chain_root |-> chain[n],
      sections |-> <<Entry(sections[1], 1, first), Entry(sections[2], first + 1, n)>>,
      pages |-> [p \in 1..n |->
        [page |-> p, section |-> sections[IF p <= first THEN 1 ELSE 2].section,
         rows |-> rows[p], sha256 |-> digests[p], chain |-> chain[p]]]]

(* The page files of an export, the request pages before the control pages. *)
PageFiles(sections) == sections[1].pages \o sections[2].pages

SectionsNamed(m) ==
  /\ Len(m.sections) = Len(REQUIRED_SECTIONS)
  /\ \A k \in DOMAIN m.sections : m.sections[k].section = REQUIRED_SECTIONS[k]

(* The loop over the sections: each continues the last, holds pages that    *)
(* name it, and declares the rows they sum to; together they use every page.*)
SectionsTile(m) ==
  /\ \A k \in DOMAIN m.sections :
       LET s == m.sections[k]
       IN /\ s.first_page = IF k = 1 THEN 1 ELSE m.sections[k - 1].last_page + 1
          /\ s.last_page >= s.first_page
          /\ s.pages = s.last_page - s.first_page + 1
          /\ \A p \in s.first_page..s.last_page :
               p \in DOMAIN m.pages /\ m.pages[p].section = s.section
          /\ s.rows = SumOver([p \in DOMAIN m.pages |-> m.pages[p].rows],
                              s.first_page..s.last_page)
  /\ m.sections[Len(m.sections)].last_page = m.total_pages

ChainHolds(m) ==
  LET chain == Chain(Genesis(m.header), [p \in DOMAIN m.pages |-> m.pages[p].sha256])
  IN /\ \A p \in DOMAIN m.pages : m.pages[p].chain = chain[p]
     /\ m.chain_root = chain[Len(m.pages)]

(* Mutant: the number of page files given is not compared. *)
PagesGivenAny(m, files) ==
  \A p \in DOMAIN files :
    p \in DOMAIN m.pages => m.pages[p].page = p /\ m.pages[p].sha256 = Sha256(files[p])

PagesGiven(m, files) ==
  /\ Len(files) = m.total_pages
  /\ \A p \in DOMAIN files :
       m.pages[p].page = p /\ m.pages[p].sha256 = Sha256(files[p])

(* verify_export with the auditor's key. *)
VerifyExport(m, signature, key, files) ==
  /\ signature = Sign(key, m)
  /\ m.schema_version = SCHEMA_VERSION
  /\ Len(m.pages) = m.total_pages
  /\ m.chain_genesis = Genesis(m.header)
  /\ SectionsNamed(m)
  /\ PagesGiven(m, files)
  /\ SectionsTile(m)
  /\ ChainHolds(m)
  /\ m.total_rows = SumOver([p \in DOMAIN m.pages |-> m.pages[p].rows], DOMAIN m.pages)
=============================================================================
