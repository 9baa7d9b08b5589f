---------------------------- MODULE ExportProofs ----------------------------
(***************************************************************************)
(* Proofs about the audit export, for any exports, workers, windows, page   *)
(* sizes, caps and faults: an export that was published leaves nothing out, *)
(* a client that fetches its pages one by one holds what verify_export      *)
(* accepts, and verify_export accepts nothing else.                         *)
(***************************************************************************)
EXTENDS AuditExport, ExportBundle, SumTheorems, SequenceTheorems

-----------------------------------------------------------------------------
(* Pages *)

Row == {"event", "action"} \X Nat
PageFile == [header : {SECTION_REQUEST_EVENTS, SECTION_CONTROL_PLANE, "none"}, rows : Seq(Row)]

(* Rows on pages of a given size: the pages are counted rounding up, and a row's page is among them. *)
LEMMA PageOfRow ==
  ASSUME NEW n \in Nat, NEW size \in Nat \ {0}, NEW k \in 1..n
  PROVE  \E p \in 1..((n + size - 1) \div size) :
           (p - 1) * size < k /\ k <= p * size /\ (p - 1) * size \in Nat /\ p * size \in Nat
<1> DEFINE q == (k - 1) \div size
<1>1. k - 1 \in Nat /\ n + size - 1 \in Nat
  OBVIOUS
<1>2. q \in Nat /\ q * size <= k - 1 /\ k - 1 < (q + 1) * size
  BY <1>1, SMTT(30)
<1> DEFINE m == (n + size - 1) \div size
<1>3. m \in Nat /\ n + size - 1 < (m + 1) * size
  BY <1>1, SMTT(30)
<1> HIDE DEF q, m
<1>4. q * size <= n - 1
  BY <1>2
<1>5. (q + 1) * size = q * size + size /\ (m + 1) * size = m * size + size
  BY <1>2, <1>3, SMTT(30)
<1>6. q * size < m * size
  BY <1>2, <1>3, <1>4, <1>5, SMTT(30)
<1>7. q < m
  BY <1>2, <1>3, <1>6, SMTT(30)
<1>8. q + 1 \in 1..m /\ (q + 1) - 1 = q
  BY <1>2, <1>3, <1>7
<1>9. q * size \in Nat /\ (q + 1) * size \in Nat
  BY <1>2, <1>5, SMTT(30)
<1> QED BY <1>2, <1>8, <1>9 DEF m

(* Where a page starts and ends. *)
LEMMA PageBounds ==
  ASSUME NEW n \in Nat \ {0}, NEW size \in Nat \ {0}, NEW p \in 1..((n + size - 1) \div size)
  PROVE  /\ (p - 1) * size \in Nat /\ p * size \in Nat /\ (p - 1) * size < n
         /\ p * size = (p - 1) * size + size
<1> DEFINE m == (n + size - 1) \div size
<1>1. n + size - 1 \in Nat
  OBVIOUS
<1>2. m \in Nat /\ m * size <= n + size - 1
  BY <1>1, SMTT(30)
<1> HIDE DEF m
<1>3. p \in Nat /\ p - 1 \in Nat /\ p <= m
  BY <1>2 DEF m
<1>4. p * size <= m * size
  BY <1>2, <1>3, SMTT(30)
<1>5. p * size = (p - 1) * size + size
  BY <1>3, SMTT(30)
<1>6. (p - 1) * size \in Nat /\ p * size \in Nat /\ m * size \in Nat
  BY <1>2, <1>3, SMTT(30)
<1> QED BY <1>2, <1>4, <1>5, <1>6

(* There is at least one page. *)
LEMMA PageCount ==
  ASSUME NEW n \in Nat \ {0}, NEW size \in Nat \ {0}
  PROVE  (n + size - 1) \div size \in Nat \ {0}
<1>1. PICK p \in 1..((n + size - 1) \div size) : TRUE
  BY PageOfRow
<1>2. (n + size - 1) \div size \in Int
  BY SMTT(30)
<1> QED BY <1>1, <1>2

(* A page of rows, and which rows it has. *)
LEMMA OnePage ==
  ASSUME NEW rs \in Seq(Row), rs # <<>>, NEW size \in Nat \ {0},
         NEW p \in 1..((Len(rs) + size - 1) \div size)
  PROVE  LET chunk == SubSeq(rs, (p - 1) * size + 1,
                             IF p * size < Len(rs) THEN p * size ELSE Len(rs))
         IN /\ chunk \in Seq(Row)
            /\ \A k \in 1..Len(rs) : (p - 1) * size < k /\ k <= p * size =>
                 \E i \in DOMAIN chunk : chunk[i] = rs[k]
<1> DEFINE n == Len(rs)
           lo == (p - 1) * size
           hi == IF p * size < n THEN p * size ELSE n
           chunk == SubSeq(rs, lo + 1, hi)
<1>1. n \in Nat \ {0}
  BY EmptySeq, LenProperties
<1>2. lo \in Nat /\ p * size \in Nat /\ lo < n /\ p * size = lo + size
  BY <1>1, PageBounds
<1> HIDE DEF lo
<1>3. lo + 1 \in 1..(n + 1) /\ hi \in (lo + 1)..n
  BY <1>1, <1>2
<1> HIDE DEF hi, n
<1>4. /\ chunk \in Seq(Row) /\ Len(chunk) = hi - (lo + 1) + 1
      /\ \A i \in 1..(hi - (lo + 1) + 1) : chunk[i] = rs[(lo + 1) + i - 1]
  BY <1>1, <1>3, SMTT(20) DEF n
<1> HIDE DEF chunk
<1>5. ASSUME NEW k \in 1..n, lo < k, k <= p * size
      PROVE  \E i \in DOMAIN chunk : chunk[i] = rs[k]
  <2>1. k <= hi
    BY <1>5 DEF hi
  <2>2. k - lo \in 1..(hi - (lo + 1) + 1) /\ (lo + 1) + (k - lo) - 1 = k
    BY <1>1, <1>2, <1>3, <1>5, <2>1
  <2>3. DOMAIN chunk = 1..(hi - (lo + 1) + 1)
    BY <1>4, LenProperties
  <2> QED BY <1>4, <2>2, <2>3
<1> QED BY <1>4, <1>5 DEF chunk, lo, hi, n

(* A function on 1..n is a sequence of n elements. *)
LEMMA FcnIsSeq ==
  ASSUME NEW S, NEW n \in Nat, NEW f \in [1..n -> S]
  PROVE  f \in Seq(S) /\ Len(f) = n
OBVIOUS

(* What a section is made of. *)
SectionOk(s) ==
  /\ s.pages \in Seq(PageFile) /\ s.rows_per_page \in Seq(Nat)
  /\ Len(s.pages) \in Nat \ {0} /\ Len(s.rows_per_page) = Len(s.pages)

(* A section holds every row it was given, on at least one page. *)
LEMMA SectionHolds ==
  ASSUME NEW rs \in Seq(Row), NEW size \in Nat \ {0},
         NEW name \in {SECTION_REQUEST_EVENTS, SECTION_CONTROL_PLANE}, NEW format
  PROVE  LET s == SectionInput(name, rs, size, format)
         IN /\ SectionOk(s) /\ s.section = name
            /\ \A k \in DOMAIN rs : \E p \in DOMAIN s.pages : rs[k] \in OnPage(s.pages[p])
<1> DEFINE chunks == Paginate(rs, size)
           s == SectionInput(name, rs, size, format)
           header == IF format = "csv" THEN name ELSE "none"
<1>1. /\ chunks \in Seq(Seq(Row)) /\ Len(chunks) \in Nat \ {0}
      /\ \A k \in DOMAIN rs : \E p \in DOMAIN chunks : \E i \in DOMAIN chunks[p] : chunks[p][i] = rs[k]
  <2>1. CASE rs = <<>>
    <3>1. chunks = << <<>> >>
      BY <2>1 DEF Paginate
    <3>2. DOMAIN rs = {}
      BY <2>1
    <3> HIDE DEF chunks
    <3>3. <<>> \in Seq(Row)
      OBVIOUS
    <3> QED BY <3>1, <3>2, <3>3
  <2>2. CASE rs # <<>>
    <3> DEFINE n == Len(rs)
               m == (n + size - 1) \div size
               Chunk(p) == SubSeq(rs, (p - 1) * size + 1, IF p * size < n THEN p * size ELSE n)
    <3>1. n \in Nat \ {0} /\ DOMAIN rs = 1..n
      BY <2>2, EmptySeq, LenProperties
    <3>2. m \in Nat \ {0}
      BY <3>1, PageCount
    <3>3. chunks = [p \in 1..m |-> Chunk(p)]
      BY <2>2 DEF Paginate
    <3>4. ASSUME NEW p \in 1..m
          PROVE  /\ Chunk(p) \in Seq(Row)
                 /\ \A k \in 1..n : (p - 1) * size < k /\ k <= p * size =>
                      \E i \in DOMAIN Chunk(p) : Chunk(p)[i] = rs[k]
      BY <2>2, OnePage
    <3>5. \A k \in 1..n : \E p \in 1..m : (p - 1) * size < k /\ k <= p * size
      BY <3>1, PageOfRow
    <3> HIDE DEF chunks, Chunk, m, n
    <3>6. chunks \in [1..m -> Seq(Row)] /\ DOMAIN chunks = 1..m
      BY <3>3, <3>4
    <3>7. chunks \in Seq(Seq(Row)) /\ Len(chunks) = m
      BY <3>2, <3>6
    <3>8. ASSUME NEW k \in DOMAIN rs
          PROVE  \E p \in DOMAIN chunks : \E i \in DOMAIN chunks[p] : chunks[p][i] = rs[k]
      <4>1. PICK p \in 1..m : (p - 1) * size < k /\ k <= p * size
        BY <3>1, <3>5
      <4>2. PICK i \in DOMAIN Chunk(p) : Chunk(p)[i] = rs[k]
        BY <3>1, <3>4, <4>1
      <4>3. chunks[p] = Chunk(p)
        BY <3>3
      <4> QED BY <3>6, <4>2, <4>3
    <3> QED BY <3>2, <3>7, <3>8
  <2> QED BY <2>1, <2>2
<1>2. s = [section |-> name,
           pages |-> [i \in DOMAIN chunks |-> [header |-> header, rows |-> chunks[i]]],
           rows_per_page |-> [i \in DOMAIN chunks |-> Len(chunks[i])]]
  BY DEF SectionInput, RenderPage
<1> HIDE DEF chunks, s
<1>3. header \in {SECTION_REQUEST_EVENTS, SECTION_CONTROL_PLANE, "none"}
  OBVIOUS
<1> HIDE DEF header
<1>4. DOMAIN chunks = 1..Len(chunks) /\ \A i \in DOMAIN chunks : chunks[i] \in Seq(Row) /\ Len(chunks[i]) \in Nat
  BY <1>1, LenProperties
<1>5. /\ s.section = name /\ s.pages = [i \in DOMAIN chunks |-> [header |-> header, rows |-> chunks[i]]]
      /\ s.rows_per_page = [i \in DOMAIN chunks |-> Len(chunks[i])]
  BY <1>2
<1>6. s.pages \in [1..Len(chunks) -> PageFile] /\ s.rows_per_page \in [1..Len(chunks) -> Nat]
  BY <1>3, <1>4, <1>5 DEF PageFile
<1>7. /\ s.pages \in Seq(PageFile) /\ s.rows_per_page \in Seq(Nat)
      /\ Len(s.pages) = Len(chunks) /\ Len(s.rows_per_page) = Len(chunks)
  BY <1>1, <1>6, FcnIsSeq
<1>8. ASSUME NEW k \in DOMAIN rs
      PROVE  \E p \in DOMAIN s.pages : rs[k] \in OnPage(s.pages[p])
  <2>1. PICK p \in DOMAIN chunks : \E i \in DOMAIN chunks[p] : chunks[p][i] = rs[k]
    BY <1>1
  <2>2. s.pages[p].rows = chunks[p] /\ p \in DOMAIN s.pages
    BY <1>5
  <2> QED BY <2>1, <2>2 DEF OnPage
<1> QED BY <1>1, <1>5, <1>7, <1>8 DEF SectionOk, s

-----------------------------------------------------------------------------
(* The manifest *)

(* What the two sections are for verify_export: their pages one after the other. *)
TwoSections(ss) ==
  /\ DOMAIN ss = {1, 2} /\ SectionOk(ss[1]) /\ SectionOk(ss[2])
  /\ ss[1].section = SECTION_REQUEST_EVENTS /\ ss[2].section = SECTION_CONTROL_PLANE

(* The sum over a section's pages is the sum over the places they take among all pages. *)
LEMMA SectionSums ==
  ASSUME NEW a \in Seq(Nat), NEW b \in Seq(Nat)
  PROVE  /\ SumOver(a \o b, 1..Len(a)) = SumOver(a, DOMAIN a)
         /\ SumOver(a \o b, (Len(a) + 1)..(Len(a) + Len(b))) = SumOver(b, DOMAIN b)
<1> DEFINE n == Len(a)
           m == Len(b)
           ab == a \o b
<1>1. /\ n \in Nat /\ m \in Nat /\ DOMAIN a = 1..n /\ DOMAIN b = 1..m
      /\ \A i \in 1..n : a[i] \in Nat
      /\ \A i \in 1..m : b[i] \in Nat
  BY LenProperties, ElementOfSeq
<1>2. /\ \A i \in 1..n : ab[i] = a[i]
      /\ \A i \in 1..m : ab[n + i] = b[i]
  BY ConcatProperties
<1> HIDE DEF n, m, ab
<1>3. SumOver(ab, 1..n) = SumOver(a, 1..n)
  <2>1. IsFiniteSet(1..n)
    BY <1>1, FS_Interval
  <2> QED BY <1>2, <2>1, SumCongruence
<1>4. SumOver(ab, (n + 1)..(n + m)) = SumOver(b, 1..m)
  <2> DEFINE S == 1..m
             U == (n + 1)..(n + m)
             to == [i \in S |-> n + i]
  <2>1. IsFiniteSet(S)
    BY <1>1, FS_Interval
  <2>2. to \in [S -> U] /\ \A x, y \in S : to[x] = to[y] => x = y
    BY <1>1
  <2>3. ASSUME NEW u \in U PROVE \E x \in S : to[x] = u
    <3>1. u - n \in S /\ n + (u - n) = u
      BY <1>1
    <3> QED BY <3>1
  <2>4. \A x \in S : b[x] = ab[to[x]] /\ b[x] \in Int
    BY <1>1, <1>2
  <2> HIDE DEF S, U, to
  <2>5. SumOver(b, S) = SumOver(ab, U)
    BY <2>1, <2>2, <2>3, <2>4, SumRename, SMTT(20)
  <2> QED BY <2>5 DEF S, U
<1> QED BY <1>1, <1>3, <1>4 DEF n, m, ab

(* build_manifest describes the pages it is given as verify_export asks for. *)
LEMMA BuiltVerifies ==
  ASSUME NEW header, NEW ss, TwoSections(ss), NEW retention, NEW at, NEW key
  PROVE  LET m == BuildManifest(header, ss, retention, at)
         IN /\ VerifyExport(m, Sign(key, m), key, PageFiles(ss))
            /\ PageFiles(ss) \in Seq(PageFile) /\ Len(PageFiles(ss)) = m.total_pages
            /\ m.total_pages \in Nat \ {0}
            /\ m.retention = retention /\ m.generated_at = at
<1> DEFINE m == BuildManifest(header, ss, retention, at)
           first == Len(ss[1].pages)
           second == Len(ss[2].pages)
           n == first + second
           bodies == ss[1].pages \o ss[2].pages
           rs == ss[1].rows_per_page \o ss[2].rows_per_page
           digests == [p \in 1..n |-> Sha256(bodies[p])]
           chain == Chain(Genesis(header), digests)
           one == SumOver(ss[1].rows_per_page, DOMAIN ss[1].rows_per_page)
           two == SumOver(ss[2].rows_per_page, DOMAIN ss[2].rows_per_page)
           pages == [p \in 1..n |->
             [page |-> p, section |-> ss[IF p <= first THEN 1 ELSE 2].section,
              rows |-> rs[p], sha256 |-> digests[p], chain |-> chain[p]]]
           sections == <<[section |-> ss[1].section, first_page |-> 1, last_page |-> first,
                          pages |-> first - 1 + 1, rows |-> one],
                         [section |-> ss[2].section, first_page |-> first + 1, last_page |-> n,
                          pages |-> n - (first + 1) + 1, rows |-> two]>>
<1>1. /\ m.schema_version = SCHEMA_VERSION /\ m.header = header /\ m.retention = retention
      /\ m.generated_at = at /\ m.total_rows = SumOver(rs, 1..n) /\ m.total_pages = n
      /\ m.chain_genesis = Genesis(header) /\ m.chain_root = chain[n]
      /\ m.sections = sections /\ m.pages = pages
  BY DEF BuildManifest
<1>a. /\ first \in Nat \ {0} /\ second \in Nat \ {0}
      /\ ss[1].pages \in Seq(PageFile) /\ ss[2].pages \in Seq(PageFile)
      /\ ss[1].rows_per_page \in Seq(Nat) /\ ss[2].rows_per_page \in Seq(Nat)
      /\ Len(ss[1].rows_per_page) = first /\ Len(ss[2].rows_per_page) = second
      /\ ss[1].section = SECTION_REQUEST_EVENTS /\ ss[2].section = SECTION_CONTROL_PLANE
  BY DEF TwoSections, SectionOk
<1>b. bodies \in Seq(PageFile) /\ Len(bodies) = n
  BY <1>a, ConcatProperties
<1>c. rs \in Seq(Nat) /\ Len(rs) = n
  <2> DEFINE a == ss[1].rows_per_page
             b == ss[2].rows_per_page
  <2>1. a \in Seq(Nat) /\ b \in Seq(Nat)
    BY <1>a
  <2> HIDE DEF a, b
  <2>2. a \o b \in Seq(Nat) /\ Len(a \o b) = Len(a) + Len(b)
    BY <2>1, ConcatProperties
  <2> QED BY <1>a, <2>2, Zenon DEF a, b
<1>3. bodies \in Seq(PageFile) /\ Len(bodies) = n /\ rs \in Seq(Nat) /\ Len(rs) = n
  BY <1>b, <1>c
<1>d. n \in Nat \ {0}
  <2> HIDE DEF first, second
  <2> QED BY <1>a
<1>2. /\ first \in Nat \ {0} /\ second \in Nat \ {0} /\ n \in Nat \ {0}
      /\ ss[1].pages \in Seq(PageFile) /\ ss[2].pages \in Seq(PageFile)
      /\ ss[1].rows_per_page \in Seq(Nat) /\ ss[2].rows_per_page \in Seq(Nat)
      /\ Len(ss[1].rows_per_page) = first /\ Len(ss[2].rows_per_page) = second
      /\ ss[1].section = SECTION_REQUEST_EVENTS /\ ss[2].section = SECTION_CONTROL_PLANE
  BY <1>a, <1>d
<1>4. SumOver(rs, 1..first) = one /\ SumOver(rs, (first + 1)..n) = two
  <2> DEFINE a == ss[1].rows_per_page
             b == ss[2].rows_per_page
  <2>1. a \in Seq(Nat) /\ b \in Seq(Nat) /\ Len(a) = first /\ Len(b) = second
    BY <1>2
  <2> HIDE DEF a, b, first, second
  <2>2. /\ SumOver(a \o b, 1..Len(a)) = SumOver(a, DOMAIN a)
        /\ SumOver(a \o b, (Len(a) + 1)..(Len(a) + Len(b))) = SumOver(b, DOMAIN b)
    BY <2>1, SectionSums
  <2> QED BY <2>1, <2>2, Zenon DEF a, b
<1> HIDE DEF m, first, second, bodies, rs, digests, chain, one, two
<1>5. PageFiles(ss) = bodies
  BY DEF PageFiles, bodies
<1>6. DOMAIN pages = 1..n /\ Len(pages) = n /\ \A p \in 1..n :
        /\ pages[p].page = p /\ pages[p].rows = rs[p] /\ pages[p].sha256 = digests[p]
        /\ pages[p].chain = chain[p]
        /\ pages[p].section = ss[IF p <= first THEN 1 ELSE 2].section
  BY <1>2
<1>7. DOMAIN sections = {1, 2} /\ Len(sections) = 2
  OBVIOUS
<1>8. /\ sections[1].section = ss[1].section /\ sections[1].first_page = 1
      /\ sections[1].last_page = first /\ sections[1].pages = first - 1 + 1 /\ sections[1].rows = one
      /\ sections[2].section = ss[2].section /\ sections[2].first_page = first + 1
      /\ sections[2].last_page = n /\ sections[2].pages = n - (first + 1) + 1 /\ sections[2].rows = two
  OBVIOUS
<1> HIDE DEF pages, sections
<1>9. rs = [p \in DOMAIN pages |-> pages[p].rows]
  <2>1. DOMAIN rs = 1..n
    BY <1>3, LenProperties
  <2>2. rs = [p \in 1..n |-> rs[p]]
    BY <1>3, <2>1
  <2> QED BY <1>6, <2>2
<1>10. digests = [p \in DOMAIN pages |-> pages[p].sha256]
  BY <1>6 DEF digests
<1>11. SectionsNamed(m)
  BY <1>1, <1>2, <1>7, <1>8 DEF SectionsNamed, REQUIRED_SECTIONS
<1>12. PagesGiven(m, bodies)
  <2>1. DOMAIN bodies = 1..n
    BY <1>3, LenProperties
  <2> QED BY <1>1, <1>3, <1>6, <2>1 DEF PagesGiven, digests
<1>13. SectionsTile(m)
  <2>1. /\ \A p \in 1..first : p \in 1..n /\ p <= first
        /\ \A p \in (first + 1)..n : p \in 1..n /\ ~(p <= first)
    BY <1>2
  <2>2. /\ \A p \in 1..first : p \in DOMAIN pages /\ pages[p].section = ss[1].section
        /\ \A p \in (first + 1)..n : p \in DOMAIN pages /\ pages[p].section = ss[2].section
    BY <1>6, <2>1
  <2>3. first >= 1 /\ n >= first + 1
    BY <1>2
  <2> QED BY <1>1, <1>4, <1>7, <1>8, <1>9, <2>2, <2>3 DEF SectionsTile
<1>14. ChainHolds(m)
  BY <1>1, <1>6, <1>10 DEF ChainHolds, chain
<1>15. m.total_rows = SumOver([p \in DOMAIN m.pages |-> m.pages[p].rows], DOMAIN m.pages)
  BY <1>1, <1>6, <1>9
<1>16. VerifyExport(m, Sign(key, m), key, bodies)
  BY <1>1, <1>6, <1>11, <1>12, <1>13, <1>14, <1>15 DEF VerifyExport
<1> QED BY <1>1, <1>2, <1>3, <1>5, <1>16 DEF m

-----------------------------------------------------------------------------
(* What an auditor accepts *)

Names == {SECTION_REQUEST_EVENTS, SECTION_CONTROL_PLANE}
Header == [export : {"e1", "e2"}, page_size : Nat, format : {"csv", "jsonl"}]
SectionEntry == [section : Names, first_page : Int, last_page : Int, pages : Int, rows : Int]
PageEntry(m) ==
  [page : Nat, section : Names, rows : Nat,
   sha256 : {m.pages[p].sha256 : p \in DOMAIN m.pages},
   chain : {m.pages[p].chain : p \in DOMAIN m.pages}]

(* A manifest as it may be after some edits of m: its pages are as many, and what is never edited
   is the same. *)
EditOf(m) ==
  [schema_version : {SCHEMA_VERSION}, header : Header, retention : {m.retention},
   generated_at : {m.generated_at}, total_rows : Int, total_pages : {m.total_pages},
   chain_genesis : {m.chain_genesis}, chain_root : {m.chain_root},
   sections : Seq(SectionEntry), pages : [1..m.total_pages -> PageEntry(m)]]

(* What build_manifest makes is of its type. *)
LEMMA BuiltTyped ==
  ASSUME NEW header \in Header, NEW ss, TwoSections(ss), NEW retention, NEW at
  PROVE  LET m == BuildManifest(header, ss, retention, at) IN m \in EditOf(m)
<1> DEFINE m == BuildManifest(header, ss, retention, at)
           first == Len(ss[1].pages)
           n == first + Len(ss[2].pages)
           bodies == ss[1].pages \o ss[2].pages
           rs == ss[1].rows_per_page \o ss[2].rows_per_page
           digests == [p \in 1..n |-> Sha256(bodies[p])]
           chain == Chain(Genesis(header), digests)
           one == SumOver(ss[1].rows_per_page, DOMAIN ss[1].rows_per_page)
           two == SumOver(ss[2].rows_per_page, DOMAIN ss[2].rows_per_page)
           total == SumOver(rs, 1..n)
           pages == [p \in 1..n |->
             [page |-> p, section |-> ss[IF p <= first THEN 1 ELSE 2].section,
              rows |-> rs[p], sha256 |-> digests[p], chain |-> chain[p]]]
           sections == <<[section |-> ss[1].section, first_page |-> 1, last_page |-> first,
                          pages |-> first - 1 + 1, rows |-> one],
                         [section |-> ss[2].section, first_page |-> first + 1, last_page |-> n,
                          pages |-> n - (first + 1) + 1, rows |-> two]>>
<1>1. m = [schema_version |-> SCHEMA_VERSION, header |-> header, retention |-> retention,
           generated_at |-> at, total_rows |-> total, total_pages |-> n,
           chain_genesis |-> Genesis(header), chain_root |-> chain[n],
           sections |-> sections, pages |-> pages]
  BY DEF BuildManifest
<1>2. /\ first \in Nat /\ Len(ss[2].pages) \in Nat
      /\ ss[1].rows_per_page \in Seq(Nat) /\ ss[2].rows_per_page \in Seq(Nat)
      /\ Len(ss[1].rows_per_page) = first /\ Len(ss[2].rows_per_page) = Len(ss[2].pages)
      /\ ss[1].section \in Names /\ ss[2].section \in Names
  BY DEF TwoSections, SectionOk, Names
<1>3. one \in Int /\ two \in Int
  <2>1. ASSUME NEW s \in Seq(Nat) PROVE SumOver(s, DOMAIN s) \in Int
    <3>1. DOMAIN s = 1..Len(s) /\ Len(s) \in Nat /\ \A i \in DOMAIN s : s[i] \in Int
      BY LenProperties, ElementOfSeq
    <3>2. IsFiniteSet(DOMAIN s)
      BY <3>1, FS_Interval
    <3> QED BY <3>1, <3>2, SumType
  <2> QED BY <1>2, <2>1
<1>4. n \in Nat /\ rs \in Seq(Nat) /\ DOMAIN rs = 1..n
  <2> DEFINE a == ss[1].rows_per_page
             b == ss[2].rows_per_page
             second == Len(ss[2].pages)
  <2>1. a \in Seq(Nat) /\ b \in Seq(Nat) /\ Len(a) = first /\ Len(b) = second
    BY <1>2
  <2>2. first \in Nat /\ second \in Nat
    BY <1>2
  <2> HIDE DEF a, b, first, second
  <2>3. a \o b \in Seq(Nat) /\ Len(a \o b) = Len(a) + Len(b)
    BY <2>1, ConcatProperties
  <2>4. a \o b \in Seq(Nat) /\ Len(a \o b) = first + second
    BY <2>1, <2>3
  <2>5. DOMAIN (a \o b) = 1..(first + second)
    BY <2>4, LenProperties
  <2>6. first + second \in Nat
    BY <2>2
  <2> QED BY <2>4, <2>5, <2>6 DEF a, b, second
<1> HIDE DEF first, n, rs
<1>5. \A p \in 1..n : rs[p] \in Nat
  BY <1>4, ElementOfSeq
<1>6. total \in Int
  <2>1. IsFiniteSet(1..n)
    BY <1>4, FS_Interval
  <2>2. \A x \in 1..n : rs[x] \in Int
    BY <1>5
  <2> QED BY <2>1, <2>2, SumType
<1> HIDE DEF m, one, two, total, chain, digests
<1>f. /\ first - 1 + 1 \in Int /\ first + 1 \in Int /\ n - (first + 1) + 1 \in Int
      /\ n \in Int /\ first \in Int
  BY <1>2, <1>4
<1>7. sections \in Seq(SectionEntry)
  <2> DEFINE s1 == [section |-> ss[1].section, first_page |-> 1, last_page |-> first,
                    pages |-> first - 1 + 1, rows |-> one]
             s2 == [section |-> ss[2].section, first_page |-> first + 1, last_page |-> n,
                    pages |-> n - (first + 1) + 1, rows |-> two]
  <2>1. s1 \in SectionEntry
    BY <1>2, <1>3, <1>f DEF SectionEntry
  <2>2. s2 \in SectionEntry
    BY <1>2, <1>3, <1>f DEF SectionEntry
  <2> HIDE DEF s1, s2
  <2>3. <<s1, s2>> \in Seq(SectionEntry)
    BY <2>1, <2>2
  <2> QED BY <2>3 DEF s1, s2
<1> HIDE DEF sections
<1>8. m.pages = pages /\ DOMAIN m.pages = 1..n /\ m.total_pages = n
  BY <1>1
<1>9. ASSUME NEW p \in 1..n PROVE pages[p] \in PageEntry(m)
  <2>1. /\ pages[p] = [page |-> p, section |-> ss[IF p <= first THEN 1 ELSE 2].section,
                       rows |-> rs[p], sha256 |-> digests[p], chain |-> chain[p]]
        /\ pages[p].sha256 = digests[p] /\ pages[p].chain = chain[p]
    OBVIOUS
  <2>2. ss[IF p <= first THEN 1 ELSE 2].section \in Names
    BY <1>2
  <2>3. /\ digests[p] \in {m.pages[q].sha256 : q \in DOMAIN m.pages}
        /\ chain[p] \in {m.pages[q].chain : q \in DOMAIN m.pages}
    BY <1>8, <2>1
  <2>4. p \in Nat /\ rs[p] \in Nat
    BY <1>4, <1>5
  <2> QED BY <2>1, <2>2, <2>3, <2>4 DEF PageEntry
<1>10. pages \in [1..m.total_pages -> PageEntry(m)]
  BY <1>8, <1>9
<1> HIDE DEF pages
<1> QED BY <1>1, <1>6, <1>7, <1>10 DEF EditOf, m

(* A manifest that verify_export accepts splits its pages into the two sections, and its counts add
   up, whoever edited and signed it. *)
LEMMA AcceptedCoherent ==
  ASSUME NEW b, b.total_pages \in Nat, NEW m \in EditOf(b), NEW sig, NEW key, NEW fs,
         VerifyExport(m, sig, key, fs)
  PROVE  Coherent(m)
<1> DEFINE n == b.total_pages
           rs == [p \in DOMAIN m.pages |-> m.pages[p].rows]
           s1 == m.sections[1]
           s2 == m.sections[2]
           k == s1.last_page
<1>1. /\ m.pages \in [1..n -> PageEntry(b)] /\ m.sections \in Seq(SectionEntry) /\ m.total_pages = n
      /\ m.total_rows \in Int
  BY DEF EditOf
<1>2. n \in Nat /\ DOMAIN m.pages = 1..n /\ Len(m.pages) = n
  BY <1>1
<1>3. /\ Len(m.sections) = 2 /\ DOMAIN m.sections = {1, 2}
      /\ s1.section = SECTION_REQUEST_EVENTS /\ s2.section = SECTION_CONTROL_PLANE
  <2>1. Len(m.sections) = 2 /\ \A i \in DOMAIN m.sections : m.sections[i].section = REQUIRED_SECTIONS[i]
    BY DEF VerifyExport, SectionsNamed, REQUIRED_SECTIONS
  <2>2. DOMAIN m.sections = {1, 2}
    BY <1>1, <2>1, LenProperties
  <2> QED BY <2>1, <2>2 DEF REQUIRED_SECTIONS
<1>4. s1 \in SectionEntry /\ s2 \in SectionEntry
  BY <1>1, <1>3, ElementOfSeq
<1>5. /\ s1.first_page = 1 /\ s1.last_page >= 1 /\ s1.rows = SumOver(rs, 1..k)
      /\ \A p \in 1..k : p \in DOMAIN m.pages /\ m.pages[p].section = s1.section
      /\ s2.first_page = k + 1 /\ s2.last_page >= s2.first_page
      /\ s2.rows = SumOver(rs, s2.first_page..s2.last_page)
      /\ \A p \in s2.first_page..s2.last_page : p \in DOMAIN m.pages /\ m.pages[p].section = s2.section
      /\ s2.last_page = n
  <2>1. SectionsTile(m)
    BY DEF VerifyExport
  <2>2. 1 \in DOMAIN m.sections /\ 2 \in DOMAIN m.sections /\ 2 - 1 = 1
    BY <1>3
  <2> QED BY <1>1, <1>3, <2>1, <2>2 DEF SectionsTile
<1>6. k \in Int /\ k \in 1..(n - 1)
  BY <1>2, <1>4, <1>5, SMTT(20) DEF SectionEntry
<1>7. \A p \in 1..n : rs[p] \in Int
  BY <1>1, <1>2 DEF PageEntry
<1>8. m.total_rows = SumOver(rs, 1..n)
  BY <1>2 DEF VerifyExport
<1> HIDE DEF rs, n, k
<1>9. SumOver(rs, 1..n) = SumOver(rs, 1..k) + SumOver(rs, (k + 1)..n)
  <2> DEFINE S == 1..k
             U == (k + 1)..n
  <2>a. k \in Int /\ k + 1 \in Int /\ n \in Int
    BY <1>2, <1>6
  <2>b. IsFiniteSet(1..k)
    BY <2>a, FS_Interval
  <2>c. IsFiniteSet((k + 1)..n)
    BY <2>a, FS_Interval
  <2>1. IsFiniteSet(S) /\ IsFiniteSet(U)
    BY <2>b, <2>c
  <2>2. S \cap U = {} /\ S \cup U = 1..n
    BY <1>2, <1>6
  <2>3. \A x \in S \cup U : rs[x] \in Int
    BY <1>7, <2>2
  <2> HIDE DEF S, U
  <2>4. SumOver(rs, S \cup U) = SumOver(rs, S) + SumOver(rs, U)
    BY <2>1, <2>2, <2>3, SumUnion
  <2> QED BY <2>2, <2>4 DEF S, U
<1>10. ASSUME NEW p \in DOMAIN m.pages
       PROVE  m.pages[p].section = REQUIRED_SECTIONS[IF p <= k THEN 1 ELSE 2]
  <2>1. CASE p <= k
    <3>1. p \in 1..k
      BY <1>2, <1>6, <2>1
    <3> QED BY <1>3, <1>5, <2>1, <3>1 DEF REQUIRED_SECTIONS
  <2>2. CASE ~(p <= k)
    <3>1. p \in s2.first_page..s2.last_page
      BY <1>2, <1>5, <1>6, <2>2
    <3> QED BY <1>3, <1>5, <2>2, <3>1 DEF REQUIRED_SECTIONS
  <2> QED BY <2>1, <2>2
<1>11. m.sections[1].rows = SumOver(rs, 1..k) /\ m.sections[2].rows = SumOver(rs, (k + 1)..Len(m.pages))
  BY <1>2, <1>5
<1>12. m.total_rows = m.sections[1].rows + m.sections[2].rows
  BY <1>2, <1>8, <1>9, <1>11
<1>13. k \in 1..(Len(m.pages) - 1)
  BY <1>2, <1>6
<1> QED BY <1>3, <1>10, <1>11, <1>12, <1>13 DEF Coherent, rs

(* The bundle: what was built verifies, what it became is an edit of it, and only the key's holder
   signs again. *)
BundleInv ==
  /\ files \in Seq(PageFile) /\ built.files \in Seq(PageFile)
  /\ built.manifest.total_pages \in Nat
  /\ VerifyExport(built.manifest, Sign(Key, built.manifest), Key, built.files)
  /\ manifest \in EditOf(built.manifest)
  /\ resigned \in BOOLEAN
  /\ ~resigned => signature = Sign(Key, built.manifest)

(* The sections of a bundle. *)
LEMMA BundleSections ==
  ASSUME NEW d \in Nat, NEW c \in Nat, NEW size \in Nat \ {0}, NEW format
  PROVE  TwoSections(Sections(d, c, size, format))
<1>1. DataRows(d) \in Seq(Row) /\ ControlRows(c) \in Seq(Row)
  <2>1. DataRows(d) \in [1..d -> Row] /\ ControlRows(c) \in [1..c -> Row]
    BY DEF DataRows, ControlRows, Row
  <2> QED BY <2>1, FcnIsSeq
<1> DEFINE s1 == SectionInput(SECTION_REQUEST_EVENTS, DataRows(d), size, format)
           s2 == SectionInput(SECTION_CONTROL_PLANE, ControlRows(c), size, format)
<1>2. SectionOk(s1) /\ s1.section = SECTION_REQUEST_EVENTS
  BY <1>1, SectionHolds
<1>3. SectionOk(s2) /\ s2.section = SECTION_CONTROL_PLANE
  BY <1>1, SectionHolds
<1>4. Sections(d, c, size, format) = <<s1, s2>>
  BY DEF Sections
<1> HIDE DEF s1, s2
<1> QED BY <1>2, <1>3, <1>4 DEF TwoSections

(* A bundle starts as it was built. *)
LEMMA BundleStarts == BundleInit => BundleInv
<1> SUFFICES ASSUME BundleInit PROVE BundleInv
  OBVIOUS
<1>1. PICK d \in 0..MaxData, c \in 0..MaxControl, size \in 1..MaxSize, format \in {"csv", "jsonl"} :
        Bundled(d, c, size, format)
  BY DEF BundleInit
<1>2. d \in Nat /\ c \in Nat /\ size \in Nat \ {0}
  BY BundleAssumption
<1> DEFINE ss == Sections(d, c, size, format)
           header == [export |-> "e1", page_size |-> size, format |-> format]
           m == BuildManifest(header, ss, "within_retention", 0)
<1>3. TwoSections(ss)
  BY <1>2, BundleSections
<1>4. header \in Header
  BY <1>2 DEF Header
<1>5. /\ manifest = m /\ files = PageFiles(ss) /\ signature = Sign(Key, manifest)
      /\ built = [manifest |-> manifest, files |-> files] /\ resigned = FALSE
  BY <1>1 DEF Bundled
<1> HIDE DEF ss, header
<1>6. /\ VerifyExport(m, Sign(Key, m), Key, PageFiles(ss)) /\ PageFiles(ss) \in Seq(PageFile)
      /\ m.total_pages \in Nat
  BY <1>3, BuiltVerifies
<1>7. m \in EditOf(m)
  BY <1>3, <1>4, BuiltTyped
<1> HIDE DEF m
<1>8. built.manifest = m /\ built.files = PageFiles(ss)
  BY <1>5
<1> QED BY <1>5, <1>6, <1>7, <1>8 DEF BundleInv

(* An edit leaves the bundle an edit of what was built. *)
LEMMA BundleStep ==
  ASSUME BundleInv, [BundleNext]_bundleVars
  PROVE  BundleInv'
<1> DEFINE b == built.manifest
<1>1. /\ files \in Seq(PageFile) /\ manifest \in EditOf(b) /\ b.total_pages \in Nat
      /\ manifest.sections \in Seq(SectionEntry)
      /\ manifest.pages \in [1..b.total_pages -> PageEntry(b)]
      /\ manifest.total_rows \in Int /\ manifest.header \in Header
  BY DEF BundleInv, EditOf
<1>2. ASSUME NEW new \in Seq(PageFile), EditFiles(new)
      PROVE  BundleInv'
  BY <1>2 DEF EditFiles, Edit, BundleInv
<1>3. ASSUME NEW new \in EditOf(b), EditManifest(new)
      PROVE  BundleInv'
  <2>1. manifest' = new /\ files' = files /\ built' = built
    BY <1>3 DEF EditManifest, Edit
  <2>2. manifest' \in EditOf(built.manifest)'
    BY <1>3, <2>1
  <2>3. resigned' \in BOOLEAN /\ (~resigned' => signature' = Sign(Key, built.manifest)')
    <3>1. CASE UNCHANGED <<signature, resigned>>
      BY <2>1, <3>1 DEF BundleInv
    <3>2. CASE resigned' = TRUE
      BY <3>2
    <3> QED BY <1>3, <3>1, <3>2 DEF EditManifest
  <2>4. /\ files' \in Seq(PageFile) /\ (built.files)' \in Seq(PageFile)
        /\ (built.manifest.total_pages)' \in Nat
        /\ VerifyExport(built.manifest, Sign(Key, built.manifest), Key, built.files)'
    BY <2>1 DEF BundleInv
  <2> QED BY <2>2, <2>3, <2>4 DEF BundleInv
<1>4. ASSUME NEW p \in DOMAIN files, LosePage(p) \/ RepeatPage(p) \/ AlterPage(p) \/ TruncatePage(p)
      PROVE  BundleInv'
  <2>1. p \in 1..Len(files) /\ Len(files) \in Nat /\ files[p] \in PageFile
    BY <1>1, LenProperties, ElementOfSeq
  <2>2. CASE LosePage(p)
    <3>1. SubSeq(files, 1, p - 1) \in Seq(PageFile) /\ SubSeq(files, p + 1, Len(files)) \in Seq(PageFile)
      BY <1>1, <2>1
    <3> QED BY <1>2, <2>2, <3>1, ConcatProperties DEF LosePage
  <2>3. CASE RepeatPage(p)
    <3>1. SubSeq(files, 1, p) \in Seq(PageFile) /\ SubSeq(files, p, Len(files)) \in Seq(PageFile)
      BY <1>1, <2>1
    <3> QED BY <1>2, <2>3, <3>1, ConcatProperties DEF RepeatPage
  <2>4. CASE AlterPage(p)
    <3> DEFINE page == [files[p] EXCEPT !.rows = Append(@, <<"event", 0>>)]
    <3>1. <<"event", 0>> \in Row
      BY DEF Row
    <3>2. Append(files[p].rows, <<"event", 0>>) \in Seq(Row)
      BY <2>1, <3>1, AppendProperties DEF PageFile
    <3>3. page \in PageFile
      BY <2>1, <3>2 DEF PageFile
    <3>4. EditFiles([files EXCEPT ![p] = page])
      BY <2>4 DEF AlterPage
    <3> HIDE DEF page
    <3>5. [files EXCEPT ![p] = page] \in Seq(PageFile)
      BY <1>1, <2>1, <3>3, ExceptSeq
    <3> QED BY <1>2, <3>4, <3>5
  <2>5. CASE TruncatePage(p)
    <3> DEFINE page == [files[p] EXCEPT !.rows = Tail(@)]
    <3>2. Tail(files[p].rows) \in Seq(Row)
      BY <2>1, <2>5, HeadTailProperties DEF PageFile, TruncatePage
    <3>3. page \in PageFile
      BY <2>1, <3>2 DEF PageFile
    <3>4. EditFiles([files EXCEPT ![p] = page])
      BY <2>5 DEF TruncatePage
    <3> HIDE DEF page
    <3>5. [files EXCEPT ![p] = page] \in Seq(PageFile)
      BY <1>1, <2>1, <3>3, ExceptSeq
    <3> QED BY <1>2, <3>4, <3>5
  <2> QED BY <1>4, <2>2, <2>3, <2>4, <2>5
<1>5. ASSUME NEW p \in DOMAIN files, NEW q \in DOMAIN files, SwapPages(p, q)
      PROVE  BundleInv'
  <2>1. files[p] \in PageFile /\ files[q] \in PageFile
    BY <1>1, LenProperties, ElementOfSeq
  <2>2. [files EXCEPT ![p] = files[q]] \in Seq(PageFile) /\ q \in DOMAIN [files EXCEPT ![p] = files[q]]
    BY <1>1, <2>1, ExceptSeq
  <2>3. [[files EXCEPT ![p] = files[q]] EXCEPT ![q] = files[p]] \in Seq(PageFile)
    BY <2>1, <2>2, ExceptSeq
  <2> QED BY <1>2, <1>5, <2>3 DEF SwapPages
<1>6. ASSUME Len(manifest.sections) > 1, DropSection
      PROVE  BundleInv'
  <2> DEFINE s == SubSeq(manifest.sections, 1, Len(manifest.sections) - 1)
  <2>1. s \in Seq(SectionEntry)
    BY <1>1, <1>6, LenProperties
  <2> HIDE DEF s
  <2>2. [manifest EXCEPT !.sections = s] \in EditOf(b)
    BY <1>1, <2>1 DEF EditOf
  <2> QED BY <1>3, <1>6, <2>2 DEF DropSection, s
<1>7. ASSUME NEW k \in DOMAIN manifest.sections, NEW d \in {-1, 1},
             MoveBoundary(k, d) \/ MoveStart(k, d) \/ ClaimSectionRows(k, d)
      PROVE  BundleInv'
  <2>1. manifest.sections[k] \in SectionEntry
    BY <1>1, LenProperties, ElementOfSeq
  <2>a. \A i \in Int : i + d \in Int /\ i - d \in Int
    OBVIOUS
  <2>2. ASSUME NEW s \in SectionEntry
        PROVE  [manifest EXCEPT !.sections[k] = s] \in EditOf(b)
    <3>1. [manifest.sections EXCEPT ![k] = s] \in Seq(SectionEntry)
      BY <1>1, ExceptSeq
    <3> QED BY <1>1, <3>1 DEF EditOf
  <2>3. PICK s \in SectionEntry : EditManifest([manifest EXCEPT !.sections[k] = s])
    <3> DEFINE e == manifest.sections[k]
    <3>1. CASE MoveBoundary(k, d)
      <4> DEFINE s == [e EXCEPT !.last_page = @ + d, !.pages = @ + d]
      <4>1. s \in SectionEntry
        BY <2>1, <2>a DEF SectionEntry
      <4>2. EditManifest([manifest EXCEPT !.sections[k] = s])
        BY <1>1, <2>1, <3>1 DEF MoveBoundary, EditOf, SectionEntry
      <4> QED BY <4>1, <4>2
    <3>2. CASE MoveStart(k, d)
      <4> DEFINE s == [e EXCEPT !.first_page = @ + d, !.pages = @ - d]
      <4>1. s \in SectionEntry
        BY <2>1, <2>a DEF SectionEntry
      <4>2. EditManifest([manifest EXCEPT !.sections[k] = s])
        BY <1>1, <2>1, <3>2 DEF MoveStart, EditOf, SectionEntry
      <4> QED BY <4>1, <4>2
    <3>3. CASE ClaimSectionRows(k, d)
      <4> DEFINE s == [e EXCEPT !.rows = @ + d]
      <4>1. s \in SectionEntry
        BY <2>1, <2>a DEF SectionEntry
      <4>2. EditManifest([manifest EXCEPT !.sections[k] = s])
        BY <3>3 DEF ClaimSectionRows
      <4> QED BY <4>1, <4>2
    <3> QED BY <1>7, <3>1, <3>2, <3>3
  <2> QED BY <1>3, <2>2, <2>3
<1>8. ASSUME NEW p \in DOMAIN manifest.pages, RelabelPage(p)
      PROVE  BundleInv'
  <2> DEFINE name == IF manifest.pages[p].section = SECTION_CONTROL_PLANE
                     THEN SECTION_REQUEST_EVENTS ELSE SECTION_CONTROL_PLANE
             page == [manifest.pages[p] EXCEPT !.section = name]
  <2>1. manifest.pages[p] \in PageEntry(b) /\ name \in Names
    BY <1>1 DEF Names
  <2>2. EditManifest([manifest EXCEPT !.pages[p] = page])
    BY <1>8 DEF RelabelPage
  <2> HIDE DEF name
  <2>3. page \in PageEntry(b)
    BY <2>1 DEF PageEntry
  <2> HIDE DEF page
  <2>4. [manifest EXCEPT !.pages[p] = page] \in EditOf(b)
    BY <1>1, <2>3 DEF EditOf
  <2> QED BY <1>3, <2>2, <2>4
<1>9. ASSUME NEW d \in {-1, 1}, ClaimRows(d)
      PROVE  BundleInv'
  <2>a. manifest.total_rows + d \in Int
    BY <1>1
  <2>1. [manifest EXCEPT !.total_rows = @ + d] \in EditOf(b)
    BY <1>1, <2>a DEF EditOf
  <2> QED BY <1>3, <1>9, <2>1 DEF ClaimRows
<1>10. ASSUME Rehead
       PROVE  BundleInv'
  <2>1. [manifest.header EXCEPT !.export = "e2"] \in Header
    BY <1>1 DEF Header
  <2>2. [manifest EXCEPT !.header.export = "e2"] \in EditOf(b)
    BY <1>1, <2>1 DEF EditOf
  <2> QED BY <1>3, <1>10, <2>2 DEF Rehead
<1>11. CASE UNCHANGED bundleVars
  BY <1>11 DEF bundleVars, BundleInv
<1> QED BY <1>4, <1>5, <1>6, <1>7, <1>8, <1>9, <1>10, <1>11 DEF BundleNext

(* The verdict on any bundle the invariant allows. *)
LEMMA VerdictFollows == BundleInv => VerdictIsSound
<1> SUFFICES ASSUME BundleInv PROVE VerdictIsSound
  OBVIOUS
<1> DEFINE b == built.manifest
<1>1. Accepted => Coherent(manifest)
  BY AcceptedCoherent DEF BundleInv, Accepted
<1>2. ASSUME ~resigned, manifest = b, files = built.files
      PROVE  Accepted
  BY <1>2 DEF BundleInv, Accepted
<1>3. ASSUME ~resigned, Accepted
      PROVE  manifest = b /\ files = built.files
  <2>1. Sign(Key, manifest) = Sign(Key, b)
    BY <1>3 DEF BundleInv, Accepted, VerifyExport
  <2>2. manifest = b
    BY <2>1 DEF Sign
  <2>3. PagesGiven(b, files) /\ PagesGiven(b, built.files)
    BY <1>3, <2>2 DEF BundleInv, Accepted, VerifyExport
  <2>4. files \in Seq(PageFile) /\ built.files \in Seq(PageFile)
    BY DEF BundleInv
  <2>5. Len(files) = Len(built.files)
    BY <2>3 DEF PagesGiven
  <2>6. \A p \in 1..Len(files) : files[p] = built.files[p]
    <3> SUFFICES ASSUME NEW p \in 1..Len(files) PROVE files[p] = built.files[p]
      OBVIOUS
    <3>1. p \in DOMAIN files /\ p \in DOMAIN built.files
      BY <2>4, <2>5, LenProperties
    <3>2. Sha256(files[p]) = Sha256(built.files[p])
      BY <2>3, <3>1 DEF PagesGiven
    <3> QED BY <3>2 DEF Sha256
  <2>7. files = built.files
    BY <2>4, <2>5, <2>6, SeqEqual
  <2> QED BY <2>2, <2>7
<1> QED BY <1>1, <1>2, <1>3 DEF VerdictIsSound

(* verify_export accepts what build_manifest made, for any rows, page size and format, and, short of
   a new signature by the key's holder, nothing else; and what it accepts has sections that take up
   every page and counts that add up, whatever was edited and signed again. *)
THEOREM VerdictSound == BundleSpec => []VerdictIsSound
<1>1. BundleInv /\ [BundleNext]_bundleVars => BundleInv'
  BY BundleStep
<1> QED BY <1>1, BundleStarts, VerdictFollows, PTL DEF BundleSpec

-----------------------------------------------------------------------------
(* The life of an export. *)

(* What a sequence holds, and that it holds it once. *)
Held(s) == {s[i] : i \in DOMAIN s}
Distinct(s) == \A i, j \in DOMAIN s : s[i] = s[j] => i = j

WorkerPcs == {"idle", "mark", "control", "count", "fetch", "persist", "fail"}
ApiPcs == {"idle", "enqueue", "accepted", "refused", "marking", "unqueued", "dead"}
Task == [pc : WorkerPcs, export : Export \cup {None}, gen : Nat, control : Seq(Row), rows : Seq(Row)]

ExportTypes ==
  /\ now \in Nat /\ events \in Seq(Nat) /\ actions \in Seq(Nat)
  /\ row \in [Export -> [status : Status, from : Nat, to : Nat]]
  /\ DOMAIN stored = Export
  /\ queue \in Seq(Export)
  /\ api \in [Export -> ApiPcs]
  /\ worker \in [Worker -> Task]
  /\ owed \in [Export -> [events : Nat, actions : Nat, lost : BOOLEAN]]

(* What preceded a request was recorded. *)
OwedRecorded ==
  \A e \in Export : owed[e].events <= Len(events) /\ owed[e].actions <= Len(actions)

Busy(w) == worker[w].pc # "idle"
Queued(e) == e \in Held(queue)
(* Nobody but create_export knows of the export yet. *)
Early(e) == api[e] \in {"idle", "enqueue"}

(* An export is one task: it is on the list, or with one worker, or neither; nobody has it before
   create_export pushed it; and the worker that published it can only still fail. *)
OneTask ==
  /\ \A w \in Worker : Busy(w) => worker[w].export \in Export /\ ~Queued(worker[w].export)
  /\ \A v, w \in Worker : Busy(v) /\ Busy(w) /\ worker[v].export = worker[w].export => v = w
  /\ Distinct(queue)
  /\ \A e \in Export : Early(e) =>
       ~Queued(e) /\ ~Published(e) /\ \A w \in Worker : Busy(w) => worker[w].export # e
  /\ \A e \in Export : Published(e) =>
       ~Queued(e) /\ \A w \in Worker : Busy(w) /\ worker[w].export = e => worker[w].pc = "fail"

(* What a worker has read so far leaves out nothing its export owes. *)
ReadBy(w) ==
  LET e == worker[w].export
  IN /\ worker[w].pc \in {"count", "fetch", "persist"} =>
          \A i \in WindowedActions(e) : i <= owed[e].actions => <<"action", i>> \in Held(worker[w].control)
     /\ worker[w].pc = "persist" =>
          \A i \in DOMAIN events : i <= owed[e].events /\ InScope(e, events[i]) =>
            i \in expired \/ <<"event", i>> \in Held(worker[w].rows)
ReadInFull == \A w \in Worker : Busy(w) => ReadBy(w)

(* What is published verifies, and a row that says complete has something published. *)
StoredVerifies ==
  \A e \in Export :
    /\ Published(e) =>
         /\ VerifyExport(stored[e].manifest, stored[e].signature, SigningKey, stored[e].files)
         /\ stored[e].files \in Seq(PageFile)
         /\ stored[e].manifest.total_pages \in Nat /\ stored[e].manifest.total_pages # 0
         /\ Len(stored[e].files) = stored[e].manifest.total_pages
    /\ row[e].status = "complete" => Published(e)

(* A client holds the first pages of what is published. *)
ClientHolds ==
  client.pc # "idle" =>
    LET e == client.export
    IN /\ e \in Export /\ Published(e)
       /\ client = [pc |-> client.pc, export |-> e, manifest |-> stored[e].manifest,
                    signature |-> stored[e].signature, files |-> client.files]
       /\ client.files \in Seq(PageFile)
       /\ \A p \in 1..Len(client.files) : p <= Len(stored[e].files) /\ client.files[p] = stored[e].files[p]
       /\ \/ client.pc = "pages" /\ Len(client.files) < Len(stored[e].files)
          \/ client.pc = "done" /\ Len(client.files) = Len(stored[e].files)

ExportInv ==
  /\ ExportTypes /\ OwedRecorded /\ OneTask /\ ReadInFull /\ StoredVerifies /\ NothingOmitted
  /\ ClientHolds

(* Rows in order: each of them once it has its place, and nothing else. *)
LEMMA OrderHolds ==
  ASSUME NEW S \in SUBSET Nat, IsFiniteSet(S), NEW at, \A i \in S : at[i] \in Nat,
         NEW kind \in {"event", "action"}
  PROVE  /\ InOrder(S, at, kind) \in Seq(Row)
         /\ \A i \in S : <<kind, i>> \in Held(InOrder(S, at, kind))
<1> DEFINE below == [i \in S |-> Before(S, at, i)]
           N == Cardinality(S)
           Rank(i) == Cardinality(Before(S, at, i))
           out == InOrder(S, at, kind)
<1>1. below \in [S -> SUBSET S]
  BY DEF Before
<1>2. \A x \in S : x \notin below[x]
  BY DEF Before
<1>3. \A x, y \in S : x # y => x \in below[y] \/ y \in below[x]
  BY DEF Before
<1>4. \A x, y \in S : x \in below[y] => below[x] \subseteq below[y]
  <2> SUFFICES ASSUME NEW x \in S, NEW y \in S, x \in below[y], NEW z \in below[x]
               PROVE  z \in below[y]
    OBVIOUS
  <2>1. z \in S /\ (at[z] < at[x] \/ (at[z] = at[x] /\ z < x))
    BY DEF Before
  <2>2. at[x] < at[y] \/ (at[x] = at[y] /\ x < y)
    BY DEF Before
  <2>3. at[z] < at[y] \/ (at[z] = at[y] /\ z < y)
    BY <2>1, <2>2
  <2> QED BY <2>1, <2>3 DEF Before
<1>5. \A i \in S : below[i] = Before(S, at, i)
  OBVIOUS
<1> HIDE DEF below
<1>6. /\ N \in Nat
      /\ \A x \in S : Cardinality(below[x]) \in 0..(N - 1)
      /\ \A x, y \in S : Cardinality(below[x]) = Cardinality(below[y]) => x = y
      /\ \A n \in 0..(N - 1) : \E x \in S : Cardinality(below[x]) = n
  <2>1. StrictOrder(S, below)
    BY <1>1, <1>2, <1>3, <1>4 DEF StrictOrder
  <2>2. Ranked(S, below)
    BY <2>1, Ranks
  <2> QED BY <2>2 DEF Ranked
<1>7. /\ \A x \in S : Rank(x) \in 0..(N - 1)
      /\ \A x, y \in S : Rank(x) = Rank(y) => x = y
      /\ \A n \in 0..(N - 1) : \E x \in S : Rank(x) = n
  BY <1>5, <1>6
<1> HIDE DEF Rank, N
<1> DEFINE Nth(n) == CHOOSE i \in S : Rank(i) = n - 1
<1>8. out = [n \in 1..N |-> <<kind, Nth(n)>>]
  BY DEF InOrder, Rank, N
<1>9. \A n \in 1..N : Nth(n) \in S /\ Rank(Nth(n)) = n - 1
  <2> SUFFICES ASSUME NEW n \in 1..N PROVE Nth(n) \in S /\ Rank(Nth(n)) = n - 1
    OBVIOUS
  <2>1. n - 1 \in 0..(N - 1)
    BY <1>6
  <2>2. \E i \in S : Rank(i) = n - 1
    BY <1>7, <2>1
  <2> QED BY <2>2
<1> HIDE DEF Nth, out
<1>10. out \in [1..N -> Row]
  BY <1>8, <1>9 DEF Row
<1>11. out \in Seq(Row)
  BY <1>6, <1>10, FcnIsSeq
<1>12. ASSUME NEW i \in S PROVE <<kind, i>> \in Held(out)
  <2> DEFINE n == Rank(i) + 1
  <2>1. n \in 1..N /\ n - 1 = Rank(i)
    BY <1>6, <1>7
  <2> HIDE DEF n
  <2>2. Rank(Nth(n)) = Rank(i) /\ Nth(n) \in S
    BY <1>9, <2>1
  <2>3. Nth(n) = i
    BY <1>7, <2>2
  <2> QED BY <1>8, <2>1, <2>3 DEF Held
<1> QED BY <1>11, <1>12 DEF out

(* What fetch_control_rows and fetch_rows return. *)
LEMMA ReadsHold ==
  ASSUME ExportTypes, NEW e
  PROVE  /\ InOrder(WindowedActions(e), actions, "action") \in Seq(Row)
         /\ \A i \in WindowedActions(e) :
              <<"action", i>> \in Held(InOrder(WindowedActions(e), actions, "action"))
         /\ InOrder(ScopedEvents(e), events, "event") \in Seq(Row)
         /\ \A i \in ScopedEvents(e) : <<"event", i>> \in Held(InOrder(ScopedEvents(e), events, "event"))
<1>1. ASSUME NEW s \in Seq(Nat), NEW S \in SUBSET DOMAIN s
      PROVE  S \in SUBSET Nat /\ IsFiniteSet(S) /\ \A i \in S : s[i] \in Nat
  <2>1. Len(s) \in Nat /\ DOMAIN s = 1..Len(s) /\ \A i \in DOMAIN s : s[i] \in Nat
    BY LenProperties, ElementOfSeq
  <2>2. IsFiniteSet(1..Len(s))
    BY <2>1, FS_Interval
  <2> QED BY <2>1, <2>2, FS_Subset
<1>2. actions \in Seq(Nat) /\ WindowedActions(e) \in SUBSET DOMAIN actions
  BY DEF ExportTypes, WindowedActions
<1>3. events \in Seq(Nat) /\ ScopedEvents(e) \in SUBSET DOMAIN events
  BY DEF ExportTypes, ScopedEvents
<1>4. /\ WindowedActions(e) \in SUBSET Nat /\ IsFiniteSet(WindowedActions(e))
      /\ \A i \in WindowedActions(e) : actions[i] \in Nat
  BY <1>1, <1>2
<1>5. /\ ScopedEvents(e) \in SUBSET Nat /\ IsFiniteSet(ScopedEvents(e))
      /\ \A i \in ScopedEvents(e) : events[i] \in Nat
  BY <1>1, <1>3
<1> QED BY <1>4, <1>5, OrderHolds

(* Every step keeps the types. *)
LEMMA TypesStep ==
  ASSUME ExportTypes, [Next]_vars
  PROVE  ExportTypes'
<1> USE DEF ExportTypes
<1>a. \A w \in Windows : w[1] \in Nat /\ w[2] \in Nat
  BY ExportAssumption
<1>b. ASSUME NEW e, NEW status \in Status, SetStatus(e, status)
      PROVE  row' \in [Export -> [status : Status, from : Nat, to : Nat]]
  BY <1>b DEF SetStatus
<1>c. ASSUME NEW w, NEW pc \in WorkerPcs, Goto(w, pc)
      PROVE  worker' \in [Worker -> Task]
  BY <1>c DEF Goto, Task
<1>d. NoTask \in Task
  BY DEF NoTask, Task, WorkerPcs
<1>e. ASSUME NEW w, Return(w)
      PROVE  worker' \in [Worker -> Task]
  BY <1>d, <1>e DEF Return
<1>f. ASSUME NEW w, GiveUp(w)
      PROVE  owed' \in [Export -> [events : Nat, actions : Nat, lost : BOOLEAN]]
  BY <1>f DEF GiveUp
<1>1. CASE Tick
  BY <1>1 DEF Tick
<1>2. CASE RecordEvent
  <2>1. PICK t \in 0..now : events' = Append(events, Second(t))
    BY <1>2 DEF RecordEvent
  <2>2. Second(t) \in Nat
    <3>1. t \in Nat /\ t % 2 \in 0..1
      OBVIOUS
    <3>2. CASE t = 0
      <4>1. 0 % 2 = 0
        OBVIOUS
      <4> QED BY <3>2, <4>1 DEF Second
    <3>3. CASE t >= 1
      BY <3>1, <3>3 DEF Second
    <3> QED BY <3>1, <3>2, <3>3
  <2>3. events' \in Seq(Nat)
    BY <2>1, <2>2, AppendProperties
  <2> QED BY <1>2, <2>3 DEF RecordEvent
<1>3. CASE RecordAction
  <2>1. actions' \in Seq(Nat)
    BY <1>3, AppendProperties DEF RecordAction
  <2> QED BY <1>3, <2>1 DEF RecordAction
<1>4. ASSUME NEW i \in DOMAIN events, Expire(i)
      PROVE  ExportTypes'
  BY <1>4 DEF Expire
<1>5. ASSUME NEW e \in Export, CreateExport(e)
      PROVE  ExportTypes'
  <2>1. PICK w \in Windows, o \in PgOutcomes :
          /\ row' = IF Applied(o)
                    THEN [row EXCEPT ![e] = [status |-> "queued", from |-> w[1], to |-> w[2]]]
                    ELSE row
          /\ api' = [api EXCEPT ![e] = IF o = "ok" THEN "enqueue" ELSE "refused"]
    BY <1>5 DEF CreateExport
  <2>2. row' \in [Export -> [status : Status, from : Nat, to : Nat]]
    BY <1>a, <2>1 DEF Status
  <2>3. api' \in [Export -> ApiPcs]
    BY <2>1 DEF ApiPcs
  <2>4. owed' \in [Export -> [events : Nat, actions : Nat, lost : BOOLEAN]]
    <3>1. Len(events) \in Nat /\ Len(actions) \in Nat
      BY LenProperties
    <3>2. owed' = [owed EXCEPT ![e].events = Len(events), ![e].actions = Len(actions)]
      BY <1>5 DEF CreateExport
    <3> QED BY <3>1, <3>2
  <2> QED BY <1>5, <2>2, <2>3, <2>4 DEF CreateExport
<1>6. ASSUME NEW e \in Export, Enqueue(e)
      PROVE  ExportTypes'
  <2>1. queue' = queue \/ queue' = Append(queue, e)
    BY <1>6 DEF Enqueue
  <2>a. Append(queue, e) \in Seq(Export)
    BY AppendProperties
  <2>2. queue' \in Seq(Export)
    BY <2>1, <2>a
  <2>3. api' \in [Export -> ApiPcs]
    BY <1>6 DEF Enqueue, ApiPcs
  <2> QED BY <1>6, <2>2, <2>3 DEF Enqueue
<1>7. ASSUME NEW e \in Export, MarkEnqueueFailed(e)
      PROVE  ExportTypes'
  <2>1. row' \in [Export -> [status : Status, from : Nat, to : Nat]]
    BY <1>7, <1>b DEF MarkEnqueueFailed, Status
  <2>2. api' \in [Export -> ApiPcs]
    BY <1>7 DEF MarkEnqueueFailed, ApiPcs
  <2> QED BY <1>7, <2>1, <2>2 DEF MarkEnqueueFailed
<1>8. ASSUME NEW e \in Export, ApiCrash(e)
      PROVE  ExportTypes'
  <2>1. api' \in [Export -> ApiPcs]
    BY <1>8 DEF ApiCrash, ApiPcs
  <2> QED BY <1>8, <2>1 DEF ApiCrash
<1>9. ASSUME NEW w \in Worker, Pop(w)
      PROVE  ExportTypes'
  <2>1. Head(queue) \in Export /\ Tail(queue) \in Seq(Export)
    BY <1>9, HeadTailProperties DEF Pop
  <2>2. [NoTask EXCEPT !.pc = "mark", !.export = Head(queue), !.gen = now] \in Task
    BY <1>d, <2>1 DEF Task, WorkerPcs
  <2>3. worker' \in [Worker -> Task]
    BY <1>9, <2>2 DEF Pop
  <2>4. UNCHANGED owed \/ owed' = [owed EXCEPT ![Head(queue)].lost = TRUE]
    BY <1>9 DEF Pop
  <2>5. owed' \in [Export -> [events : Nat, actions : Nat, lost : BOOLEAN]]
    BY <2>1, <2>4
  <2> QED BY <1>9, <2>1, <2>3, <2>5 DEF Pop
<1>10. ASSUME NEW w \in Worker, MarkRunning(w)
       PROVE  ExportTypes'
  <2>1. row' \in [Export -> [status : Status, from : Nat, to : Nat]]
    BY <1>10, <1>b DEF MarkRunning, Status
  <2>2. /\ worker' \in [Worker -> Task]
        /\ owed' \in [Export -> [events : Nat, actions : Nat, lost : BOOLEAN]]
    BY <1>10, <1>c, <1>e, <1>f DEF MarkRunning, WorkerPcs
  <2> QED BY <1>10, <2>1, <2>2 DEF MarkRunning
<1>11. ASSUME NEW w \in Worker, FetchControl(w)
       PROVE  ExportTypes'
  <2> DEFINE read == InOrder(WindowedActions(worker[w].export), actions, "action")
  <2>1. read \in Seq(Row)
    BY ReadsHold
  <2>2. worker' = [worker EXCEPT ![w] = [@ EXCEPT !.pc = "count", !.control = read]] \/ Goto(w, "fail")
    BY <1>11 DEF FetchControl
  <2> HIDE DEF read
  <2>3. CASE Goto(w, "fail")
    BY <1>11, <1>c, <2>3 DEF FetchControl, WorkerPcs
  <2>4. CASE worker' = [worker EXCEPT ![w] = [@ EXCEPT !.pc = "count", !.control = read]]
    <3>1. [worker[w] EXCEPT !.pc = "count", !.control = read] \in Task
      <4>1. worker[w] \in Task
        OBVIOUS
      <4>2. "count" \in WorkerPcs
        BY DEF WorkerPcs
      <4> QED BY <2>1, <4>1, <4>2 DEF Task
    <3>2. worker' \in [Worker -> Task]
      BY <2>4, <3>1
    <3> QED BY <1>11, <3>2 DEF FetchControl
  <2> QED BY <2>2, <2>3, <2>4
<1>12. ASSUME NEW w \in Worker, CountRows(w)
       PROVE  ExportTypes'
  <2>1. Goto(w, "fail") \/ Goto(w, "fetch")
    BY <1>12 DEF CountRows
  <2>2. worker' \in [Worker -> Task]
    BY <1>c, <2>1 DEF WorkerPcs
  <2> QED BY <1>12, <2>2 DEF CountRows
<1>13. ASSUME NEW w \in Worker, FetchRows(w)
       PROVE  ExportTypes'
  <2> DEFINE read == InOrder(ScopedEvents(worker[w].export), events, "event")
  <2>1. read \in Seq(Row)
    BY ReadsHold
  <2>2. worker' = [worker EXCEPT ![w] = [@ EXCEPT !.pc = "persist", !.rows = read]] \/ Goto(w, "fail")
    BY <1>13 DEF FetchRows
  <2> HIDE DEF read
  <2>3. CASE Goto(w, "fail")
    BY <1>13, <1>c, <2>3 DEF FetchRows, WorkerPcs
  <2>4. CASE worker' = [worker EXCEPT ![w] = [@ EXCEPT !.pc = "persist", !.rows = read]]
    <3>1. [worker[w] EXCEPT !.pc = "persist", !.rows = read] \in Task
      <4>1. worker[w] \in Task
        OBVIOUS
      <4>2. "persist" \in WorkerPcs
        BY DEF WorkerPcs
      <4> QED BY <2>1, <4>1, <4>2 DEF Task
    <3>2. worker' \in [Worker -> Task]
      BY <2>4, <3>1
    <3> QED BY <1>13, <3>2 DEF FetchRows
  <2> QED BY <2>2, <2>3, <2>4
<1>14. ASSUME NEW w \in Worker, Persist(w)
       PROVE  ExportTypes'
  <2>1. row' \in [Export -> [status : Status, from : Nat, to : Nat]]
    BY <1>14, <1>b DEF Persist, Status
  <2>2. DOMAIN stored' = Export
    BY <1>14 DEF Persist
  <2>3. worker' \in [Worker -> Task]
    BY <1>14, <1>c, <1>e DEF Persist, WorkerPcs
  <2> QED BY <1>14, <2>1, <2>2, <2>3 DEF Persist
<1>15. ASSUME NEW w \in Worker, MarkFailed(w)
       PROVE  ExportTypes'
  <2>1. /\ row' \in [Export -> [status : Status, from : Nat, to : Nat]]
        /\ owed' \in [Export -> [events : Nat, actions : Nat, lost : BOOLEAN]]
    BY <1>15, <1>b, <1>f DEF MarkFailed, Status
  <2> QED BY <1>15, <1>e, <2>1 DEF MarkFailed
<1>16. ASSUME NEW w \in Worker, WorkerCrash(w)
       PROVE  ExportTypes'
  BY <1>16, <1>e, <1>f DEF WorkerCrash
<1>17. ASSUME NEW e \in Export, GetExport(e)
       PROVE  ExportTypes'
  BY <1>17 DEF GetExport
<1>18. CASE GetExportPage
  BY <1>18 DEF GetExportPage
<1>19. CASE UNCHANGED vars
  BY <1>19 DEF vars
<1> HIDE DEF ExportTypes
<1> QED BY <1>1, <1>2, <1>3, <1>4, <1>5, <1>6, <1>7, <1>8, <1>9, <1>10, <1>11, <1>12, <1>13, <1>14,
           <1>15, <1>16, <1>17, <1>18, <1>19
        DEF Next, Environment, ApiStep, WorkerStep

(* The list after RPUSH. *)
LEMMA AppendHeld ==
  ASSUME NEW S, NEW s \in Seq(S), NEW x \in S
  PROVE  /\ Held(Append(s, x)) = Held(s) \cup {x}
         /\ Distinct(s) /\ x \notin Held(s) => Distinct(Append(s, x))
<1> DEFINE n == Len(s)
           t == Append(s, x)
<1>1. n \in Nat /\ DOMAIN s = 1..n
  BY LenProperties
<1>2. t \in Seq(S) /\ DOMAIN t = 1..(n + 1) /\ (\A i \in 1..n : t[i] = s[i]) /\ t[n + 1] = x
  <2>1. t \in Seq(S) /\ Len(t) = n + 1 /\ (\A i \in 1..n : t[i] = s[i]) /\ t[n + 1] = x
    BY AppendProperties
  <2> QED BY <2>1, LenProperties
<1> HIDE DEF n, t
<1>3. Held(t) = Held(s) \cup {x}
  <2>1. ASSUME NEW y \in Held(t) PROVE y \in Held(s) \cup {x}
    <3>1. PICK i \in 1..(n + 1) : y = t[i]
      BY <1>2 DEF Held
    <3>2. CASE i = n + 1
      BY <1>2, <3>1, <3>2
    <3>3. CASE i # n + 1
      <4>1. i \in 1..n
        BY <1>1, <3>3
      <4> QED BY <1>1, <1>2, <3>1, <4>1 DEF Held
    <3> QED BY <3>2, <3>3
  <2>2. ASSUME NEW y \in Held(s) \cup {x} PROVE y \in Held(t)
    <3>1. CASE y = x
      <4>1. n + 1 \in 1..(n + 1)
        BY <1>1
      <4> QED BY <1>2, <3>1, <4>1 DEF Held
    <3>2. CASE y \in Held(s)
      <4>1. PICK i \in 1..n : y = s[i]
        BY <1>1, <3>2 DEF Held
      <4>2. i \in 1..(n + 1)
        BY <1>1
      <4> QED BY <1>2, <4>1, <4>2 DEF Held
    <3> QED BY <3>1, <3>2
  <2> QED BY <2>1, <2>2
<1>4. ASSUME Distinct(s), x \notin Held(s) PROVE Distinct(t)
  <2> SUFFICES ASSUME NEW i \in 1..(n + 1), NEW j \in 1..(n + 1), t[i] = t[j] PROVE i = j
    BY <1>2 DEF Distinct
  <2>1. \A k \in 1..n : t[k] \in Held(s) /\ t[k] = s[k]
    BY <1>1, <1>2 DEF Held
  <2>2. CASE i = n + 1 /\ j # n + 1
    <3>1. j \in 1..n
      BY <1>1, <2>2
    <3> QED BY <1>2, <1>4, <2>1, <2>2, <3>1
  <2>3. CASE i # n + 1 /\ j = n + 1
    <3>1. i \in 1..n
      BY <1>1, <2>3
    <3> QED BY <1>2, <1>4, <2>1, <2>3, <3>1
  <2>4. CASE i # n + 1 /\ j # n + 1
    <3>1. i \in 1..n /\ j \in 1..n
      BY <1>1, <2>4
    <3> QED BY <1>1, <1>4, <2>1, <3>1 DEF Distinct
  <2> QED BY <2>2, <2>3, <2>4
<1> QED BY <1>3, <1>4 DEF t

(* The list after BLPOP. *)
LEMMA TailHeld ==
  ASSUME NEW S, NEW s \in Seq(S), s # <<>>, Distinct(s)
  PROVE  /\ Head(s) \in Held(s) /\ Head(s) \notin Held(Tail(s))
         /\ Held(Tail(s)) \subseteq Held(s) /\ Distinct(Tail(s))
<1> DEFINE n == Len(s)
           t == Tail(s)
<1>1. n \in Nat /\ DOMAIN s = 1..n /\ n # 0
  BY LenProperties, EmptySeq
<1>2. /\ t \in Seq(S) /\ Head(s) = s[1]
      /\ DOMAIN t = 1..(n - 1) /\ \A i \in 1..(n - 1) : t[i] = s[i + 1]
  <2>1. t \in Seq(S) /\ Len(t) = n - 1 /\ \A i \in 1..Len(t) : t[i] = s[i + 1]
    BY HeadTailProperties
  <2> QED BY <2>1, LenProperties
<1> HIDE DEF n, t
<1>3. \A i \in 1..(n - 1) : i + 1 \in 1..n /\ i + 1 # 1
  BY <1>1
<1>4. Head(s) \in Held(s)
  <2>1. 1 \in 1..n
    BY <1>1
  <2> QED BY <1>1, <1>2, <2>1 DEF Held
<1>5. Head(s) \notin Held(t)
  <2> SUFFICES ASSUME NEW i \in 1..(n - 1), t[i] = s[1] PROVE FALSE
    BY <1>2 DEF Held
  <2>1. 1 \in DOMAIN s /\ i + 1 \in DOMAIN s /\ i + 1 # 1
    BY <1>1, <1>3
  <2>2. s[i + 1] = s[1]
    BY <1>2
  <2> QED BY <2>1, <2>2 DEF Distinct
<1>6. Held(t) \subseteq Held(s)
  BY <1>1, <1>2, <1>3 DEF Held
<1>7. Distinct(t)
  <2> SUFFICES ASSUME NEW i \in 1..(n - 1), NEW j \in 1..(n - 1), t[i] = t[j] PROVE i = j
    BY <1>2 DEF Distinct
  <2>1. i + 1 = j + 1
    <3>1. s[i + 1] = s[j + 1]
      BY <1>2
    <3>2. i + 1 \in DOMAIN s /\ j + 1 \in DOMAIN s
      BY <1>1, <1>3
    <3> QED BY <3>1, <3>2 DEF Distinct
  <2> QED BY <1>1, <2>1
<1> QED BY <1>4, <1>5, <1>6, <1>7 DEF t

(* A step that takes up no task and publishes nothing. *)
LEMMA QuietTasks ==
  ASSUME OneTask, queue' = queue,
         \A e \in Export : Published(e)' <=> Published(e),
         \A e \in Export : Early(e)' => Early(e),
         \A w \in Worker : Busy(w)' =>
           /\ Busy(w) /\ worker'[w].export = worker[w].export
           /\ worker[w].pc = "fail" => worker'[w].pc = "fail"
  PROVE  OneTask'
<1>1. \A w \in Worker : Busy(w)' => worker'[w].export \in Export /\ worker'[w].export \notin Held(queue')
  BY DEF OneTask, Queued
<1>2. \A v, w \in Worker : Busy(v)' /\ Busy(w)' /\ worker'[v].export = worker'[w].export => v = w
  BY DEF OneTask
<1>3. Distinct(queue')
  BY DEF OneTask
<1>4. ASSUME NEW e \in Export, Early(e)'
      PROVE  e \notin Held(queue') /\ ~Published(e)' /\ \A w \in Worker : Busy(w)' => worker'[w].export # e
  BY <1>4 DEF OneTask, Queued
<1>5. ASSUME NEW e \in Export, Published(e)'
      PROVE  e \notin Held(queue') /\
             \A w \in Worker : Busy(w)' /\ worker'[w].export = e => worker'[w].pc = "fail"
  BY <1>5 DEF OneTask, Queued
<1> QED BY <1>1, <1>2, <1>3, <1>4, <1>5 DEF OneTask, Queued

(* Every step keeps an export one task. *)
LEMMA TasksStep ==
  ASSUME ExportTypes, OneTask, [Next]_vars
  PROVE  OneTask'
<1>q. queue \in Seq(Export)
  BY DEF ExportTypes
<1>a. ASSUME UNCHANGED <<queue, stored, api, worker>>
      PROVE  OneTask'
  BY <1>a, QuietTasks DEF Published, Early, Busy
<1>b. ASSUME NEW e \in Export, NEW pc, api' = [api EXCEPT ![e] = pc],
             Early(e) \/ pc \notin {"idle", "enqueue"}, UNCHANGED <<queue, stored, worker>>
      PROVE  OneTask'
  <2>1. \A x \in Export : Early(x)' => Early(x)
    BY <1>b DEF Early, ExportTypes
  <2> QED BY <1>b, <2>1, QuietTasks DEF Published, Busy
<1>c. ASSUME NEW w \in Worker, Busy(w), UNCHANGED <<queue, stored, api>>,
             NEW t, t.pc = "idle" \/ (worker[w].pc # "fail" /\ t.export = worker[w].export),
             worker' = [worker EXCEPT ![w] = t]
      PROVE  OneTask'
  <2>1. worker \in [Worker -> Task]
    BY DEF ExportTypes
  <2>2. \A v \in Worker : Busy(v)' =>
          /\ Busy(v) /\ worker'[v].export = worker[v].export
          /\ worker[v].pc = "fail" => worker'[v].pc = "fail"
    BY <1>c, <2>1 DEF Busy
  <2> QED BY <1>c, <2>2, QuietTasks DEF Published, Early
<1>d. ASSUME NEW w \in Worker, worker[w].pc \notin {"idle", "fail"}, NEW pc, Goto(w, pc),
             UNCHANGED <<queue, stored, api>>
      PROVE  OneTask'
  <2> DEFINE t == [worker[w] EXCEPT !.pc = pc]
  <2>1. worker' = [worker EXCEPT ![w] = t]
    BY <1>d DEF Goto
  <2>2. t.export = worker[w].export
    BY DEF ExportTypes, Task
  <2> HIDE DEF t
  <2> QED BY <1>c, <1>d, <2>1, <2>2 DEF Busy
<1>e. ASSUME NEW w \in Worker, Busy(w), Return(w), UNCHANGED <<queue, stored, api>>
      PROVE  OneTask'
  <2>1. NoTask.pc = "idle"
    BY DEF NoTask
  <2> QED BY <1>c, <1>e, <2>1 DEF Return
<1>1. CASE Tick
  BY <1>1, <1>a DEF Tick
<1>2. CASE RecordEvent
  BY <1>2, <1>a DEF RecordEvent
<1>3. CASE RecordAction
  BY <1>3, <1>a DEF RecordAction
<1>4. ASSUME NEW i \in DOMAIN events, Expire(i)
      PROVE  OneTask'
  BY <1>4, <1>a DEF Expire
<1>5. ASSUME NEW e \in Export, CreateExport(e)
      PROVE  OneTask'
  <2>1. Early(e)
    BY <1>5 DEF CreateExport, Early
  <2>2. PICK o \in PgOutcomes : api' = [api EXCEPT ![e] = IF o = "ok" THEN "enqueue" ELSE "refused"]
    BY <1>5 DEF CreateExport
  <2> QED BY <1>5, <1>b, <2>1, <2>2 DEF CreateExport
<1>6. ASSUME NEW e \in Export, Enqueue(e)
      PROVE  OneTask'
  <2>1. PICK o \in RedisOutcomes :
          /\ queue' = IF Applied(o) THEN Append(queue, e) ELSE queue
          /\ api' = [api EXCEPT ![e] = IF o = "ok" THEN "accepted" ELSE "marking"]
    BY <1>6 DEF Enqueue
  <2>2. Early(e) /\ ~Early(e)' /\ \A x \in Export : Early(x)' => Early(x) /\ x # e
    BY <1>6, <2>1 DEF Enqueue, Early, ExportTypes
  <2>3. ~Queued(e) /\ ~Published(e) /\ \A w \in Worker : Busy(w) => worker[w].export # e
    BY <2>2 DEF OneTask
  <2>4. UNCHANGED <<stored, worker>>
    BY <1>6 DEF Enqueue
  <2>5. CASE queue' = queue
    BY <2>2, <2>4, <2>5, QuietTasks DEF Published, Busy
  <2>6. CASE queue' = Append(queue, e)
    <3>1. Held(queue') = Held(queue) \cup {e} /\ Distinct(queue')
      BY <1>q, <2>3, <2>6, AppendHeld DEF OneTask, Queued
    <3>2. \A w \in Worker : Busy(w)' => worker'[w].export \in Export /\ worker'[w].export \notin Held(queue')
      BY <2>3, <2>4, <3>1 DEF OneTask, Queued, Busy
    <3>3. \A v, w \in Worker : Busy(v)' /\ Busy(w)' /\ worker'[v].export = worker'[w].export => v = w
      BY <2>4 DEF OneTask, Busy
    <3>4. ASSUME NEW x \in Export, Early(x)'
          PROVE  x \notin Held(queue') /\ ~Published(x)' /\ \A w \in Worker : Busy(w)' => worker'[w].export # x
      BY <2>2, <2>4, <3>1, <3>4 DEF OneTask, Queued, Published, Busy
    <3>5. ASSUME NEW x \in Export, Published(x)'
          PROVE  x \notin Held(queue') /\
                 \A w \in Worker : Busy(w)' /\ worker'[w].export = x => worker'[w].pc = "fail"
      BY <2>3, <2>4, <3>1, <3>5 DEF OneTask, Queued, Published, Busy
    <3> QED BY <3>1, <3>2, <3>3, <3>4, <3>5 DEF OneTask, Queued
  <2> QED BY <2>1, <2>5, <2>6
<1>7. ASSUME NEW e \in Export, MarkEnqueueFailed(e)
      PROVE  OneTask'
  BY <1>7, <1>b DEF MarkEnqueueFailed
<1>8. ASSUME NEW e \in Export, ApiCrash(e)
      PROVE  OneTask'
  BY <1>8, <1>b DEF ApiCrash
<1>9. ASSUME NEW w \in Worker, Pop(w)
      PROVE  OneTask'
  <2> DEFINE e == Head(queue)
  <2>1. /\ e \in Held(queue) /\ e \notin Held(Tail(queue))
        /\ Held(Tail(queue)) \subseteq Held(queue) /\ Distinct(Tail(queue))
    BY <1>9, <1>q, TailHeld DEF OneTask, Pop
  <2>2. e \in Export
    BY <1>9, <1>q, HeadTailProperties DEF Pop
  <2> HIDE DEF e
  <2>3. queue' = Tail(queue) /\ UNCHANGED <<stored, api>> /\ ~Busy(w)
    BY <1>9 DEF Pop, At, Busy
  <2>4. /\ \A v \in Worker : v # w => worker'[v] = worker[v]
        /\ \/ worker'[w].pc = "mark" /\ worker'[w].export = e
           \/ worker'[w] = worker[w]
    BY <1>9 DEF Pop, ExportTypes, NoTask, e
  <2>5. ~Published(e) /\ ~Early(e) /\ \A v \in Worker : Busy(v) => worker[v].export # e
    BY <2>1, <2>2 DEF OneTask, Queued
  <2>6. \A v \in Worker : Busy(v)' => worker'[v].export \in Export /\ worker'[v].export \notin Held(queue')
    BY <2>1, <2>2, <2>3, <2>4 DEF OneTask, Queued, Busy
  <2>7. \A u, v \in Worker : Busy(u)' /\ Busy(v)' /\ worker'[u].export = worker'[v].export => u = v
    BY <2>4, <2>5 DEF OneTask, Busy
  <2>8. ASSUME NEW x \in Export, Early(x)'
        PROVE  x \notin Held(queue') /\ ~Published(x)' /\ \A v \in Worker : Busy(v)' => worker'[v].export # x
    BY <2>1, <2>3, <2>4, <2>5, <2>8 DEF OneTask, Queued, Published, Busy, Early
  <2>9. ASSUME NEW x \in Export, Published(x)'
        PROVE  x \notin Held(queue') /\
               \A v \in Worker : Busy(v)' /\ worker'[v].export = x => worker'[v].pc = "fail"
    BY <2>1, <2>3, <2>4, <2>5, <2>9 DEF OneTask, Queued, Published, Busy
  <2> QED BY <2>1, <2>3, <2>6, <2>7, <2>8, <2>9 DEF OneTask, Queued
<1>10. ASSUME NEW w \in Worker, MarkRunning(w)
       PROVE  OneTask'
  <2>1. Return(w) \/ Goto(w, "control") \/ Goto(w, "fail")
    BY <1>10 DEF MarkRunning
  <2>2. worker[w].pc = "mark" /\ UNCHANGED <<queue, stored, api>>
    BY <1>10 DEF MarkRunning, At
  <2> QED BY <1>d, <1>e, <2>1, <2>2 DEF Busy
<1>11. ASSUME NEW w \in Worker, FetchControl(w)
       PROVE  OneTask'
  <2> DEFINE read == InOrder(WindowedActions(worker[w].export), actions, "action")
             t == [worker[w] EXCEPT !.pc = "count", !.control = read]
  <2>1. worker[w].pc = "control" /\ UNCHANGED <<queue, stored, api>>
    BY <1>11 DEF FetchControl, At
  <2>2. worker' = [worker EXCEPT ![w] = t] \/ Goto(w, "fail")
    BY <1>11 DEF FetchControl
  <2> HIDE DEF read
  <2>3. t.export = worker[w].export
    BY DEF ExportTypes, Task
  <2> HIDE DEF t
  <2>4. CASE worker' = [worker EXCEPT ![w] = t]
    BY <1>c, <2>1, <2>3, <2>4 DEF Busy
  <2> QED BY <1>d, <2>1, <2>2, <2>4
<1>12. ASSUME NEW w \in Worker, CountRows(w)
       PROVE  OneTask'
  <2>1. Goto(w, "fail") \/ Goto(w, "fetch")
    BY <1>12 DEF CountRows
  <2>2. worker[w].pc = "count" /\ UNCHANGED <<queue, stored, api>>
    BY <1>12 DEF CountRows, At
  <2> QED BY <1>d, <2>1, <2>2
<1>13. ASSUME NEW w \in Worker, FetchRows(w)
       PROVE  OneTask'
  <2> DEFINE read == InOrder(ScopedEvents(worker[w].export), events, "event")
             t == [worker[w] EXCEPT !.pc = "persist", !.rows = read]
  <2>1. worker[w].pc = "fetch" /\ UNCHANGED <<queue, stored, api>>
    BY <1>13 DEF FetchRows, At
  <2>2. worker' = [worker EXCEPT ![w] = t] \/ Goto(w, "fail")
    BY <1>13 DEF FetchRows
  <2> HIDE DEF read
  <2>3. t.export = worker[w].export
    BY DEF ExportTypes, Task
  <2> HIDE DEF t
  <2>4. CASE worker' = [worker EXCEPT ![w] = t]
    BY <1>c, <2>1, <2>3, <2>4 DEF Busy
  <2> QED BY <1>d, <2>1, <2>2, <2>4
<1>14. ASSUME NEW w \in Worker, Persist(w)
       PROVE  OneTask'
  <2> DEFINE e == worker[w].export
  <2>1. worker[w].pc = "persist" /\ Busy(w) /\ UNCHANGED <<queue, api>>
    BY <1>14 DEF Persist, At, Busy
  <2>2. e \in Export /\ ~Queued(e) /\ ~Early(e)
    BY <2>1 DEF OneTask
  <2>3. Return(w) \/ Goto(w, "fail")
    BY <1>14 DEF Persist
  <2>4. CASE stored' = stored
    BY <1>d, <1>e, <2>1, <2>3, <2>4
  <2>5. CASE stored' # stored
    <3>1. \A x \in Export : x # e => stored'[x] = stored[x]
      <4>1. stored' = [stored EXCEPT ![e] = Produce(w)]
        BY <1>14, <2>5 DEF Persist
      <4> QED BY <4>1
    <3>2. /\ \A v \in Worker : v # w => worker'[v] = worker[v]
          /\ worker'[w].pc = "idle" \/ (worker'[w].pc = "fail" /\ worker'[w].export = e)
      BY <2>3 DEF Return, Goto, NoTask, ExportTypes, Task
    <3>3. \A v \in Worker : v # w /\ Busy(v) => worker[v].export # e
      BY <2>1 DEF OneTask
    <3>4. \A v \in Worker : Busy(v)' => worker'[v].export \in Export /\ worker'[v].export \notin Held(queue')
      BY <2>1, <2>2, <3>2 DEF OneTask, Queued, Busy
    <3>5. \A u, v \in Worker : Busy(u)' /\ Busy(v)' /\ worker'[u].export = worker'[v].export => u = v
      BY <3>2, <3>3 DEF OneTask, Busy
    <3>6. ASSUME NEW x \in Export, Early(x)'
          PROVE  x \notin Held(queue') /\ ~Published(x)' /\ \A v \in Worker : Busy(v)' => worker'[v].export # x
      <4>1. Early(x) /\ x # e
        BY <2>1, <2>2, <3>6 DEF Early
      <4> QED BY <2>1, <3>1, <3>2, <4>1 DEF OneTask, Queued, Published, Busy
    <3>7. ASSUME NEW x \in Export, Published(x)'
          PROVE  x \notin Held(queue') /\
                 \A v \in Worker : Busy(v)' /\ worker'[v].export = x => worker'[v].pc = "fail"
      <4>1. CASE x = e
        BY <2>1, <2>2, <3>2, <3>3, <4>1 DEF Queued, Busy
      <4>2. CASE x # e
        <5>1. Published(x)
          BY <3>1, <3>7, <4>2 DEF Published
        <5> QED BY <2>1, <3>2, <4>2, <5>1 DEF OneTask, Queued, Busy
      <4> QED BY <4>1, <4>2
    <3>8. Distinct(queue')
      BY <2>1 DEF OneTask
    <3> QED BY <3>4, <3>5, <3>6, <3>7, <3>8 DEF OneTask, Queued
  <2> QED BY <2>4, <2>5
<1>15. ASSUME NEW w \in Worker, MarkFailed(w)
       PROVE  OneTask'
  BY <1>15, <1>e DEF MarkFailed, At, Busy
<1>16. ASSUME NEW w \in Worker, WorkerCrash(w)
       PROVE  OneTask'
  BY <1>16, <1>e DEF WorkerCrash, At, Busy
<1>17. ASSUME NEW e \in Export, GetExport(e)
       PROVE  OneTask'
  BY <1>17, <1>a DEF GetExport
<1>18. CASE GetExportPage
  BY <1>18, <1>a DEF GetExportPage
<1>19. CASE UNCHANGED vars
  BY <1>19, <1>a DEF vars
<1> QED BY <1>1, <1>2, <1>3, <1>4, <1>5, <1>6, <1>7, <1>8, <1>9, <1>10, <1>11, <1>12, <1>13, <1>14,
           <1>15, <1>16, <1>17, <1>18, <1>19
        DEF Next, Environment, ApiStep, WorkerStep

(* What every step leaves of the records an export was promised: they stay where they are, expired
   ones stay expired, and the window and the counts of a request stand once it is made. *)
Recorded ==
  /\ Len(events) <= Len(events') /\ Len(actions) <= Len(actions')
  /\ \A i \in DOMAIN events' : i <= Len(events) => i \in DOMAIN events /\ events'[i] = events[i]
  /\ \A i \in DOMAIN actions' : i <= Len(actions) => i \in DOMAIN actions /\ actions'[i] = actions[i]
  /\ expired \subseteq expired'
  /\ \A e \in Export :
       /\ owed'[e].events \in {owed[e].events, Len(events)}
       /\ owed'[e].actions \in {owed[e].actions, Len(actions)}
       /\ api[e] # "idle" =>
            /\ row'[e].from = row[e].from /\ row'[e].to = row[e].to
            /\ owed'[e].events = owed[e].events /\ owed'[e].actions = owed[e].actions

(* A record appended leaves the others. *)
LEMMA AppendRecords ==
  ASSUME NEW s \in Seq(Nat), NEW x \in Nat
  PROVE  /\ Len(s) <= Len(Append(s, x))
         /\ \A i \in DOMAIN Append(s, x) : i <= Len(s) => i \in DOMAIN s /\ Append(s, x)[i] = s[i]
<1> DEFINE n == Len(s)
           t == Append(s, x)
<1>1. n \in Nat /\ DOMAIN s = 1..n
  BY LenProperties
<1>2. t \in Seq(Nat) /\ Len(t) = n + 1 /\ \A i \in 1..n : t[i] = s[i]
  BY AppendProperties
<1>3. DOMAIN t = 1..(n + 1)
  BY <1>2, LenProperties
<1> HIDE DEF n, t
<1> QED BY <1>1, <1>2, <1>3 DEF n, t

(* Every step leaves the records so. *)
LEMMA RecordsStep ==
  ASSUME ExportTypes, OwedRecorded, [Next]_vars
  PROVE  Recorded /\ OwedRecorded'
<1> DEFINE Stands ==
             \A e \in Export :
               /\ owed'[e].events \in {owed[e].events, Len(events)}
               /\ owed'[e].actions \in {owed[e].actions, Len(actions)}
               /\ api[e] # "idle" =>
                    /\ row'[e].from = row[e].from /\ row'[e].to = row[e].to
                    /\ owed'[e].events = owed[e].events /\ owed'[e].actions = owed[e].actions
<1>l. Len(events) \in Nat /\ Len(actions) \in Nat /\ DOMAIN events = 1..Len(events)
      /\ DOMAIN actions = 1..Len(actions)
  BY LenProperties DEF ExportTypes
<1>a. ASSUME UNCHANGED <<events, actions>>, expired \subseteq expired', Stands
      PROVE  Recorded
  <2>1. Len(events) <= Len(events') /\ Len(actions) <= Len(actions')
    BY <1>a, <1>l
  <2> QED BY <1>a, <2>1 DEF Recorded
<1>b. ASSUME UNCHANGED <<events, actions, expired, row, owed>>
      PROVE  Recorded
  <2>1. Stands
    BY <1>b
  <2> QED BY <1>a, <1>b, <2>1
<1>c. ASSUME NEW e, NEW status, SetStatus(e, status)
      PROVE  \A x \in Export : row'[x].from = row[x].from /\ row'[x].to = row[x].to
  BY <1>c DEF SetStatus, ExportTypes
<1>f. ASSUME NEW e, owed' = [owed EXCEPT ![e].lost = TRUE]
      PROVE  \A x \in Export : owed'[x].events = owed[x].events /\ owed'[x].actions = owed[x].actions
  BY <1>f DEF ExportTypes
<1>d. ASSUME NEW w, GiveUp(w)
      PROVE  \A x \in Export : owed'[x].events = owed[x].events /\ owed'[x].actions = owed[x].actions
  BY <1>d, <1>f DEF GiveUp
<1>e. ASSUME UNCHANGED <<events, actions, expired>>,
             \A x \in Export : row'[x].from = row[x].from /\ row'[x].to = row[x].to,
             \A x \in Export : owed'[x].events = owed[x].events /\ owed'[x].actions = owed[x].actions
      PROVE  Recorded
  <2>1. Stands
    BY <1>e
  <2> QED BY <1>a, <1>e, <2>1
<1>1. ASSUME Tick PROVE Recorded
  BY <1>1, <1>b DEF Tick
<1>2. ASSUME RecordEvent PROVE Recorded
  <2>1. PICK t \in 0..now : events' = Append(events, Second(t))
    BY <1>2 DEF RecordEvent
  <2>2. Second(t) \in Nat
    <3>1. t \in Nat /\ t % 2 \in 0..1
      BY DEF ExportTypes
    <3>2. CASE t = 0
      <4>1. 0 % 2 = 0
        OBVIOUS
      <4> QED BY <3>2, <4>1 DEF Second
    <3>3. CASE t >= 1
      BY <3>1, <3>3 DEF Second
    <3> QED BY <3>1, <3>2, <3>3
  <2>3. /\ Len(events) <= Len(events')
        /\ \A i \in DOMAIN events' : i <= Len(events) => i \in DOMAIN events /\ events'[i] = events[i]
    BY <2>1, <2>2, AppendRecords DEF ExportTypes
  <2>4. UNCHANGED <<actions, expired, row, owed>>
    BY <1>2 DEF RecordEvent
  <2>5. Len(actions) <= Len(actions')
    BY <1>l, <2>4
  <2> QED BY <2>3, <2>4, <2>5 DEF Recorded
<1>3. ASSUME RecordAction PROVE Recorded
  <2>3. /\ Len(actions) <= Len(actions')
        /\ \A i \in DOMAIN actions' : i <= Len(actions) => i \in DOMAIN actions /\ actions'[i] = actions[i]
    BY <1>3, AppendRecords DEF ExportTypes, RecordAction
  <2>4. UNCHANGED <<events, expired, row, owed>>
    BY <1>3 DEF RecordAction
  <2>5. Len(events) <= Len(events')
    BY <1>l, <2>4
  <2> QED BY <2>3, <2>4, <2>5 DEF Recorded
<1>4. ASSUME NEW i \in DOMAIN events, Expire(i)
      PROVE  Recorded
  <2>1. Stands
    BY <1>4 DEF Expire
  <2> QED BY <1>4, <1>a, <2>1 DEF Expire
<1>5. ASSUME NEW e \in Export, CreateExport(e)
      PROVE  Recorded
  <2>1. api[e] = "idle" /\ owed' = [owed EXCEPT ![e].events = Len(events), ![e].actions = Len(actions)]
    BY <1>5 DEF CreateExport
  <2>2. \A x \in Export : x # e => row'[x] = row[x]
    BY <1>5 DEF CreateExport, ExportTypes
  <2>3. /\ owed'[e].events = Len(events) /\ owed'[e].actions = Len(actions)
        /\ \A x \in Export : x # e => owed'[x] = owed[x]
    BY <2>1 DEF ExportTypes
  <2>4. Stands
    BY <2>1, <2>2, <2>3
  <2> QED BY <1>5, <1>a, <2>4 DEF CreateExport
<1>6. ASSUME NEW e \in Export, Enqueue(e)
      PROVE  Recorded
  BY <1>6, <1>b DEF Enqueue
<1>7. ASSUME NEW e \in Export, MarkEnqueueFailed(e)
      PROVE  Recorded
  BY <1>7, <1>b, <1>c, <1>e DEF MarkEnqueueFailed
<1>8. ASSUME NEW e \in Export, ApiCrash(e)
      PROVE  Recorded
  BY <1>8, <1>b DEF ApiCrash
<1>9. ASSUME NEW w \in Worker, Pop(w)
      PROVE  Recorded
  <2>1. /\ UNCHANGED <<events, actions, expired, row>>
        /\ UNCHANGED owed \/ owed' = [owed EXCEPT ![Head(queue)].lost = TRUE]
    BY <1>9 DEF Pop
  <2>2. \A x \in Export : owed'[x].events = owed[x].events /\ owed'[x].actions = owed[x].actions
    BY <1>f, <2>1
  <2> QED BY <1>e, <2>1, <2>2
<1>10. ASSUME NEW w \in Worker, MarkRunning(w)
       PROVE  Recorded
  BY <1>10, <1>c, <1>d, <1>e DEF MarkRunning
<1>11. ASSUME NEW w \in Worker, FetchControl(w)
       PROVE  Recorded
  BY <1>11, <1>b DEF FetchControl
<1>12. ASSUME NEW w \in Worker, CountRows(w)
       PROVE  Recorded
  BY <1>12, <1>b DEF CountRows
<1>13. ASSUME NEW w \in Worker, FetchRows(w)
       PROVE  Recorded
  BY <1>13, <1>b DEF FetchRows
<1>14. ASSUME NEW w \in Worker, Persist(w)
       PROVE  Recorded
  BY <1>14, <1>c, <1>e DEF Persist
<1>15. ASSUME NEW w \in Worker, MarkFailed(w)
       PROVE  Recorded
  BY <1>15, <1>c, <1>d, <1>e DEF MarkFailed
<1>16. ASSUME NEW w \in Worker, WorkerCrash(w)
       PROVE  Recorded
  BY <1>16, <1>d, <1>e DEF WorkerCrash
<1>17. ASSUME NEW e \in Export, GetExport(e)
       PROVE  Recorded
  BY <1>17, <1>b DEF GetExport
<1>18. ASSUME GetExportPage PROVE Recorded
  BY <1>18, <1>b DEF GetExportPage
<1>19. ASSUME UNCHANGED vars PROVE Recorded
  BY <1>19, <1>b DEF vars
<1>20. Recorded
  BY <1>1, <1>2, <1>3, <1>4, <1>5, <1>6, <1>7, <1>8, <1>9, <1>10, <1>11, <1>12, <1>13, <1>14,
     <1>15, <1>16, <1>17, <1>18, <1>19
     DEF Next, Environment, ApiStep, WorkerStep
<1>21. OwedRecorded'
  <2> SUFFICES ASSUME NEW e \in Export
               PROVE  owed'[e].events <= Len(events') /\ owed'[e].actions <= Len(actions')
    BY DEF OwedRecorded
  <2>1. ExportTypes'
    BY TypesStep
  <2>2. Len(events') \in Nat /\ Len(actions') \in Nat
    BY <2>1, LenProperties DEF ExportTypes
  <2>3. owed[e].events \in Nat /\ owed[e].actions \in Nat
    BY DEF ExportTypes
  <2>4. owed[e].events <= Len(events) /\ owed[e].actions <= Len(actions)
    BY DEF OwedRecorded
  <2>5. Len(events) <= Len(events') /\ Len(actions) <= Len(actions')
    BY <1>20 DEF Recorded
  <2>6. owed'[e].events \in {owed[e].events, Len(events)} /\ owed'[e].actions \in {owed[e].actions, Len(actions)}
    BY <1>20 DEF Recorded
  <2> QED BY <1>l, <2>2, <2>3, <2>4, <2>5, <2>6
<1> QED BY <1>20, <1>21

(* What an export under way, or published, owes after a step it owed before. *)
LEMMA OwedBefore ==
  ASSUME ExportTypes, ExportTypes', OwedRecorded, Recorded, NEW e \in Export, api[e] # "idle"
  PROVE  /\ \A i \in WindowedActions(e)' : i <= owed'[e].actions =>
              i \in WindowedActions(e) /\ i <= owed[e].actions
         /\ \A i \in DOMAIN events' : i <= owed'[e].events =>
              i \in DOMAIN events /\ i <= owed[e].events /\ events'[i] = events[i]
         /\ \A t : InScope(e, t)' <=> InScope(e, t)
         /\ row'[e].from = row[e].from /\ row'[e].to = row[e].to
<1>1. /\ Len(events) \in Nat /\ Len(actions) \in Nat
      /\ owed[e].events \in Nat /\ owed[e].actions \in Nat
  BY LenProperties DEF ExportTypes
<1>2. owed[e].events <= Len(events) /\ owed[e].actions <= Len(actions)
  BY DEF OwedRecorded
<1>3. /\ row'[e].from = row[e].from /\ row'[e].to = row[e].to
      /\ owed'[e].events = owed[e].events /\ owed'[e].actions = owed[e].actions
  BY DEF Recorded
<1>4. \A t : InScope(e, t)' <=> InScope(e, t)
  BY <1>3 DEF InScope
<1>5. ASSUME NEW i \in DOMAIN actions', i <= owed'[e].actions
      PROVE  i \in DOMAIN actions /\ i <= owed[e].actions /\ actions'[i] = actions[i]
  <2>1. i \in Nat
    BY LenProperties, SMTT(20) DEF ExportTypes
  <2>2. i <= Len(actions)
    BY <1>1, <1>2, <1>3, <1>5, <2>1
  <2> QED BY <1>3, <1>5, <2>2 DEF Recorded
<1>6. ASSUME NEW i \in DOMAIN events', i <= owed'[e].events
      PROVE  i \in DOMAIN events /\ i <= owed[e].events /\ events'[i] = events[i]
  <2>1. i \in Nat
    BY LenProperties, SMTT(20) DEF ExportTypes
  <2>2. i <= Len(events)
    BY <1>1, <1>2, <1>3, <1>6, <2>1
  <2> QED BY <1>3, <1>6, <2>2 DEF Recorded
<1>7. ASSUME NEW i \in WindowedActions(e)', i <= owed'[e].actions
      PROVE  i \in WindowedActions(e) /\ i <= owed[e].actions
  <2>1. i \in DOMAIN actions' /\ row'[e].from <= actions'[i] /\ actions'[i] < row'[e].to
    BY DEF WindowedActions, InWindow
  <2>2. i \in DOMAIN actions /\ i <= owed[e].actions /\ InWindow(e, actions[i])
    BY <1>3, <1>5, <1>7, <2>1 DEF InWindow
  <2> QED BY <2>2 DEF WindowedActions
<1> QED BY <1>3, <1>4, <1>6, <1>7

(* A worker that read nothing in the step is left with what it had read. *)
LEMMA ReadsCarry ==
  ASSUME ExportTypes, ExportTypes', OwedRecorded, OneTask, Recorded, ReadInFull,
         NEW w \in Worker, Busy(w), worker'[w].export = worker[w].export,
         worker'[w].control = worker[w].control, worker'[w].rows = worker[w].rows,
         worker'[w].pc \in {"count", "fetch", "persist"} => worker[w].pc \in {"count", "fetch", "persist"},
         worker'[w].pc = "persist" => worker[w].pc = "persist"
  PROVE  ReadBy(w)'
<1>1. PICK e \in Export : e = worker[w].export /\ api[e] # "idle"
  BY DEF OneTask, Early
<1>2. worker'[w].export = e /\ ReadBy(w)
  BY <1>1 DEF ReadInFull
<1>3. /\ \A i \in WindowedActions(e)' : i <= owed'[e].actions =>
           i \in WindowedActions(e) /\ i <= owed[e].actions
      /\ \A i \in DOMAIN events' : i <= owed'[e].events =>
           i \in DOMAIN events /\ i <= owed[e].events /\ events'[i] = events[i]
      /\ \A t : InScope(e, t)' <=> InScope(e, t)
      /\ expired \subseteq expired'
  BY <1>1, OwedBefore DEF Recorded
<1>4. ASSUME worker'[w].pc \in {"count", "fetch", "persist"}, NEW i \in WindowedActions(e)', i <= owed'[e].actions
      PROVE  <<"action", i>> \in Held(worker'[w].control)
  BY <1>1, <1>2, <1>3, <1>4 DEF ReadBy
<1>5. ASSUME worker'[w].pc = "persist", NEW i \in DOMAIN events', i <= owed'[e].events,
             InScope(e, events[i])'
      PROVE  i \in expired' \/ <<"event", i>> \in Held(worker'[w].rows)
  <2>1. i \in DOMAIN events /\ i <= owed[e].events /\ InScope(e, events[i])
    <3>1. Second(row'[e].from) <= events'[i] /\ events'[i] < Second(row'[e].to)
      BY <1>5 DEF InScope
    <3>2. row'[e].from = row[e].from /\ row'[e].to = row[e].to
      BY <1>1, OwedBefore
    <3> QED BY <1>3, <1>5, <3>1, <3>2 DEF InScope
  <2>2. i \in expired \/ <<"event", i>> \in Held(worker[w].rows)
    BY <1>1, <1>2, <1>5, <2>1 DEF ReadBy
  <2> QED BY <1>3, <2>2
<1> QED BY <1>2, <1>4, <1>5 DEF ReadBy

(* Every step leaves what the workers read complete. *)
LEMMA ReadsStep ==
  ASSUME ExportTypes, ExportTypes', OwedRecorded, OneTask, Recorded, ReadInFull, [Next]_vars
  PROVE  ReadInFull'
<1>t. worker \in [Worker -> Task]
  BY DEF ExportTypes
<1>a. ASSUME NEW w \in Worker, Busy(w), worker'[w] = worker[w]
      PROVE  ReadBy(w)'
  BY <1>a, ReadsCarry
<1>b. ASSUME UNCHANGED worker
      PROVE  ReadInFull'
  <2>1. \A w \in Worker : Busy(w)' => Busy(w) /\ worker'[w] = worker[w]
    BY <1>b DEF Busy
  <2> QED BY <1>a, <2>1 DEF ReadInFull
<1>c. ASSUME NEW w \in Worker, \A v \in Worker : v # w => worker'[v] = worker[v],
             Busy(w)' => ReadBy(w)'
      PROVE  ReadInFull'
  <2> SUFFICES ASSUME NEW v \in Worker, Busy(v)' PROVE ReadBy(v)'
    BY DEF ReadInFull
  <2>1. CASE v = w
    BY <1>c, <2>1
  <2>2. CASE v # w
    <3>1. Busy(v) /\ worker'[v] = worker[v]
      BY <1>c, <2>2 DEF Busy
    <3> QED BY <1>a, <3>1
  <2> QED BY <2>1, <2>2
<1>d. ASSUME NEW w \in Worker, Return(w)
      PROVE  ReadInFull'
  <2>1. worker'[w] = NoTask /\ \A v \in Worker : v # w => worker'[v] = worker[v]
    BY <1>d, <1>t DEF Return
  <2> QED BY <1>c, <2>1 DEF Busy, NoTask
<1>e. ASSUME NEW w \in Worker, NEW pc, Goto(w, pc), pc \notin {"count", "fetch", "persist"}
      PROVE  ReadInFull'
  <2>1. worker'[w].pc = pc /\ \A v \in Worker : v # w => worker'[v] = worker[v]
    BY <1>e, <1>t DEF Goto, Task
  <2>2. ReadBy(w)'
    BY <1>e, <2>1 DEF ReadBy
  <2> QED BY <1>c, <2>1, <2>2
<1>1. CASE Tick
  BY <1>1, <1>b DEF Tick
<1>2. CASE RecordEvent
  BY <1>2, <1>b DEF RecordEvent
<1>3. CASE RecordAction
  BY <1>3, <1>b DEF RecordAction
<1>4. ASSUME NEW i \in DOMAIN events, Expire(i)
      PROVE  ReadInFull'
  BY <1>4, <1>b DEF Expire
<1>5. ASSUME NEW e \in Export, CreateExport(e)
      PROVE  ReadInFull'
  BY <1>5, <1>b DEF CreateExport
<1>6. ASSUME NEW e \in Export, Enqueue(e)
      PROVE  ReadInFull'
  BY <1>6, <1>b DEF Enqueue
<1>7. ASSUME NEW e \in Export, MarkEnqueueFailed(e)
      PROVE  ReadInFull'
  BY <1>7, <1>b DEF MarkEnqueueFailed
<1>8. ASSUME NEW e \in Export, ApiCrash(e)
      PROVE  ReadInFull'
  BY <1>8, <1>b DEF ApiCrash
<1>9. ASSUME NEW w \in Worker, Pop(w)
      PROVE  ReadInFull'
  <2>1. /\ worker'[w].pc = "mark" \/ worker'[w].pc = "idle"
        /\ \A v \in Worker : v # w => worker'[v] = worker[v]
    BY <1>9, <1>t DEF Pop, At, NoTask
  <2>2. ReadBy(w)'
    BY <2>1 DEF ReadBy
  <2> QED BY <1>c, <2>1, <2>2
<1>10. ASSUME NEW w \in Worker, MarkRunning(w)
       PROVE  ReadInFull'
  <2>1. Return(w) \/ Goto(w, "control") \/ Goto(w, "fail")
    BY <1>10 DEF MarkRunning
  <2> QED BY <1>d, <1>e, <2>1
<1>11. ASSUME NEW w \in Worker, FetchControl(w)
       PROVE  ReadInFull'
  <2>1. CASE Goto(w, "fail")
    BY <1>e, <2>1
  <2>2. CASE ~Goto(w, "fail")
    <3>1. PICK e \in Export : e = worker[w].export
      BY <1>11 DEF FetchControl, At, OneTask, Busy
    <3> DEFINE read == InOrder(WindowedActions(e), actions, "action")
    <3>2. worker' = [worker EXCEPT ![w].pc = "count", ![w].control = read]
      BY <1>11, <2>2, <3>1 DEF FetchControl
    <3>3. \A i \in WindowedActions(e) : <<"action", i>> \in Held(read)
      BY ReadsHold
    <3>4. UNCHANGED <<actions, row, owed>>
      BY <1>11 DEF FetchControl
    <3>5. WindowedActions(e)' = WindowedActions(e)
      BY <3>4 DEF WindowedActions, InWindow
    <3> HIDE DEF read
    <3>6. /\ worker'[w].pc = "count" /\ worker'[w].control = read /\ worker'[w].export = e
          /\ \A v \in Worker : v # w => worker'[v] = worker[v]
      BY <1>t, <3>1, <3>2 DEF Task
    <3>7. ReadBy(w)'
      BY <3>3, <3>5, <3>6 DEF ReadBy
    <3> QED BY <1>c, <3>6, <3>7
  <2> QED BY <2>1, <2>2
<1>12. ASSUME NEW w \in Worker, CountRows(w)
       PROVE  ReadInFull'
  <2>1. CASE Goto(w, "fail")
    BY <1>e, <2>1
  <2>2. CASE Goto(w, "fetch")
    <3>1. /\ worker'[w].export = worker[w].export /\ worker'[w].control = worker[w].control
          /\ worker'[w].rows = worker[w].rows /\ worker'[w].pc = "fetch"
          /\ \A v \in Worker : v # w => worker'[v] = worker[v]
      BY <1>t, <2>2 DEF Goto, Task
    <3>2. worker[w].pc = "count" /\ Busy(w)
      BY <1>12 DEF CountRows, At, Busy
    <3>3. ReadBy(w)'
      BY <3>1, <3>2, ReadsCarry
    <3> QED BY <1>c, <3>1, <3>3
  <2> QED BY <1>12, <2>1, <2>2 DEF CountRows
<1>13. ASSUME NEW w \in Worker, FetchRows(w)
       PROVE  ReadInFull'
  <2>1. CASE Goto(w, "fail")
    BY <1>e, <2>1
  <2>2. CASE ~Goto(w, "fail")
    <3>1. PICK e \in Export : e = worker[w].export
      BY <1>13 DEF FetchRows, At, OneTask, Busy
    <3> DEFINE read == InOrder(ScopedEvents(e), events, "event")
    <3>2. worker' = [worker EXCEPT ![w].pc = "persist", ![w].rows = read]
      BY <1>13, <2>2, <3>1 DEF FetchRows
    <3>3. \A i \in ScopedEvents(e) : <<"event", i>> \in Held(read)
      BY ReadsHold
    <3>4. UNCHANGED <<events, expired, actions, row, owed>> /\ worker[w].pc = "fetch" /\ Busy(w)
      BY <1>13 DEF FetchRows, At, Busy
    <3> HIDE DEF read
    <3>6. /\ worker'[w].pc = "persist" /\ worker'[w].control = worker[w].control
          /\ worker'[w].rows = read /\ worker'[w].export = e
          /\ \A v \in Worker : v # w => worker'[v] = worker[v]
      BY <1>t, <3>1, <3>2 DEF Task
    <3>7. ASSUME NEW i \in WindowedActions(e), i <= owed[e].actions
          PROVE  <<"action", i>> \in Held(worker[w].control)
      BY <3>1, <3>4, <3>7 DEF ReadInFull, ReadBy
    <3>8. ASSUME NEW i \in DOMAIN events, InScope(e, events[i])
          PROVE  i \in expired \/ <<"event", i>> \in Held(read)
      BY <3>3, <3>8 DEF ScopedEvents
    <3>9. /\ WindowedActions(e)' = WindowedActions(e)
          /\ \A i \in DOMAIN events : InScope(e, events[i])' <=> InScope(e, events[i])
      BY <3>4 DEF WindowedActions, InWindow, InScope
    <3>10. ReadBy(w)'
      BY <3>4, <3>6, <3>7, <3>8, <3>9 DEF ReadBy
    <3> QED BY <1>c, <3>6, <3>10
  <2> QED BY <2>1, <2>2
<1>14. ASSUME NEW w \in Worker, Persist(w)
       PROVE  ReadInFull'
  <2>1. Return(w) \/ Goto(w, "fail")
    BY <1>14 DEF Persist
  <2> QED BY <1>d, <1>e, <2>1
<1>15. ASSUME NEW w \in Worker, MarkFailed(w)
       PROVE  ReadInFull'
  BY <1>15, <1>d DEF MarkFailed
<1>16. ASSUME NEW w \in Worker, WorkerCrash(w)
       PROVE  ReadInFull'
  BY <1>16, <1>d DEF WorkerCrash
<1>17. ASSUME NEW e \in Export, GetExport(e)
       PROVE  ReadInFull'
  BY <1>17, <1>b DEF GetExport
<1>18. CASE GetExportPage
  BY <1>18, <1>b DEF GetExportPage
<1>19. CASE UNCHANGED vars
  BY <1>19, <1>b DEF vars
<1> QED BY <1>1, <1>2, <1>3, <1>4, <1>5, <1>6, <1>7, <1>8, <1>9, <1>10, <1>11, <1>12, <1>13, <1>14,
           <1>15, <1>16, <1>17, <1>18, <1>19
        DEF Next, Environment, ApiStep, WorkerStep

(* The pages of both sections are pages of the export. *)
LEMMA PagesOfBoth ==
  ASSUME NEW S, NEW s \in Seq(S), NEW t \in Seq(S)
  PROVE  /\ \A p \in DOMAIN s : p \in DOMAIN (s \o t) /\ (s \o t)[p] = s[p]
         /\ \A p \in DOMAIN t : Len(s) + p \in DOMAIN (s \o t) /\ (s \o t)[Len(s) + p] = t[p]
<1> DEFINE n == Len(s)
           k == Len(t)
           u == s \o t
<1>1. n \in Nat /\ k \in Nat /\ DOMAIN s = 1..n /\ DOMAIN t = 1..k
  BY LenProperties
<1>2. u \in Seq(S) /\ Len(u) = n + k
      /\ \A p \in 1..(n + k) : u[p] = IF p <= n THEN s[p] ELSE t[p - n]
  BY ConcatProperties
<1>3. DOMAIN u = 1..(n + k)
  BY <1>2, LenProperties
<1> HIDE DEF n, k, u
<1>4. ASSUME NEW p \in 1..n PROVE p \in 1..(n + k) /\ u[p] = s[p]
  BY <1>1, <1>2
<1>5. ASSUME NEW p \in 1..k PROVE n + p \in 1..(n + k) /\ u[n + p] = t[p]
  <2> DEFINE q == n + p
  <2>1. q \in 1..(n + k) /\ ~(q <= n) /\ q - n = p
    BY <1>1
  <2> HIDE DEF q
  <2>2. q \in 1..(n + k) /\ u[q] = t[p]
    BY <1>2, <2>1
  <2> QED BY <2>2 DEF q
<1> QED BY <1>1, <1>3, <1>4, <1>5 DEF n, u

(* What produce makes of the rows a worker read: it verifies, and every row is on a page. *)
LEMMA Produced ==
  ASSUME ExportTypes, NEW w \in Worker
  PROVE  LET b == Produce(w)
             e == worker[w].export
         IN /\ VerifyExport(b.manifest, b.signature, SigningKey, b.files)
            /\ b.files \in Seq(PageFile) /\ b.files # <<>>
            /\ b.manifest.total_pages \in Nat /\ b.manifest.total_pages # 0
            /\ Len(b.files) = b.manifest.total_pages
            /\ b.manifest.retention = RetentionFor(row[e].from, row[e].to, worker[w].gen)
            /\ b.manifest.generated_at = worker[w].gen
            /\ \A x \in Held(worker[w].rows) \cup Held(worker[w].control) :
                 \E p \in DOMAIN b.files : x \in OnPage(b.files[p])
<1> DEFINE e == worker[w].export
           one == SectionInput(SECTION_REQUEST_EVENTS, worker[w].rows, PageSize, "csv")
           two == SectionInput(SECTION_CONTROL_PLANE, worker[w].control, PageSize, "csv")
           ss == <<one, two>>
           header == [export |-> e, from |-> row[e].from, to |-> row[e].to]
           gen == worker[w].gen
           retention == RetentionFor(row[e].from, row[e].to, gen)
           m == BuildManifest(header, ss, retention, gen)
           b == Produce(w)
<1>1. worker[w].rows \in Seq(Row) /\ worker[w].control \in Seq(Row) /\ PageSize \in Nat \ {0}
  BY ExportAssumption DEF ExportTypes, Task
<1>2. /\ SectionOk(one) /\ one.section = SECTION_REQUEST_EVENTS
      /\ \A k \in DOMAIN worker[w].rows : \E p \in DOMAIN one.pages : worker[w].rows[k] \in OnPage(one.pages[p])
  BY <1>1, SectionHolds
<1>3. /\ SectionOk(two) /\ two.section = SECTION_CONTROL_PLANE
      /\ \A k \in DOMAIN worker[w].control :
           \E p \in DOMAIN two.pages : worker[w].control[k] \in OnPage(two.pages[p])
  BY <1>1, SectionHolds
<1>4. b = [manifest |-> m, signature |-> Sign(SigningKey, m), files |-> PageFiles(ss)]
  BY DEF Produce
<1> HIDE DEF one, two, b
<1>5. TwoSections(ss) /\ ss[1] = one /\ ss[2] = two
  BY <1>2, <1>3 DEF TwoSections
<1> HIDE DEF ss, header, retention, gen
<1>6. /\ VerifyExport(m, Sign(SigningKey, m), SigningKey, PageFiles(ss))
      /\ PageFiles(ss) \in Seq(PageFile) /\ Len(PageFiles(ss)) = m.total_pages
      /\ m.total_pages \in Nat \ {0}
      /\ m.retention = retention /\ m.generated_at = gen
  BY <1>5, BuiltVerifies
<1> HIDE DEF m
<1>7. b.manifest = m /\ b.signature = Sign(SigningKey, m) /\ b.files = PageFiles(ss)
  BY <1>4
<1>8. b.files # <<>>
  <2>1. Len(b.files) # 0
    BY <1>6, <1>7
  <2> QED BY <2>1, EmptySeq
<1>9. \A x \in Held(worker[w].rows) \cup Held(worker[w].control) :
        \E p \in DOMAIN b.files : x \in OnPage(b.files[p])
  <2>1. b.files = one.pages \o two.pages /\ one.pages \in Seq(PageFile) /\ two.pages \in Seq(PageFile)
    BY <1>2, <1>3, <1>5, <1>7 DEF PageFiles, SectionOk
  <2> DEFINE s1 == one.pages
             s2 == two.pages
             s3 == s1 \o s2
  <2>a. s1 \in Seq(PageFile) /\ s2 \in Seq(PageFile) /\ b.files = s3
    BY <2>1
  <2> HIDE DEF s1, s2
  <2>b. /\ \A p \in DOMAIN s1 : p \in DOMAIN s3 /\ s3[p] = s1[p]
        /\ \A p \in DOMAIN s2 : Len(s1) + p \in DOMAIN s3 /\ s3[Len(s1) + p] = s2[p]
    BY <2>a, PagesOfBoth
  <2> HIDE DEF s3
  <2>2. /\ \A p \in DOMAIN one.pages : p \in DOMAIN b.files /\ b.files[p] = one.pages[p]
        /\ \A p \in DOMAIN two.pages : \E q \in DOMAIN b.files : b.files[q] = two.pages[p]
    BY <2>a, <2>b DEF s1, s2
  <2>4. ASSUME NEW x \in Held(worker[w].rows)
        PROVE  \E p \in DOMAIN b.files : x \in OnPage(b.files[p])
    <3>1. PICK p \in DOMAIN one.pages : x \in OnPage(one.pages[p])
      BY <1>2 DEF Held
    <3> QED BY <2>2, <3>1
  <2>5. ASSUME NEW x \in Held(worker[w].control)
        PROVE  \E p \in DOMAIN b.files : x \in OnPage(b.files[p])
    <3>1. PICK p \in DOMAIN two.pages : x \in OnPage(two.pages[p])
      BY <1>3 DEF Held
    <3> QED BY <2>2, <3>1
  <2> QED BY <2>4, <2>5
<1> QED BY <1>6, <1>7, <1>8, <1>9 DEF b, e, retention, gen

(* What a step does to what is published: nothing, except that a worker at its end may publish an
   export that was not. *)
StoredKept ==
  \/ stored' = stored /\ \A e \in Export : row'[e].status = "complete" => row[e].status = "complete"
  \/ \E w \in Worker :
       /\ worker[w].pc = "persist" /\ Busy(w)
       /\ stored' = [stored EXCEPT ![worker[w].export] = Produce(w)]
       /\ \A e \in Export : e # worker[w].export /\ row'[e].status = "complete" => row[e].status = "complete"
       /\ UNCHANGED <<events, expired, actions, owed>>
       /\ \A e \in Export : row'[e].from = row[e].from /\ row'[e].to = row[e].to

(* Every step is of one of these kinds. *)
LEMMA StoredStep ==
  ASSUME ExportTypes, [Next]_vars
  PROVE  StoredKept
<1>a. ASSUME UNCHANGED <<stored, row>> PROVE StoredKept
  BY <1>a DEF StoredKept
<1>b. ASSUME NEW x, NEW status, SetStatus(x, status), status # "complete" \/ x \notin Export
      PROVE  \A e \in Export : row'[e].status = "complete" => row[e].status = "complete"
  BY <1>b DEF SetStatus, ExportTypes
<1>1. CASE Tick
  BY <1>1, <1>a DEF Tick
<1>2. CASE RecordEvent
  BY <1>2, <1>a DEF RecordEvent
<1>3. CASE RecordAction
  BY <1>3, <1>a DEF RecordAction
<1>4. ASSUME NEW i \in DOMAIN events, Expire(i)
      PROVE  StoredKept
  BY <1>4, <1>a DEF Expire
<1>5. ASSUME NEW e \in Export, CreateExport(e)
      PROVE  StoredKept
  <2>1. \A x \in Export : row'[x].status = "complete" => row[x].status = "complete"
    BY <1>5 DEF CreateExport, ExportTypes
  <2> QED BY <1>5, <2>1 DEF StoredKept, CreateExport
<1>6. ASSUME NEW e \in Export, Enqueue(e)
      PROVE  StoredKept
  BY <1>6, <1>a DEF Enqueue
<1>7. ASSUME NEW e \in Export, MarkEnqueueFailed(e)
      PROVE  StoredKept
  <2>1. \A x \in Export : row'[x].status = "complete" => row[x].status = "complete"
    BY <1>7, <1>b DEF MarkEnqueueFailed
  <2> QED BY <1>7, <2>1 DEF StoredKept, MarkEnqueueFailed
<1>8. ASSUME NEW e \in Export, ApiCrash(e)
      PROVE  StoredKept
  BY <1>8, <1>a DEF ApiCrash
<1>9. ASSUME NEW w \in Worker, Pop(w)
      PROVE  StoredKept
  BY <1>9, <1>a DEF Pop
<1>10. ASSUME NEW w \in Worker, MarkRunning(w)
       PROVE  StoredKept
  <2>1. \A x \in Export : row'[x].status = "complete" => row[x].status = "complete"
    BY <1>10, <1>b DEF MarkRunning
  <2> QED BY <1>10, <2>1 DEF StoredKept, MarkRunning
<1>11. ASSUME NEW w \in Worker, FetchControl(w)
       PROVE  StoredKept
  BY <1>11, <1>a DEF FetchControl
<1>12. ASSUME NEW w \in Worker, CountRows(w)
       PROVE  StoredKept
  BY <1>12, <1>a DEF CountRows
<1>13. ASSUME NEW w \in Worker, FetchRows(w)
       PROVE  StoredKept
  BY <1>13, <1>a DEF FetchRows
<1>14. ASSUME NEW w \in Worker, Persist(w)
       PROVE  StoredKept
  <2>1. CASE UNCHANGED <<stored, row>>
    BY <1>a, <2>1
  <2>2. CASE ~UNCHANGED <<stored, row>>
    <3>1. /\ stored' = [stored EXCEPT ![worker[w].export] = Produce(w)]
          /\ SetStatus(worker[w].export, "complete")
      BY <1>14, <2>2 DEF Persist
    <3>2. worker[w].pc = "persist" /\ Busy(w) /\ UNCHANGED <<events, expired, actions, owed>>
      BY <1>14 DEF Persist, At, Busy
    <3>3. /\ \A e \in Export : e # worker[w].export /\ row'[e].status = "complete" => row[e].status = "complete"
          /\ \A e \in Export : row'[e].from = row[e].from /\ row'[e].to = row[e].to
      BY <3>1 DEF SetStatus, ExportTypes
    <3> QED BY <3>1, <3>2, <3>3 DEF StoredKept
  <2> QED BY <2>1, <2>2
<1>15. ASSUME NEW w \in Worker, MarkFailed(w)
       PROVE  StoredKept
  <2>1. \A x \in Export : row'[x].status = "complete" => row[x].status = "complete"
    BY <1>15, <1>b DEF MarkFailed
  <2> QED BY <1>15, <2>1 DEF StoredKept, MarkFailed
<1>16. ASSUME NEW w \in Worker, WorkerCrash(w)
       PROVE  StoredKept
  BY <1>16, <1>a DEF WorkerCrash
<1>17. ASSUME NEW e \in Export, GetExport(e)
       PROVE  StoredKept
  BY <1>17, <1>a DEF GetExport
<1>18. CASE GetExportPage
  BY <1>18, <1>a DEF GetExportPage
<1>19. CASE UNCHANGED vars
  BY <1>19, <1>a DEF vars
<1> QED BY <1>1, <1>2, <1>3, <1>4, <1>5, <1>6, <1>7, <1>8, <1>9, <1>10, <1>11, <1>12, <1>13, <1>14,
           <1>15, <1>16, <1>17, <1>18, <1>19
        DEF Next, Environment, ApiStep, WorkerStep

(* What is published stays, and verifies. *)
LEMMA PublishedStep ==
  ASSUME ExportTypes, OneTask, StoredVerifies, StoredKept
  PROVE  /\ StoredVerifies'
         /\ \A e \in Export : Published(e) => stored'[e] = stored[e]
<1>1. CASE stored' = stored /\ \A e \in Export : row'[e].status = "complete" => row[e].status = "complete"
  BY <1>1 DEF StoredVerifies, Published
<1>2. ASSUME NEW w \in Worker, worker[w].pc = "persist", Busy(w),
             stored' = [stored EXCEPT ![worker[w].export] = Produce(w)],
             \A e \in Export : e # worker[w].export /\ row'[e].status = "complete" => row[e].status = "complete"
      PROVE  /\ StoredVerifies'
             /\ \A e \in Export : Published(e) => stored'[e] = stored[e]
  <2> DEFINE b == Produce(w)
  <2>1. PICK x \in Export : x = worker[w].export
    BY <1>2 DEF OneTask
  <2>2. /\ VerifyExport(b.manifest, b.signature, SigningKey, b.files)
        /\ b.files \in Seq(PageFile) /\ b.files # <<>>
        /\ b.manifest.total_pages \in Nat /\ b.manifest.total_pages # 0
        /\ Len(b.files) = b.manifest.total_pages
    BY Produced
  <2>3. stored'[x] = b /\ \A e \in Export : e # x => stored'[e] = stored[e]
    BY <1>2, <2>1 DEF ExportTypes
  <2>4. ~Published(x)
    BY <1>2, <2>1 DEF OneTask
  <2> HIDE DEF b
  <2>5. ASSUME NEW e \in Export
        PROVE  /\ Published(e)' =>
                    /\ VerifyExport(stored'[e].manifest, stored'[e].signature, SigningKey, stored'[e].files)
                    /\ stored'[e].files \in Seq(PageFile)
                    /\ stored'[e].manifest.total_pages \in Nat /\ stored'[e].manifest.total_pages # 0
                    /\ Len(stored'[e].files) = stored'[e].manifest.total_pages
               /\ row'[e].status = "complete" => Published(e)'
    <3>1. CASE e = x
      BY <2>2, <2>3, <3>1 DEF Published
    <3>2. CASE e # x
      BY <1>2, <2>1, <2>3, <3>2 DEF StoredVerifies, Published
    <3> QED BY <3>1, <3>2
  <2>6. StoredVerifies'
    BY <2>5 DEF StoredVerifies
  <2> QED BY <2>3, <2>4, <2>6
<1> QED BY <1>1, <1>2 DEF StoredKept

(* A window that starts before the retention does is declared to. *)
LEMMA RetentionTold ==
  ASSUME NEW from \in Nat, NEW to \in Nat, NEW gen \in Nat, NEW t \in Nat, from <= t, t + Ttl < gen
  PROVE  RetentionFor(from, to, gen) # "within_retention"
<1>1. Ttl \in Nat
  BY ExportAssumption
<1>2. from < gen - Ttl
  BY <1>1
<1>3. to <= gen - Ttl \/ to > gen - Ttl
  BY <1>1
<1>4. CASE to <= gen - Ttl
  <2>1. ~(to > gen - Ttl)
    BY <1>1, <1>4
  <2> QED BY <1>4, <2>1 DEF RetentionFor
<1>5. CASE to > gen - Ttl
  <2>1. ~(to <= gen - Ttl)
    BY <1>1, <1>5
  <2> QED BY <1>2, <1>5, <2>1 DEF RetentionFor
<1> QED BY <1>3, <1>4, <1>5

(* What was published leaves out nothing, before and after every step. *)
LEMMA OmittedStep ==
  ASSUME ExportTypes, ExportTypes', OwedRecorded, OneTask, ReadInFull, StoredVerifies, NothingOmitted,
         Recorded, StoredKept
  PROVE  NothingOmitted'
<1> SUFFICES ASSUME NEW e \in Export, Published(e)'
             PROVE  /\ \A i \in WindowedActions(e)' : i <= owed'[e].actions => <<"action", i>> \in Rows(e)'
                    /\ \A i \in DOMAIN events' :
                         (/\ i <= owed'[e].events
                          /\ InScope(e, events[i])' /\ row'[e].from <= events'[i]
                          /\ <<"event", i>> \notin Rows(e)')
                         => /\ i \in expired'
                            /\ \/ stored'[e].manifest.retention # "within_retention"
                               \/ events'[i] + Ttl >= stored'[e].manifest.generated_at
  BY DEF NothingOmitted
<1>1. CASE Published(e)
  <2>1. stored'[e] = stored[e] /\ api[e] # "idle"
    BY <1>1, PublishedStep DEF OneTask, Early
  <2>2. Rows(e)' = Rows(e)
    BY <2>1 DEF Rows
  <2>3. /\ \A i \in WindowedActions(e)' : i <= owed'[e].actions =>
             i \in WindowedActions(e) /\ i <= owed[e].actions
        /\ \A i \in DOMAIN events' : i <= owed'[e].events =>
             i \in DOMAIN events /\ i <= owed[e].events /\ events'[i] = events[i]
        /\ row'[e].from = row[e].from /\ row'[e].to = row[e].to
        /\ expired \subseteq expired'
    BY <2>1, OwedBefore DEF Recorded
  <2>4. ASSUME NEW i \in WindowedActions(e)', i <= owed'[e].actions
        PROVE  <<"action", i>> \in Rows(e)'
    BY <1>1, <2>2, <2>3, <2>4 DEF NothingOmitted
  <2>5. ASSUME NEW i \in DOMAIN events', i <= owed'[e].events, InScope(e, events[i])',
               row'[e].from <= events'[i], <<"event", i>> \notin Rows(e)'
        PROVE  /\ i \in expired'
               /\ \/ stored'[e].manifest.retention # "within_retention"
                  \/ events'[i] + Ttl >= stored'[e].manifest.generated_at
    <3>1. i \in DOMAIN events /\ i <= owed[e].events /\ events'[i] = events[i]
      BY <2>3, <2>5
    <3>2. InScope(e, events[i])
      BY <2>3, <2>5, <3>1 DEF InScope
    <3>3. /\ i \in expired
          /\ \/ stored[e].manifest.retention # "within_retention"
             \/ events[i] + Ttl >= stored[e].manifest.generated_at
      BY <1>1, <2>2, <2>3, <2>5, <3>1, <3>2 DEF NothingOmitted
    <3> QED BY <2>1, <2>3, <3>1, <3>3
  <2> QED BY <2>4, <2>5
<1>2. CASE ~Published(e)
  <2>1. stored'[e] # stored[e]
    BY <1>2 DEF Published
  <2>2. PICK w \in Worker :
          /\ worker[w].pc = "persist" /\ Busy(w)
          /\ stored' = [stored EXCEPT ![worker[w].export] = Produce(w)]
          /\ UNCHANGED <<events, expired, actions, owed>>
          /\ \A x \in Export : row'[x].from = row[x].from /\ row'[x].to = row[x].to
    BY <2>1 DEF StoredKept
  <2>3. worker[w].export = e /\ stored'[e] = Produce(w)
    BY <2>1, <2>2 DEF ExportTypes
  <2> DEFINE b == Produce(w)
  <2>4. /\ b.manifest.retention = RetentionFor(row[e].from, row[e].to, worker[w].gen)
        /\ b.manifest.generated_at = worker[w].gen
        /\ \A x \in Held(worker[w].rows) \cup Held(worker[w].control) :
             \E p \in DOMAIN b.files : x \in OnPage(b.files[p])
    BY <2>3, Produced
  <2>5. stored'[e] = b
    BY <2>3
  <2> HIDE DEF b
  <2>6. \A x \in Held(worker[w].rows) \cup Held(worker[w].control) : x \in Rows(e)'
    BY <2>4, <2>5 DEF Rows
  <2>7. ReadBy(w)
    BY <2>2 DEF ReadInFull
  <2>8. WindowedActions(e)' = WindowedActions(e)
    BY <2>2 DEF WindowedActions, InWindow
  <2>9. ASSUME NEW i \in WindowedActions(e)', i <= owed'[e].actions
        PROVE  <<"action", i>> \in Rows(e)'
    BY <2>2, <2>3, <2>6, <2>7, <2>8, <2>9 DEF ReadBy
  <2>10. ASSUME NEW i \in DOMAIN events', i <= owed'[e].events, InScope(e, events[i])',
                row'[e].from <= events'[i], <<"event", i>> \notin Rows(e)'
         PROVE  /\ i \in expired'
                /\ \/ stored'[e].manifest.retention # "within_retention"
                   \/ events'[i] + Ttl >= stored'[e].manifest.generated_at
    <3>1. i \in DOMAIN events /\ i <= owed[e].events /\ events'[i] = events[i] /\ row[e].from <= events[i]
      BY <2>2, <2>10
    <3>2. InScope(e, events[i])
      BY <2>2, <2>10 DEF InScope
    <3>3. i \in expired
      BY <2>2, <2>3, <2>6, <2>7, <2>10, <3>1, <3>2 DEF ReadBy
    <3>4. ASSUME ~(events[i] + Ttl >= worker[w].gen)
          PROVE  RetentionFor(row[e].from, row[e].to, worker[w].gen) # "within_retention"
      <4>1. /\ events[i] \in Nat /\ worker[w].gen \in Nat /\ Ttl \in Nat
            /\ row[e].from \in Nat /\ row[e].to \in Nat
        BY <3>1, ElementOfSeq, LenProperties, ExportAssumption DEF ExportTypes, Task
      <4>2. events[i] + Ttl < worker[w].gen
        BY <3>4, <4>1
      <4> QED BY <3>1, <4>1, <4>2, RetentionTold
    <3> QED BY <2>2, <2>4, <2>5, <3>1, <3>3, <3>4
  <2> QED BY <2>9, <2>10
<1> QED BY <1>1, <1>2

(* Every step leaves a client with the first pages of what is published. *)
LEMMA ClientStep ==
  ASSUME ExportTypes, StoredVerifies, ClientHolds, [Next]_vars,
         \A e \in Export : Published(e) => stored'[e] = stored[e]
  PROVE  ClientHolds'
<1>a. ASSUME UNCHANGED client
      PROVE  ClientHolds'
  <2> SUFFICES ASSUME client.pc # "idle" PROVE ClientHolds'
    BY <1>a DEF ClientHolds
  <2>1. PICK e \in Export : e = client.export /\ Published(e) /\ stored'[e] = stored[e]
    BY DEF ClientHolds
  <2> QED BY <1>a, <2>1 DEF ClientHolds, Published
<1>1. CASE Tick
  BY <1>1, <1>a DEF Tick
<1>2. CASE RecordEvent
  BY <1>2, <1>a DEF RecordEvent
<1>3. CASE RecordAction
  BY <1>3, <1>a DEF RecordAction
<1>4. ASSUME NEW i \in DOMAIN events, Expire(i)
      PROVE  ClientHolds'
  BY <1>4, <1>a DEF Expire
<1>5. ASSUME NEW e \in Export, CreateExport(e) \/ Enqueue(e) \/ MarkEnqueueFailed(e) \/ ApiCrash(e)
      PROVE  ClientHolds'
  BY <1>5, <1>a DEF CreateExport, Enqueue, MarkEnqueueFailed, ApiCrash
<1>6. ASSUME NEW w \in Worker, Pop(w) \/ MarkRunning(w) \/ FetchControl(w) \/ CountRows(w) \/ FetchRows(w)
      PROVE  ClientHolds'
  BY <1>6, <1>a DEF Pop, MarkRunning, FetchControl, CountRows, FetchRows
<1>7. ASSUME NEW w \in Worker, Persist(w) \/ MarkFailed(w) \/ WorkerCrash(w)
      PROVE  ClientHolds'
  BY <1>7, <1>a DEF Persist, MarkFailed, WorkerCrash
<1>8. ASSUME NEW e \in Export, GetExport(e)
      PROVE  ClientHolds'
  <2>1. Published(e) /\ stored' = stored
    BY <1>8 DEF GetExport, StoredVerifies
  <2>2. client' = [pc |-> "pages", export |-> e, manifest |-> stored[e].manifest,
                   signature |-> stored[e].signature, files |-> <<>>]
    BY <1>8 DEF GetExport
  <2>3. Len(stored[e].files) \in Nat /\ Len(stored[e].files) # 0
    BY <2>1 DEF StoredVerifies
  <2>4. client'.files = <<>> /\ Len(client'.files) = 0 /\ client'.files \in Seq(PageFile)
    BY <2>2
  <2>5. Len(client'.files) < Len(stored[e].files) /\ 1..Len(client'.files) = {}
    BY <2>3, <2>4
  <2> QED BY <2>1, <2>2, <2>4, <2>5 DEF ClientHolds, Published
<1>9. CASE GetExportPage
  <2>1. client.pc = "pages"
    BY <1>9 DEF GetExportPage
  <2>2. PICK e \in Export : e = client.export /\ Published(e)
    BY <2>1 DEF ClientHolds
  <2> DEFINE n == Len(client.files)
             fs == stored[e].files
             N == Len(fs)
             page == fs[n + 1]
             got == Append(client.files, page)
  <2>3. /\ client.files \in Seq(PageFile) /\ n < N
        /\ client = [pc |-> client.pc, export |-> e, manifest |-> stored[e].manifest,
                     signature |-> stored[e].signature, files |-> client.files]
        /\ \A p \in 1..n : p <= N /\ client.files[p] = fs[p]
    BY <2>1, <2>2 DEF ClientHolds
  <2>4. fs \in Seq(PageFile) /\ N \in Nat /\ n \in Nat /\ N = stored[e].manifest.total_pages
    BY <2>2, <2>3, LenProperties DEF StoredVerifies
  <2>5. DOMAIN fs = 1..N
    BY <2>4, LenProperties
  <2>6. stored' = stored
    BY <1>9 DEF GetExportPage
  <2> HIDE DEF fs, N, n
  <2>7. n + 1 \in DOMAIN fs /\ n + 1 \in 1..N /\ page \in PageFile
    <3>1. n + 1 \in 1..N
      BY <2>3, <2>4
    <3> QED BY <2>4, <2>5, <3>1, ElementOfSeq DEF N
  <2>8. client' = [client EXCEPT !.files = got,
                     !.pc = IF n + 1 = N THEN "done" ELSE "pages"]
    <3>1. Len(client.files) + 1 \in DOMAIN stored[client.export].files
      BY <2>2, <2>7 DEF fs, n
    <3>2. client' = [client EXCEPT
            !.files = Append(@, stored[client.export].files[Len(client.files) + 1]),
            !.pc = IF Len(client.files) + 1 = client.manifest.total_pages THEN "done" ELSE "pages"]
      BY <1>9, <3>1, Zenon DEF GetExportPage
    <3>3. client.manifest.total_pages = N
      <4>1. client.manifest = stored[e].manifest
        BY <2>3
      <4> QED BY <2>4, <4>1
    <3>4. Append(client.files, stored[client.export].files[Len(client.files) + 1]) = got
      BY <2>2 DEF fs, n
    <3> QED BY <3>2, <3>3, <3>4 DEF n
  <2>9. /\ got \in Seq(PageFile) /\ Len(got) = n + 1
        /\ (\A p \in 1..n : got[p] = client.files[p]) /\ got[n + 1] = page
    BY <2>3, <2>7, AppendProperties DEF n
  <2> HIDE DEF got, page
  <2>10. client' = [pc |-> IF n + 1 = N THEN "done" ELSE "pages", export |-> e,
                    manifest |-> stored[e].manifest, signature |-> stored[e].signature, files |-> got]
    <3>1. PICK pc, m, sig, f :
            /\ client = [pc |-> pc, export |-> e, manifest |-> m, signature |-> sig, files |-> f]
            /\ m = stored[e].manifest /\ sig = stored[e].signature
      BY <2>3, Zenon
    <3>2. client' = [pc |-> IF n + 1 = N THEN "done" ELSE "pages", export |-> e,
                     manifest |-> m, signature |-> sig, files |-> got]
      BY <2>8, <3>1
    <3> QED BY <3>1, <3>2
  <2>11. \A p \in 1..Len(got) : p <= N /\ got[p] = fs[p]
    <3> SUFFICES ASSUME NEW p \in 1..(n + 1) PROVE p <= N /\ got[p] = fs[p]
      BY <2>9
    <3>1. CASE p = n + 1
      BY <2>4, <2>7, <2>9, <3>1 DEF page
    <3>2. CASE p # n + 1
      <4>1. p \in 1..n
        BY <2>4, <3>2
      <4> QED BY <2>3, <2>9, <4>1
    <3> QED BY <3>1, <3>2
  <2>12. CASE n + 1 = N
    <3>1. /\ client' = [pc |-> "done", export |-> e, manifest |-> stored[e].manifest,
                        signature |-> stored[e].signature, files |-> got]
          /\ Len(got) = N
      BY <2>9, <2>10, <2>12
    <3> QED BY <2>2, <2>6, <2>9, <2>11, <3>1 DEF ClientHolds, Published, N, fs
  <2>13. CASE n + 1 # N
    <3>1. /\ client' = [pc |-> "pages", export |-> e, manifest |-> stored[e].manifest,
                        signature |-> stored[e].signature, files |-> got]
          /\ Len(got) < N
      BY <2>3, <2>4, <2>9, <2>10, <2>13
    <3> QED BY <2>2, <2>6, <2>9, <2>11, <3>1 DEF ClientHolds, Published, N, fs
  <2> QED BY <2>12, <2>13
<1>10. CASE UNCHANGED vars
  BY <1>10, <1>a DEF vars
<1> QED BY <1>1, <1>2, <1>3, <1>4, <1>5, <1>6, <1>7, <1>8, <1>9, <1>10
        DEF Next, Environment, ApiStep, WorkerStep

(* The first state. *)
LEMMA ExportStarts == Init => ExportInv
<1> SUFFICES ASSUME Init PROVE ExportInv
  OBVIOUS
<1> USE DEF Init
<1>1. ExportTypes
  <2>1. NoTask \in Task
    BY DEF NoTask, Task, WorkerPcs
  <2> QED BY <2>1 DEF ExportTypes, Status, ApiPcs
<1>2. OwedRecorded
  <2>1. Len(events) = 0 /\ Len(actions) = 0
    OBVIOUS
  <2> QED BY <2>1 DEF OwedRecorded
<1>3. \A w \in Worker : ~Busy(w)
  BY DEF Busy, NoTask
<1>4. \A e \in Export : ~Published(e)
  BY DEF Published, NoExport
<1>5. OneTask
  <2>1. Held(queue) = {} /\ Distinct(queue)
    BY DEF Held, Distinct
  <2> QED BY <1>3, <1>4, <2>1 DEF OneTask, Queued
<1>6. ReadInFull
  BY <1>3 DEF ReadInFull
<1>7. StoredVerifies /\ NothingOmitted
  BY <1>4 DEF StoredVerifies, NothingOmitted
<1>8. ClientHolds
  BY DEF ClientHolds, NoClient
<1> QED BY <1>1, <1>2, <1>5, <1>6, <1>7, <1>8 DEF ExportInv

(* Every step. *)
LEMMA ExportStep ==
  ASSUME ExportInv, [Next]_vars
  PROVE  ExportInv'
<1>1. /\ ExportTypes /\ OwedRecorded /\ OneTask /\ ReadInFull /\ StoredVerifies /\ NothingOmitted
      /\ ClientHolds
  BY DEF ExportInv
<1>2. ExportTypes' /\ OneTask'
  BY <1>1, TypesStep, TasksStep
<1>3. Recorded /\ OwedRecorded'
  BY <1>1, RecordsStep
<1>4. ReadInFull'
  BY <1>1, <1>2, <1>3, ReadsStep
<1>5. StoredKept
  BY <1>1, StoredStep
<1>6. StoredVerifies' /\ \A e \in Export : Published(e) => stored'[e] = stored[e]
  BY <1>1, <1>5, PublishedStep
<1>7. NothingOmitted'
  BY <1>1, <1>2, <1>3, <1>5, OmittedStep
<1>8. ClientHolds'
  BY <1>1, <1>6, ClientStep
<1> QED BY <1>2, <1>3, <1>4, <1>6, <1>7, <1>8 DEF ExportInv

(* What the client assembled is what was published. *)
LEMMA DownloadFollows == ExportInv => DownloadVerifies
<1> SUFFICES ASSUME ExportInv, client.pc # "idle" PROVE DownloadVerifies
  BY DEF DownloadVerifies
<1>1. PICK e \in Export : e = client.export /\ Published(e)
  BY DEF ExportInv, ClientHolds
<1>2. /\ client.files \in Seq(PageFile) /\ client.pc # "missing"
      /\ client.manifest = stored[e].manifest /\ client.signature = stored[e].signature
      /\ \A p \in 1..Len(client.files) : client.files[p] = stored[e].files[p]
      /\ client.pc = "done" => Len(client.files) = Len(stored[e].files)
  BY <1>1 DEF ExportInv, ClientHolds
<1>3. /\ VerifyExport(stored[e].manifest, stored[e].signature, SigningKey, stored[e].files)
      /\ stored[e].files \in Seq(PageFile)
  BY <1>1 DEF ExportInv, StoredVerifies
<1>4. ASSUME client.pc = "done"
      PROVE  client.files = stored[e].files
  BY <1>2, <1>3, <1>4, SeqEqual
<1> QED BY <1>2, <1>3, <1>4 DEF DownloadVerifies

(* An export published leaves out nothing that was recorded in its window before it was requested,
   except an event that expired, which the manifest says unless the event expired after
   generated_at: whatever is recorded, expires, crashes or fails between the two reads of a worker
   and its commit, for any number of exports and workers. *)
THEOREM ExportOmitsNothing == Spec => []NothingOmitted
<1>1. ExportInv /\ [Next]_vars => ExportInv'
  BY ExportStep
<1>2. ExportInv => NothingOmitted
  BY DEF ExportInv
<1> QED BY <1>1, <1>2, ExportStarts, PTL DEF Spec

(* A client that sees an export complete and fetches its pages one request at a time finds every
   page, and what it assembled verifies: a status that turns to failed later, a second worker or a
   late write never takes a page back. *)
THEOREM ExportDownloads == Spec => []DownloadVerifies
<1>1. ExportInv /\ [Next]_vars => ExportInv'
  BY ExportStep
<1> QED BY <1>1, ExportStarts, DownloadFollows, PTL DEF Spec
=============================================================================
