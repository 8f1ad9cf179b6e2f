---------------------------- MODULE DocumentText ----------------------------
(***************************************************************************)
(* From the bytes of a resume to text in which every word has evidence:    *)
(* validation, the two parsers, assembly, the check of the evidence and    *)
(* the normalisation that can be undone (modules/resume, nlp/text.py).     *)
(*                                                                         *)
(* A text is a sequence of words.  A word carries the blank after it, so   *)
(* only other white space (Gaps) and control characters are tokens of      *)
(* their own.  A position counts tokens from 0; a span is [start, end).    *)
(***************************************************************************)
EXTENDS Integers, Sequences, FiniteSets, SequencesExt, FiniteSetsExt

CONSTANTS MaxTextChars,   \* limits.max_text_chars, in tokens
          MaxPages        \* limits.max_pdf_pages

ASSUME LimitsAssumption == MaxTextChars \in Nat /\ MaxPages \in Nat

\* The words that the program writes itself, and all words: a prover takes no
\* literal for a STRING.
Written    == {"nl", "untitled", "unknown", "(no description)"}
Vocabulary == STRING \cup Written
Texts      == Seq(Vocabulary)

Gaps == {"nl", "tab"}
Blank == Gaps \cup {"ctl"}

\* text[lo:hi]
Slice(text, lo, hi) == SubSeq(text, lo + 1, hi)

Strip(text) ==
  LET ink == {i \in DOMAIN text : text[i] \notin Gaps}
  IN IF ink = {} THEN <<>> ELSE SubSeq(text, Min(ink), Max(ink))

\* The members of a sequence at the places in a set, in order.
Picked(seq, places) ==
  LET upTo[i \in 0..Len(seq)] ==
        IF i = 0 THEN <<>>
        ELSE IF i \in places THEN Append(upTo[i - 1], seq[i]) ELSE upTo[i - 1]
  IN upTo[Len(seq)]

\* SelectSeq, in a form that a proof can expand.
Filtered(seq, Test(_)) == Picked(seq, {i \in DOMAIN seq : Test(seq[i])})

\* A set in a strict order of its members.
InOrder(S, Before(_, _)) ==
  [n \in 1..Cardinality(S) |-> CHOOSE x \in S : Cardinality({y \in S : Before(y, x)}) = n - 1]

\* The first check that fails gives its code; "" when none does.
FirstFault(checks) ==
  LET failed == {i \in DOMAIN checks : checks[i][1]}
  IN IF failed = {} THEN "" ELSE checks[Min(failed)][2]

\* What the declared media type may be for a suffix.
Declarable(kind) == {"", "octet-stream", kind}

\* An upload is what its first bytes, its name and its media type say.
UploadError(u) ==
  FirstFault(<<
    <<u.bytes = "empty", "EMPTY_FILE">>,
    <<u.bytes = "large", "FILE_TOO_LARGE">>,
    <<u.suffix \notin {"pdf", "docx"}, "UNSUPPORTED_FORMAT">>,
    <<u.declared \notin Declarable(u.suffix), "FILE_TYPE_MISMATCH">>,
    <<u.suffix = "docx" /\ u.bytes = "ole", "UNSUPPORTED_WORD_CONTAINER">>,
    <<u.suffix = "pdf" /\ u.bytes # "pdf", "FILE_TYPE_MISMATCH">>,
    <<u.suffix = "docx" /\ u.bytes # "zip", "FILE_TYPE_MISMATCH">> >>)

------------------------------------------------------------------------------
(* The parsers: a document is a list of headers, a body and footers (DOCX)   *)
(* or the lines of its pages (PDF), and what is wrong with its container     *)
(* or is missing to read it.                                                *)

ArchiveChecks == <<
  <<"no_archive", "CORRUPT_DOCUMENT">>, <<"members", "EXTRACTION_LIMIT_EXCEEDED">>, <<"unsafe_name", "UNSAFE_DOCUMENT">>,
  <<"encrypted", "UNSAFE_DOCUMENT">>, <<"macro_part", "UNSAFE_DOCUMENT">>,
  <<"expanded", "EXTRACTION_LIMIT_EXCEEDED">> >>

PackageChecks == <<
  <<"no_xml_parser", "EXTRACTOR_UNAVAILABLE">>, <<"xml_size", "EXTRACTION_LIMIT_EXCEEDED">>,
  <<"xml_entities", "UNSAFE_DOCUMENT">>, <<"types_root", "CORRUPT_DOCUMENT">>, <<"main_type", "FILE_TYPE_MISMATCH">>,
  <<"macro_type", "UNSAFE_DOCUMENT">>, <<"office_relation", "FILE_TYPE_MISMATCH">>,
  <<"external_target", "UNSAFE_DOCUMENT">>, <<"no_body", "CORRUPT_DOCUMENT">> >>

HeaderChecks == <<
  <<"header_relation", "UNSAFE_DOCUMENT">>, <<"header_root", "CORRUPT_DOCUMENT">> >>

PdfChecks == <<
  <<"no_pdf_parser", "EXTRACTOR_UNAVAILABLE">>, <<"unreadable", "CORRUPT_DOCUMENT">>,
  <<"encrypted_pdf", "ENCRYPTED_DOCUMENT">>, <<"stream_size", "EXTRACTION_LIMIT_EXCEEDED">> >>

Faults(kind) ==
  LET checks == IF kind = "pdf" THEN PdfChecks ELSE ArchiveChecks \o PackageChecks \o HeaderChecks
  IN {checks[i][1] : i \in DOMAIN checks}

ContainerError(kind, faults) ==
  LET checks == IF kind = "pdf" THEN PdfChecks ELSE ArchiveChecks \o PackageChecks \o HeaderChecks
  IN FirstFault([i \in DOMAIN checks |-> <<checks[i][1] \in faults, checks[i][2]>>])

\* What a document is made of.
Runs  == [tag : STRING, text : Texts]
Nodes == [tag : {"p"}, runs : Seq(Runs)] \cup [tag : {"tbl"}, cells : Seq(Seq(Runs))]

\* A run of a paragraph shows its text unless it is a deleted revision, a
\* drawing or a field's instruction.
ParagraphText(runs) ==
  FlattenSeq([i \in DOMAIN runs |-> IF runs[i].tag = "t" THEN runs[i].text ELSE <<>>])

\* Paragraphs in document order, a table's cells row by row (one level here).
BlocksOf(nodes) ==
  FlattenSeq([i \in DOMAIN nodes |->
    CASE nodes[i].tag = "p"    -> <<ParagraphText(nodes[i].runs)>>
      [] nodes[i].tag = "tbl"  -> [c \in DOMAIN nodes[i].cells |-> ParagraphText(nodes[i].cells[c])]
      [] OTHER                 -> <<>>])

DocxBlocks(doc) == BlocksOf(doc.headers) \o BlocksOf(doc.body) \o BlocksOf(doc.footers)

\* The lines of a page are one block.
Joined(parts, gap) ==
  FoldLeft(LAMBDA text, part : IF text = <<>> THEN part ELSE text \o gap \o part, <<>>, parts)

PdfBlocks(doc) == [p \in DOMAIN doc.pages |-> Joined(BlocksOf(doc.pages[p]), <<"nl">>)]

TotalLen(blocks) == FoldLeft(LAMBDA n, b : n + Len(b), 0, blocks)

\* extract_pdf / extract_docx: the blocks, or the code of the first obstacle.
Parsed(kind, doc) ==
  LET blocks == IF kind = "pdf" THEN PdfBlocks(doc) ELSE DocxBlocks(doc)
      error  == FirstFault(<<
        <<ContainerError(kind, doc.faults) # "", ContainerError(kind, doc.faults)>>,
        <<kind = "pdf" /\ Len(doc.pages) > MaxPages, "EXTRACTION_LIMIT_EXCEEDED">>,
        <<TotalLen(blocks) > MaxTextChars, "EXTRACTION_LIMIT_EXCEEDED">> >>)
  IN [error |-> error, blocks |-> IF error = "" THEN blocks ELSE <<>>]

------------------------------------------------------------------------------
(* Assembly, and the evidence it leaves *)

Cleaned(block) == Strip(Filtered(block, LAMBDA t : t # "ctl"))

\* Where each part begins when two line breaks separate them.
Starts(parts) ==
  LET at[i \in DOMAIN parts] == IF i = 1 THEN 0 ELSE at[i - 1] + Len(parts[i - 1]) + 2
  IN at

\* A mutant of Assembled: it trusts the parsers with the limit, which count the
\* blocks without the line breaks between them.
AssembledUncounted(blocks, document, version) ==
  LET parts  == Filtered([b \in DOMAIN blocks |-> Cleaned(blocks[b])], LAMBDA t : t # <<>>)
      starts == Starts(parts)
  IN [error |-> IF parts = <<>> THEN "NO_EXTRACTABLE_TEXT" ELSE "",
      source |-> [text |-> Joined(parts, <<"nl", "nl">>),
                  evidence |-> [i \in DOMAIN parts |->
                    [document |-> document, version |-> version, chunk |-> i,
                     start |-> starts[i], end |-> starts[i] + Len(parts[i]),
                     excerpt |-> parts[i]]]]]

\* assemble_text: one chunk of evidence per block that has any text.
Assembled(blocks, document, version) ==
  LET parts  == Filtered([b \in DOMAIN blocks |-> Cleaned(blocks[b])], LAMBDA t : t # <<>>)
      text   == Joined(parts, <<"nl", "nl">>)
      starts == Starts(parts)
      error  == FirstFault(<<
        <<Len(text) > MaxTextChars, "EXTRACTION_LIMIT_EXCEEDED">>,
        <<parts = <<>>, "NO_EXTRACTABLE_TEXT">> >>)
  IN [error |-> error,
      source |-> [text |-> text,
                  evidence |-> [i \in DOMAIN parts |->
                    [document |-> document, version |-> version, chunk |-> i,
                     start |-> starts[i], end |-> starts[i] + Len(parts[i]),
                     excerpt |-> parts[i]]]]]

\* validate_source, with the identity a processor is made for.
SourceError(source, document, version) ==
  LET ev   == source.evidence
      prev == [i \in DOMAIN ev |-> IF i = 1 THEN 0 ELSE ev[i - 1].end]
      last == IF ev = <<>> THEN 0 ELSE Last(ev).end
  IN FirstFault(<<
       <<Len(source.text) > MaxTextChars, "NLP_TEXT_TOO_LONG">>,
       <<ev = <<>>, "INVALID_EVIDENCE">>,
       <<Cardinality({<<ev[i].document, ev[i].version>> : i \in DOMAIN ev}) # 1, "INVALID_EVIDENCE">>,
       <<\E i \in DOMAIN ev :
           \/ ev[i].start < prev[i] \/ ev[i].end > Len(source.text)
           \/ Slice(source.text, ev[i].start, ev[i].end) # ev[i].excerpt
           \/ \E k \in 1..(i - 1) : ev[k].chunk = ev[i].chunk
           \/ Strip(Slice(source.text, prev[i], ev[i].start)) # <<>>, "INVALID_EVIDENCE">>,
       <<Strip(Slice(source.text, last, Len(source.text))) # <<>>, "INVALID_EVIDENCE">>,
       <<\E i \in DOMAIN ev : <<ev[i].document, ev[i].version>> # <<document, version>>,
         "INVALID_EVIDENCE">> >>)

\* normalize_text: white space folds into the blank between two words, and
\* each word that is left knows the span it came from.
Normalized(text) ==
  LET kept == {i \in DOMAIN text : text[i] \notin Blank}
  IN [text |-> Picked(text, kept),
      offsets |-> Picked([i \in DOMAIN text |-> [start |-> i - 1, end |-> i]], kept)]

SourceSpan(normalized, start, end) ==
  [start |-> normalized.offsets[start + 1].start, end |-> normalized.offsets[end].end]

\* A mutant of Clipped: a chunk that is touched is quoted whole.
ClippedNot(source, start, end) ==
  Filtered(source.evidence, LAMBDA e : e.start < end /\ e.end > start)

\* The part of each chunk that lies in a span of the source.
Clipped(source, start, end) ==
  LET ev    == source.evidence
      lo(i) == Max({start, ev[i].start})
      hi(i) == Min({end, ev[i].end})
  IN Picked([i \in DOMAIN ev |->
               [ev[i] EXCEPT !.start = lo(i), !.end = hi(i),
                             !.excerpt = Slice(source.text, lo(i), hi(i))]],
            {i \in DOMAIN ev : lo(i) < hi(i)})

\* evidence_for, for a span of the normalised text.
EvidenceFor(source, normalized, start, end) ==
  LET span == SourceSpan(normalized, start, end)
  IN Clipped(source, span.start, span.end)
==============================================================================
