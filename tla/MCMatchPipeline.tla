--------------------------- MODULE MCMatchPipeline ---------------------------
EXTENDS MatchPipeline

T(words) == [tag |-> "t", text |-> words]
P(words) == [tag |-> "p", runs |-> <<T(words)>>]

MCAliases == {
  [words |-> <<"java">>, name |-> <<"java">>],
  [words |-> <<"javascript">>, name |-> <<"javascript">>],
  [words |-> <<"java", "script">>, name |-> <<"javascript">>],
  [words |-> <<"machine", "learning">>, name |-> <<"machine", "learning">>]}
MCSkillNames == << <<"java">>, <<"javascript">>, <<"machine", "learning">> >>
MCInside == {<<"java", "javascript">>}

MCHeadings ==
  <<"skills">> :> "skills" @@ <<"experience">> :> "experience" @@ <<"education">> :> "education"
  @@ <<"projects">> :> "projects" @@ <<"interests">> :> "ignore"

Month(y, m) == [unit |-> "month", year |-> y, month |-> m]
MCCalendar ==
  "2024-01" :> Month(2024, 1) @@ "2024-03" :> Month(2024, 3) @@ "2024-04" :> Month(2024, 4)
  @@ "2024-06" :> Month(2024, 6) @@ "2024-13" :> Month(2024, 13)
  @@ "2023" :> [unit |-> "year", year |-> 2023, month |-> 0]
  @@ "present" :> [unit |-> "present", year |-> 0, month |-> 0]
MCNow == 2024 * 12 + 4   \* May 2024

MCRoleWords == {"engineer"}
MCDegreeWords == {"bsc"}
MCInstitutionWords == {"university"}
MCTaskVerbs == {"built"}
MCCapitals == {"VOLUNTEER", "WORK"}

MCParagraphs == {
  P(<<"skills", ":", "java">>),
  P(<<"skills", "nl", "no", "java", ".", "machine", "learning", ",", "javascript">>),
  P(<<"script", "tab", "nl", "interests", "nl", "java">>),
  P(<<"experience", "nl", "engineer", "at", "acme", "2024-01", "to", "2024-04", "nl", "built", "java">>),
  P(<<"experience", "nl", "engineer", "|", "2024-03", "to", "present", "nl", "company", ":", "initech">>),
  P(<<"experience", "nl", "2024-03", "to", "2024-03", "nl", "title", ":", "engineer", "nl", "2023", "to", "2024-13", "nl",
      "VOLUNTEER", "WORK", "nl", "java">>),
  P(<<"education", "nl", "bsc", "at", "university", "nl", "institution", ":", "university">>),
  P(<<"*", "ctl", "machine", "nl", "projects", ":", "project", ":", "java", "|">>),
  P(<<"projects", "nl", "javascript", "nl", "project", ":", "|", "java", "nl", "learning", ":", "script">>),
  [tag |-> "tbl", cells |-> << <<T(<<"ctl", "tab">>)>>, <<T(<<"experience">>)>>,
     <<T(<<"engineer", "2024-03">>), [tag |-> "del", text |-> <<"java">>], T(<<"to", "2024-03">>)>> >>] }

MCUploads ==
  {[bytes |-> "pdf", suffix |-> "pdf", declared |-> "pdf"],
   [bytes |-> "zip", suffix |-> "docx", declared |-> ""],
   [bytes |-> "ole", suffix |-> "docx", declared |-> "docx"],
   [bytes |-> "zip", suffix |-> "pdf", declared |-> "octet-stream"],
   [bytes |-> "pdf", suffix |-> "pdf", declared |-> "docx"]}

MCBackends ==
  {[client |-> "remote", whole |-> TRUE, model |-> "minilm"],
   [client |-> "remote", whole |-> TRUE, model |-> "other"],
   [client |-> "remote", whole |-> FALSE, model |-> "minilm"],
   [client |-> "local", whole |-> TRUE, model |-> "hash"]}

Page(nodes, blocks) == [nodes |-> nodes, blocks |-> blocks]
Node(tag, text) == [tag |-> tag, text |-> text]
MCPagesOf == <<
  {Page(<<Node("title", <<"engineer", "at", "acme">>), Node("script", <<"java">>),
          Node("p", <<"java", "required", ".", "learning", "javascript">>)>>, <<>>),
   Page(<<Node("title", <<"engineer">>), Node("p", <<"apply", "now">>)>>,
        <<[broken |-> TRUE, items |-> <<>>],
          [broken |-> FALSE, items |->
             <<[type |-> "Organization", title |-> <<>>, org |-> <<>>, nested |-> FALSE, description |-> <<>>],
               [type |-> "JobPosting", title |-> <<"engineer">>, org |-> <<"initech">>, nested |-> TRUE,
                description |-> <<"machine", "learning", "nl", "no", "java", ";", "java", "script",
                                  ".", "javascript">>]>>]>>),
   Page(<<>>, <<[broken |-> FALSE, items |->
     <<[type |-> "JobPosting", title |-> <<>>, org |-> <<"nl">>, nested |-> TRUE, description |-> <<>>]>>]>>),
   Page(<<Node("title", <<>>)>>, <<>>)},
  {Page(<<Node("p", <<"java", "is", "tab", "not", "required", "but", "basic", "java", "nl", "javascript">>)>>, <<>>)} >>
==============================================================================
