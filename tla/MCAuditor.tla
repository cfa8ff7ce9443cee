------------------------------ MODULE MCAuditor ------------------------------
(* An instance of Auditor for TLC: a device without a target for its log, the  *)
(* same text without its last line, which does not parse, or a clean one       *)
(* exported without its policies, which only the gate of a collection notices. *)
(* The finding of the log has a suppression that expires.                      *)
EXTENDS Auditor, Configurations, TLC

Silent == TextOf([Clean EXCEPT !.syslog = "absent"], "plain")
Cut    == SubSeq(TextOf(Clean, "plain"), 1,
                  SelectInSeq(TextOf(Clean, "plain"), LAMBDA l : l = Config(Policy)) - 1)

Torn   == Front(Silent)

MCTexts    == {Silent, Torn, Cut}
MCParsing  == {Silent, Cut}
MCRequired == Begun(Silent)
MCExpires  == [f \in Findings |-> IF f.rule = "no-syslog-target" THEN 1 ELSE 0]

Explained == {{FingerprintOf(x) : x \in Defects(d)} : d \in Devices} \cup {{Incomplete}}

\* What the store holds of a device is what is wrong with a device it may be, or
\* that its text was incomplete.  Beside that it says of a corpus of texts, each
\* device of Devices in each style: the findings are the same in every style, with
\* fingerprints that a baseline can rely on and lines that can be looked at; three
\* of these devices, cut after any line, are unreadable, incomplete or have the
\* same findings, in the styles that begin no section twice; and one text with a
\* value that ends in a backslash is refused.  Texts with two such values are not
\* in the corpus, they are misread.  (l1_fortios.parse, engine.run,
\* collect.missing_sections)
FindingsAreDefects ==
  /\ CorpusAgrees
  /\ \A i \in DOMAIN runs : runs[i].findings \in Explained

Symmetry == Permutations(Audits)

=============================================================================
