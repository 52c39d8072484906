----------------------------- MODULE JsonStore -----------------------------
(* A small JSON file of the temp directory that several short-lived processes *)
(* read whole and write whole, with no lock: the cache of session-tokens.mjs  *)
(* and the store of design-lint.mjs.  writeFileSync opens the file, which     *)
(* empties it, and then writes; a process may die, and others may read and    *)
(* write, between the two.                                                    *)

CONSTANTS NoFile,  \* absent or empty
          Torn,    \* text that is not one JSON value
          None     \* null

\* JSON.parse of the text: a value, or the exception that both readers catch.
Readable(file) == file \notin {NoFile, Torn}

\* open(path, O_TRUNC)
Opened(file) == NoFile

\* The text lands in an empty file as it is; over the text of another writer,
\* whose tail sticks out when it is the longer one.
Filled(file, value) == IF file = NoFile THEN {value} ELSE {value, Torn}

\* The write fails (a full disk): nothing of the text has landed, or a part.
Unfilled(file) == {file, Torn}
=============================================================================
