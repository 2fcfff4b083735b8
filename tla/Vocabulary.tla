----------------------------- MODULE Vocabulary -----------------------------
(***************************************************************************)
(* What the program's patterns make of strings.  A string is a TLA+        *)
(* string, never taken apart: each pattern is the set of strings it lets   *)
(* pass, a reference or a list is looked up by its text.                   *)
(***************************************************************************)
EXTENDS Integers

CONSTANTS
  Labels,             \* DNS-1123 labels
  StorageClasses,     \* DNS-1123 subdomains
  GoEntrypoints,      \* what validate_go_entrypoint lets pass
  PythonEntrypoints,  \* what validate_python_entrypoint lets pass
  ProbePaths,         \* what validate_probe_path lets pass
  ModuleSegments,     \* path segments of [A-Za-z0-9_.-] other than ".."
  Images,   \* the parts of an image reference: [wellFormed, tag, digest]
  Peers     \* the entries of a list of network peers: [exact, namespace, port]

Ports == 1 .. 65535   \* what validate_port lets pass
=============================================================================
