------------------------------- MODULE Cleaning -------------------------------
(***************************************************************************)
(* What is removed: cleanBuildset, cleanPath and cleanOutputDir in         *)
(* Abuild-build.cc, and isBuildItemWritable in Abuild-misc.cc.  Removing   *)
(* is at the grain of directories.                                         *)
(***************************************************************************)
EXTENDS CommandLine

at_or_above(path) == {SubSeq(path, 1, n) : n \in 0..Len(path)}

\* Mutant: the outermost directory that was given decides, not the innermost.
isBuildItemWritable_outermost(s, path) ==
  LET given == at_or_above(path) \cap (s.ro_paths \cup s.rw_paths)
      decides == {p \in given : \A q \in given : Len(p) <= Len(q)}
  IN IF given = {} THEN s.default_writable ELSE decides \cap s.ro_paths = {}

\* For items that are not backed
isBuildItemWritable(s, path) ==
  LET given == at_or_above(path) \cap (s.ro_paths \cup s.rw_paths)
      decides == {p \in given : \A q \in given : Len(q) <= Len(p)}
  IN IF given = {} THEN s.default_writable ELSE decides \cap s.ro_paths = {}

matches(pattern, platform) == pattern.kind = "glob" /\ platform \in pattern.platforms

toRemove(fs, s, dir) ==
  {p \in DOMAIN fs :
     /\ p # <<>>
     /\ Front(p) = dir
     /\ Last(p) \in DOMAIN Platforms
     /\ isFile(fs, p, ".abuild")
     /\ s.clean_platforms = <<>> \/ \E n \in DOMAIN s.clean_platforms :
                                       matches(s.clean_platforms[n], Platforms[Last(p)])}

atOrUnder(fs, path) == {p \in DOMAIN fs : IsPrefix(path, p)}

cleanPath(fs, s, dir) == UNION {atOrUnder(fs, p) : p \in toRemove(fs, s, dir)}

cleanOutputDir(fs, s) == atOrUnder(fs, s.current_directory) \ {s.current_directory}

\* A removal may fail at any directory, when what is below it is gone already,
\* and goes on with the next output directory.
removeFileRecursively(fs, paths) ==
  {gone \in SUBSET paths : \A p \in gone : atOrUnder(fs, p) \subseteq gone}
=============================================================================
