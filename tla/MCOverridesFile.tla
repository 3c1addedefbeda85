--------------------------- MODULE MCOverridesFile ---------------------------
EXTENDS OverridesFile

\* The operator saves any bundle or a broken file, or removes the file.
AnySave == Bundle \cup {Absent, Broken}
=============================================================================
