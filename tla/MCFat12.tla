------------------------------- MODULE MCFat12 -------------------------------
(* Small disks and call arguments for model checking Fat12.                 *)
EXTENDS Fat12, TLC

AllCalls == {"create", "write", "append", "rename", "delete", "mkdir", "rmdir"}

FiveCalls == {"create", "write", "rename", "delete", "mkdir"}

(* Two 8.3 names and one that set_name rejects.                             *)
CONSTANTS A, B, long

(* Nothing tells the two apart.                                             *)
Alike == Permutations({A, B})

WithEmpty == {<< >>, <<"x">>, <<"y", "x">>}

NoTwins == {<<"x">>, <<"y">>}

OneChunk == {<< >>, <<"x">>}

BeforeRoot == {"idle", "data", "root"}

Anywhere == {"idle", "data", "root", "flush"}
=============================================================================
