---------------------------- MODULE MCRemoteTree ----------------------------
(* "/", "/a", "/a/b" and "/a/b/c" or "/d" may be there; the remote side    *)
(* lists parents first, or prints a line that is too long.                 *)
EXTENDS RemoteTree

a == <<"a">>
b == <<"a", "b">>
c == <<"a", "b", "c">>
d == <<"d">>

MCPath == {<<>>, a, b, c, d}

MCListings ==
  {<<a, b, c, d>>, <<d, a, b>>, <<a, d, b, c>>, <<b, c>>, <<<<>>, d, a>>, <<>>,
   <<a, TooLong, b>>, <<a, b, TooLong, c>>}
=============================================================================
