-------------------------- MODULE MCConfiguration --------------------------
(***************************************************************************)
(* Two runs at a time, two of the valid keys, two values: two keys of      *)
(* value 2 fill the buffer; files written by hand: none, a number, a key   *)
(* twice.                                                                  *)
(***************************************************************************)
EXTENDS Configuration

HandwrittenFiles == { << <<"hostname", 2>> >>,
                      << <<"hostname", NotString>> >>,
                      << <<"hostname", 1>>, <<"hostname", 2>> >>,
                      << <<"rpc-auth", 1>>, <<"hostname", 1>> >> }
=============================================================================
