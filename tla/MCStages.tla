------------------------------ MODULE MCStages ------------------------------
(* One stage of every kind; three providers, one of them paged; names      *)
(* for a bound of two or three; lists with a duplicate, a bad line and one *)
(* value too many.                                                         *)
EXTENDS Stages

CONSTANTS certspotter, crtsh, crtname, n1, n2

MCConnectors == <<certspotter, crtsh, crtname>>

MCOnCancel ==
  [s \in {"dns", "javascript-extraction", "subfinder", "httpx-fingerprint", "ct",
          "discovered-dns", "discovered-http", "directory-discovery",
          "vhost-discovery", "javascript-bundles"} |->
     CASE s \in {"dns", "javascript-extraction", "subfinder", "httpx-fingerprint"} -> "raises"
       [] s \in {"ct", "vhost-discovery", "javascript-bundles"} -> "silent"
       [] OTHER -> "told"]

MCOffers == {<<{"ct"}, {"operator"}, {"ct", "subfinder"}>>,
             <<{"ct"}, {"ct"}, {"subfinder"}, {"ct"}>>}

MCLines == {<<"a", "", "a", "b", "#?">>, <<"b", "a", "c">>, <<"a", "b", "c", "a", "d">>, <<>>}
=============================================================================
