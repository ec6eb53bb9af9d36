----------------------------- MODULE MCInventory -----------------------------
EXTENDS Inventory

MCWords == STRING

S(id, kind, name, host, port) ==
  [id |-> id, kind |-> kind, name |-> name, host |-> host, port |-> port, attr |-> "", guess |-> ""]
K(host) == <<"ssh", host, "22">>

\* Two folders: two SSH devices and a console at one of their hosts; one
\* device of a name that the other folder also uses.
MCFile ==
  <<[name |-> "F", sessions |-> <<S(1, "ssh", <<"sw">>, "a", "22"), S(2, "ssh", <<"b">>, "b", "22")>>],
    [name |-> "G", sessions |-> <<S(3, "ssh", <<"sw">>, "a", "2022"), S(4, "telnet", <<"con">>, "a", "23")>>]>>

Save(folder, key, name, host, attr) ==
  [op |-> "save", folder |-> folder, key |-> key,
   session |-> [S(0, "ssh", name, host, NoPort) EXCEPT !.attr = attr]]
OnKeys(op, ks) == [op |-> op, keys |-> ks]
MCEdits ==
  {Save("F", NoKey, NoName, h, "") : h \in {"a", "c"}}
  \union {Save("", K(k[1]), <<"sw">>, k[2], "x") : k \in {<<"a", "a">>, <<"a", "c">>, <<"b", "a">>, <<"c", "b">>, <<"b", "c">>}}
  \union {OnKeys("delete", <<K("a")>>), OnKeys("delete", <<K("a"), K("b")>>),
          [op |-> "move", keys |-> <<K("b"), K("c")>>, to |-> "G"],
          [op |-> "rename_folder", folder |-> "F", to |-> "H"]}
\* A swap in one list; a list whose last edit fails; the rest of the edits, with
\* an address vacated and given to a new device, which is re-keyed in the last.
MCCalls ==
  {<<Save("", K("a"), <<"sw">>, "c", ""), Save("", K("b"), <<"b">>, "a", ""), Save("", K("c"), <<"sw">>, "b", "")>>,
   <<OnKeys("delete", <<K("b")>>), Save("G", NoKey, <<"n">>, "b", Unknown)>>,
   <<[op |-> "patch", keys |-> <<K("b"), K("a")>>, attr |-> "y"], [op |-> "add_folder", to |-> "E"],
     Save("", K("b"), <<"b">>, "c", ""), Save("E", NoKey, <<"n">>, "b", ""), Save("", K("c"), <<"b">>, "d", "")>>,
   <<Save("F", NoKey, NoName, "c", ""), [op |-> "remove_folder", folder |-> "G"]>>,
   <<Save("", K("b"), <<"b">>, "c", ""), Save("G", NoKey, <<"n">>, "b", ""), Save("", K("b"), <<"n">>, "d", "")>>}
\* A list with an entry twice and one the tree has too; patterns by name, by host.
MCRequests ==
  {[devices |-> <<>>, listed |-> NoList, match |-> {}],
   [devices |-> <<<<"z">>, <<"a", "2022">>>>, listed |-> <<<<"z">>, <<"c">>>>, match |-> {}],
   [devices |-> <<<<"a", "2022">>>>, listed |-> NoList, match |-> {{<<"sw">>}, {<<"b">>}}]}
MCConfirmed == [h \in {"c"} |-> <<"known">>]
MCMaps ==
  {[folder |-> "F", nodes |-> <<[id |-> 0, name |-> <<"b">>, ip |-> "c", platform |-> "ios"],
                               [id |-> 0, name |-> <<"d">>, ip |-> "c", platform |-> "eos"],
                               [id |-> 0, name |-> <<"sw">>, ip |-> NoHost, platform |-> ""]>>]}
==============================================================================
