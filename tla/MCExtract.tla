----------------------------- MODULE MCExtract -----------------------------
(* Small books for TLC.                                                    *)
EXTENDS Extract

AllOptions == [all_resources |-> TRUE, images |-> TRUE, stylesheets |-> TRUE,
               navigation |-> TRUE, overlays |-> TRUE]
FewOptions == [AllOptions EXCEPT !.all_resources = FALSE, !.navigation = FALSE, !.stylesheets = FALSE]
MCOptions == {AllOptions, FewOptions}
Everything == {AllOptions}

\* A chapter in entry 2 of an archive of four, and a book made of it alone.
Item(id, entry) == [id |-> id, entry |-> entry, link |-> "entry", media |-> "markup",
                    nested |-> FALSE, fallback |-> Empty, overlay |-> Empty, nav |-> FALSE]
Book(manifest, itemrefs) ==
    [entries |-> 4, encryption |-> 0, mimetype |-> 0, container |-> 4, opf |-> 4, unusable |-> 0,
     encryption_says |-> "obfuscation", obfuscated |-> {}, claims_epub |-> FALSE,
     container_parses |-> TRUE, package_parses |-> TRUE,
     manifest |-> manifest, spine |-> itemrefs, toc |-> Empty]

\* Everything that is looked at before the manifest, and spines that fail.
HeaderBooks ==
    {[entries |-> 5, encryption |-> encryption, mimetype |-> mimetype, container |-> container,
      opf |-> opf, unusable |-> unusable, encryption_says |-> says, obfuscated |-> {5},
      claims_epub |-> parses[1], container_parses |-> parses[2], package_parses |-> parses[3],
      manifest |-> <<Item("a", 5), [Item("b", 0) EXCEPT !.link = "remote"], Item("c", 4),
                     [Item("d", 0) EXCEPT !.link = "unusable"]>>,
      spine |-> itemrefs, toc |-> Empty] :
        encryption \in {0, 1}, mimetype \in {0, 2}, container \in {0, 3}, opf \in {0, 4},
        unusable \in {0, 5}, says \in {"obfuscation", "drm", "malformed"},
        parses \in {<<TRUE, TRUE, TRUE>>, <<FALSE, TRUE, TRUE>>, <<TRUE, FALSE, TRUE>>, <<TRUE, TRUE, FALSE>>},
        itemrefs \in {<<"c">>, <<"c", "a">>, <<"c", "b">>, <<"c", "d">>, <<"c", "nothing">>}}

\* Three items over entries 1..3, in any arrangement, under every short spine.
WalkItems(id) ==
    {[Item(id, e) EXCEPT !.media = media] : e \in 0..3, media \in {"markup", "image"}}
    \cup {[Item(id, 3) EXCEPT !.media = "stylesheet"],
          [Item(id, 0) EXCEPT !.link = "remote"], [Item(id, 2) EXCEPT !.nested = TRUE]}
WalkBooks ==
    {[Book(<<a, b, c>>, itemrefs) EXCEPT
         !.encryption = IF obfuscated = {} THEN 0 ELSE 4, !.obfuscated = obfuscated] :
        a \in WalkItems("a"), b \in {i \in WalkItems("b") : i.link = "entry"},
        c \in {i \in WalkItems("c") : i.media # "image"},
        itemrefs \in {<<"a">>, <<"c", "a">>, <<"b", "b">>}, obfuscated \in {{}, {2}}}

\* A book narrated and navigated by items that may share entries with each
\* other, with the chapters and with the resources.
OverlayItems(id) ==
    {[Item(id, e) EXCEPT !.media = media, !.overlay = overlay, !.nav = nav] :
        e \in 1..2, media \in {"markup", "other"}, overlay \in {Empty, "c"}, nav \in BOOLEAN}
PrereadBooks ==
    {[Book(<<a, b, [c EXCEPT !.media = "other", !.overlay = overlay]>>, itemrefs) EXCEPT !.toc = toc] :
        a \in {i \in OverlayItems("a") : ~i.nav}, b \in OverlayItems("b"),
        c \in {Item("c", e) : e \in {0, 2}} \cup {[Item("c", 0) EXCEPT !.link = "unusable"]},
        overlay \in {Empty, "b"},
        itemrefs \in {<<"a">>, <<"b", "a">>, <<"a", "a">>}, toc \in {Empty, "c"}}

\* Fallback chains of every shape over four items, cycles included; the last
\* item is narrated by one that may be missing.
FallbackItems(id) ==
    {[Item(id, e) EXCEPT !.media = media, !.fallback = fallback] :
        e \in {0, 2}, media \in {"markup", "image"}, fallback \in {Empty, "a", "b", "c", "d", "nothing"}}
FallbackBooks ==
    {Book(<<a, b, c, d>>, <<"a">>) :
        a \in FallbackItems("a"), b \in FallbackItems("b"),
        c \in {i \in FallbackItems("c") : i.entry = 2 /\ i.media = "markup"},
        d \in {[Item("d", 3) EXCEPT !.fallback = "a", !.overlay = "b"]}}

AllBooks == HeaderBooks \cup WalkBooks \cup PrereadBooks \cup FallbackBooks

\* A manifest item written without an id.
AnonymousBooks == {Book(<<Item("a", 1), [Item(id, 2) EXCEPT !.media = "image"]>>, <<"a">>) : id \in {"b", Empty}}
=============================================================================
