----------------------------- MODULE MCSshMounts -----------------------------
EXTENDS SshMounts, TLC

\* /top/, which is written with the slash, the file /top/file, /top/sub and /other.
MCDir    == ("top" :> "top/") @@ ("file" :> "top") @@ ("sub" :> "sub") @@ ("other" :> "other")
MCPlace  == ("top/" :> "top") @@ ("top" :> "top") @@ ("sub" :> "sub") @@ ("other" :> "other")
MCAbove  == ("sub" :> {"top"}) @@ ("top" :> {}) @@ ("other" :> {})
MCDepth  == ("top" :> 1) @@ ("file" :> 2) @@ ("sub" :> 2) @@ ("other" :> 1)
=============================================================================
