# Formal models of libfreelan

TLA+ models of the libfreelan sources under `src/`. They are checked with TLC
on small instances, and four of them have TLAPS proofs that hold for every value
of their constants. `PROJECT.json` records how each definition maps to the code
lines it models, the runs, the mutants that show each property can fail, the
findings and the hazards.

## 1. Inventory of the system

The repository has three parts.

**Network addresses** live in `include/freelan/ip_network_address.hpp` and
`src/ip_network_address.cpp`.

- `base_ip_network_address<AddressType>` is an immutable value: an address and
  an `unsigned int` prefix length. The default constructor gives the null
  network `0.0.0.0/0` or `::/0`. `is_null` compares a value with that default.
- `has_address(addr)` is a loop over the big-endian bytes (cpp 86-115). It
  compares whole bytes while at least 8 prefix bits remain. It compares the
  first byte with fewer than 8 remaining bits under the mask
  `(0xFF >> prefix_len) ^ 0xFF`, and returns true when it runs out of bytes.
- `ip_network_address` is `boost::variant<ipv4_network_address,
  ipv6_network_address>`. Its containment visitor tests the probe's family
  before it converts the probe (hpp 252-285). `has_address(begin, end, addr)`
  searches a list and stops at the first element that contains the probe
  (hpp 318-328).
- Text I/O: `operator<<` writes `address/prefix` (cpp 137-141). The family
  `operator>>` (cpp 120-132) relies on `read_ip_address_prefix_length`
  (cpp 57-83). That function reads an address, expects a `/`, and reads digits.
  On a partial read it puts the consumed text back and sets failbit. The
  variant `operator>>` (cpp 146-175) tries IPv6 first, clears the stream, then
  tries IPv4, and clears the stream again.
- The character-level helpers `read_ip_address`, `read_prefix_length` and
  `putback` are only declared in `src/stream_operations.hpp`. Their bodies are
  not in `src/`, so their definitions are modelled from spec.md 4.1 and marked
  `spec_modelled`.

**The HTTP client** lives in `src/client.cpp`. `configure_request` sets up a
curl handle. `perform_request` clears the shared buffer `m_data`, performs the
request (the write callback `read_data` appends to `m_data`), requires status
200 and `application/json`, and decodes a flat JSON object into a string map.
`get_server_information` reads `name`, `major` and `minor` with
`lexical_cast<unsigned int>`.

**`switch_port`** is a pure abstract interface with no state.

### Hard behaviours

- Stream state flags:
  - Reading is guarded by `good()` (cpp 60), but the family `operator>>` tests
    `!fail()` (cpp 126).
  - Putbacks on partial reads (cpp 70 and 76).
  - The variant's `clear()` calls (cpp 158 and 171).
- Off-by-one at byte boundaries in the mask (cpp 105), and prefixes longer than
  the address.
- The family test before the conversion (`is_v4() && to_v4()`, hpp 269 and 279).
- The shared buffer `m_data` between requests and the callback (client.cpp 250
  and 334).
- `lexical_cast<unsigned int>` on untrusted text (cpp 128, client.cpp 109).

The code is single-threaded: each call runs to completion. The interleavings
that matter are sequences of calls on one stream by one caller, not threads.

## 2. Modules

| Module | Models | State / actions |
|---|---|---|
| `PrefixBits` | bit `k` of a big-endian byte array; `PrefixMatch` (first `plen` bits agree) | constant operators |
| `HasAddressContract` | what `has_address` promises (hpp 115-120 doc) | `returned`, `result`; one atomic `Return` |
| `HasAddress` | the `has_address` loop, one iteration per step | the inputs, `prefix_len`, `i`, `pc`, `ret`; actions `CompareFullByte` (96-101), `CompareMaskedByte` (103-110), `EndOfBytes` (114) |
| `NetworkAddressStream` | stream extraction for both families and the variant | `input` (tokens), `pos`, `eof`, `fail`, the caller's `value`, `result`; actions `ReadFamilyNet(f)`, `ReadNet`, `ClearState` (the caller's `is.clear()`) |
| `AddressList` | the variant containment visitor and the list search | `list`, `addr`, `it`, `pc`, `ret`; actions `VisitElement` (321-325), `EndOfList` (327) |
| `Client` | `client.cpp`: constructor, `connect`, `configure_request`, `get_server_information`, `perform_get_request`, `perform_request`, `read_data`, `json_to_values`, `has_value` / `assert_has_value` | `cfg`, `m_scheme`, the curl handle `request`, `m_data`, the server's `reply` and how much of it was `sent`, `pc`, `calls`, `result`, `info`; actions `Connect` (up to `perform()`), libcurl's `Accept` (with the TLS check), `Refused`, `ConnectTimeout`, `ReadData` (the write callback), `TransferReset`, `TransferComplete`, `Finish` (the checks after `perform()`) |
| `HasAddressProofs`, `NetworkAddressStreamProofs`, `AddressListProofs`, `ClientProofs` | TLAPS proofs | |
| `MC_*` | the TLC instances | |

How `HasAddress` maps to the code:

- The loop variables are the C++ locals.
- `Mask` is the byte arithmetic of line 105. A right shift by `plen` is
  `\div 2^plen`, and the xor with 0xFF of an 8-bit value is `255 - x`.
- `&` is the recursive function `BitAnd`, so the module stays provable.
- `HasAddress` refines `HasAddressContract` through `INSTANCE ... WITH`, with
  `returned <- pc = "done"`. Every loop step before the return is a stutter of
  the contract.

How `NetworkAddressStream` represents the text:

- The text is abstracted to tokens: an address of a family, address characters
  no family accepts, `/`, digits that fit an `unsigned int`, digits that
  overflow it, and any other character.
- A reader consumes its token or fails. Peeking at the end sets eofbit.
- `putback` moves back and clears eofbit.
- `from_string` / `lexical_cast` throw on a string that is not an address or a
  number. That covers the empty string, and digits out of range.
- `Tokens` holds only well-formed tokens: only an address text has a family,
  and only an address or a digit run that fits carries a value.
- A stream state is a record `[pos, eof, fail]`. Each stream operation
  (`Consume`, `Reject`, `SetFail`, `Clear`, `Putback`, `Ignore`) builds a new
  record literal.
- The readers are chains of `IF` that follow the nesting of the code's `if`s,
  in the code's order.

`Client` keeps the control of `connect()` and abstracts the data: a reply
is a record (does the server accept, its certificate, does the transfer
break or stall, the status code, the content type, the body), the body a
sequence of JSON tokens whose concatenation rapidjson accepts as an object,
an array or a syntax error, and a JSON string one of the text kinds the code
tells apart (a word, decimal digits, `-` and digits, empty).
`lexical_cast<unsigned int>` is modelled by what Boost does: digits in range,
a `-` sign negated modulo 2^`UIntBits`, anything else throws.  libcurl's own
behaviour (connect timeout, the certificate check under the verification
flags, calling the write callback per chunk) is the environment, one action
per step, so that the transfer can stop between any two chunks.

`AddressList` takes a network's own `has_address` as its contract
(`PrefixMatch`), which `HasAddress` establishes. It keeps the family test and
the search order.

## 3. Runs

| Run | cfg | Checks | Result |
|---|---|---|---|
| `has_address_loop` | `MC_HasAddress.cfg` | `TypeOK`, `LoopInvariant`, `ContractRefinement` | pass, 412,400 states |
| `stream_extraction` | `MC_NetworkAddressStream.cfg` | `TypeOK`, `FamilyAllOrNothing`, `FormatRoundTrip` | pass |
| `union_reports_success_on_failure` | `MC_NetworkAddressStream_union.cfg` | `NetAllOrNothing` | violation (finding) |
| `extraction_at_eof_throws` | `MC_NetworkAddressStream_eof.cfg` | `ExhaustedReadFails` | violation (finding) |
| `list_search` | `MC_AddressList.cfg` | `TypeOK`, `SearchCorrect` | pass |
| `client_connect` | `MC_Client.cfg` | `BufferHoldsCurrentReply`, `AuthenticatedInfo` | pass |
| `client_stalled_transfer_hangs` | `MC_Client_stall.cfg` | `CallReturns` | violation (finding) |
| `client_negative_version` | `MC_Client_version.cfg` | `VersionIsServerNumber` | violation (finding) |

Bounds and why they are enough:

- **has_address.** Two-byte addresses, with bytes drawn from `{0, 255}` and
  every single-bit value. Prefixes 0..17, 24 and 32.
  - Every bit position of both bytes can be the first differing bit, so every
    mask value is exercised.
  - Prefixes cover 0, every split inside both bytes, exact multiples of 8, and
    prefixes past the width, which require an exact match.
  - A wider address only repeats the whole-byte step. The proofs cover every
    width.
- **Streams.** Every writable text of up to four tokens over an alphabet with
  one IPv4 address, one IPv6 address and each other kind of token. Adjacent
  word tokens are excluded because they would run together as one word.
  - Four tokens hold a full `addr / num` plus one token after it, and every
    way to break it.
  - The caller may extract and clear in any order, so consecutive reads on one
    stream are covered.
- **Lists.** Up to three elements over four networks of both families, with
  prefixes 0, 1, 8 and 12, and probes of both families inside and outside
  them. This covers the first, middle and last holder, several holders,
  mixed families and the empty list.

- Client: two consecutive `connect()` calls (the second is the one that
  could see the first one's data), five configurations that take every
  branch of `configure_request`, and 16 replies: a valid one, one per check
  that fails (status 404, a content type with a charset, a syntax error, an
  array, a non-string value, a missing key, `-1`, a version past
  `unsigned int`, a word), a repeated name, each untrusted certificate kind,
  a broken transfer, a refused and a silent server.  `UIntBits` is 8: the
  wrap-around and the overflow do not depend on the width, and TLC's
  integers cannot hold 2^32.

The properties of the passing runs are safety properties, so those runs need
no fairness.  The one liveness property, `CallReturns`, is checked only by
the stalled-transfer run. It assumes `WF_vars(Perform)`: while a
`connect()` runs, the program sits in `perform()`, libcurl's connect timeout
fires (the 5 s of line 188; a timeout of 0 would mean libcurl's 300 s
default), and a server that accepted and keeps its connection up
eventually sends its next chunk.  The stalling server is exactly one that
does not, and the run shows the call then never returns.  The caller's next
`connect()` is not assumed to happen.  Each modelled function runs to
completion in one thread. `CHECK_DEADLOCK FALSE` is set where
the modelled call returns (pc = "done" is final).

Every property of a passing run has a mutant in `PROJECT.json`. The mutant is a
plausible bug in the mapped code, and TLC finds it:

- the mask without its xor;
- the whole-byte branch taken from 7 bits;
- no decrement after a matching byte;
- the `/` not put back;
- no `clear()` between the IPv6 and IPv4 attempts;
- `is.ignore()` of the `/` dropped, so the put-back reaches before the start
  of the text (caught by `TypeOK`);
- the family test dropped;
- the iterator skipping an element; for the client, `m_data` not cleared,
and the host-verification flag taken from the peer option.

The client's `TypeOK` is not in a run: no change to `client.cpp` could break
it, only changes to the model's environment.  `ClientProofs` proves it for
every instance instead.

## 4. Findings

1. **The variant extractor reports success when it reads nothing**
   (cpp 171). When neither family parses, `is.clear()` leaves the stream good,
   so `is >> value` is true and `value` keeps its previous or default value. A
   default `ip_network_address` is `0.0.0.0/0`, which contains every IPv4
   address. spec.md 4.2 and 7 require the parse to fail.
2. **An extraction after one that ended the input throws** (cpp 60 and 126).
   Reading `1.2.3.4/8` to the end of the input sets eofbit alone. The next
   extraction skips the read because `good()` is false, but passes `!fail()`,
   and `from_string("")` throws out of `operator>>`. A loop
   `while (is >> net)` over a well-formed text therefore ends in an exception.

3. **`connect()` can block for ever** (client.cpp 188).  Under "Set the
   timeout" only a connect timeout is set; a server that accepts and stops
   sending keeps `perform()` waiting with no timeout.
4. **A version "-1" is accepted** (client.cpp 109, a spec gap).
   `lexical_cast<unsigned int>("-1")` is 4294967295, so such a server passes
   `get_server_information`; spec.md does not say what a version text may be.

## 5. Proofs

`HasAddressProofs` proves two theorems for every `NBytes`, every set of byte
values within 0..255 and every set of natural prefixes:

- `TypeCorrect`: `Spec => []TypeOK`.
- `LoopCorrect`: `Spec => []LoopInvariant`.

The invariant says that while looping, `prefix_len = m_prefix_length - 8*i`
and the first `i` bytes are equal. Once returned, `ret` is `ByteWise`: each
byte agrees with the network at the prefix bits it carries, under the code's
own mask.

The invariant is inductive as it stands. Its loop clause is the strengthening
the return steps need:

- the mismatch return falsifies `ByteAgrees(i)`;
- the masked compare decides `ByteAgrees(i)`, and the bytes before and after
  it are already settled;
- running out of bytes leaves every byte agreeing.

`AddressListProofs` proves `SearchCorrectness` (`Spec => []SearchCorrect`)
and `ListTypeCorrect`, for every list, probe and address width.  The
inductive invariant adds that no element before the iterator is a holder;
a lemma says the visitor returns true exactly for holders.  A network's own
containment is an uninterpreted predicate in this proof, so it holds for
any implementation of it.

`NetworkAddressStreamProofs` proves three theorems for every set of input
texts:

- `StreamTypeCorrect`: `Spec => []TypeOK`.
- `FamilyAllOrNothingHolds`: `Spec => FamilyAllOrNothing`.
- `RoundTripCorrect`: `Spec => FormatRoundTrip`.

The readers are pure functions of a stream state, so the proofs rest on
lemmas about what each reader returns from any state within the text:

- `PrefixLengthRead`: `read_ip_address_prefix_length` either fails with the
  position unchanged, because both put-backs undo what was read, or it has
  read an address of the family, a `/` and a digit run.
- `FamilyReadResult`: a family's `operator>>` fails with the position
  unchanged, or throws, or succeeds. On success it has read exactly
  `Format` of the value it returns. This lemma uses the well-formedness of
  `Tokens`: a token is the record of its fields.
- `NetReadResult`: typing for the variant's extractor.
- `FamilyReadsText` and `FamilyRejectsOther`: on a good stream, a family
  extractor reads a text of its own family and fails on the other family's
  text without reading anything.
- `NetReadsText`: these two, together with `is.clear()` restoring a good
  stream, give the variant's round trip.

`TypeOK` is inductive as it stands: the lemmas keep the stream state within
the text. The two action properties follow from `[]TypeOK`, since each step
they constrain is decided by one reader call.

`ClientProofs` proves `BufferCorrect` (`Spec => []BufferHoldsCurrentReply`) for every
configuration set, reply set, number of calls and integer width.  The
invariant strengthens the buffer property with the reply being a sequence
and `sent` within its length; `ReadData` rests on a lemma (`PrefixAppend`:
appending element n+1 to the n-prefix gives the (n+1)-prefix, from
`SubSeqRecursiveSecond` and `AppendIsConcat`).

It also proves `ClientTypeCorrect` (`Spec => []TypeOK`). `info` is typed
through the `CHOOSE` of the last member of a name. That this member exists
is the lemma `BoundedMaxExists`: a non-empty set of naturals below a bound
has a greatest element. Its proof maps the set through `L - i` onto the
naturals and uses the library's `NatLessThanWellFounded` and `WFMin`, so no
induction is needed. A `-` sign is cast modulo 2^`UIntBits`, which stays a
natural.

`AuthenticatedInfoHolds` (`Spec => AuthenticatedInfo`) rests on the
inductive invariant `AuthInv`, which TLC checked on the `client_connect`
instance before the proof. It says:

- the handle is always `ConfigureRequest(cfg)`;
- over https, from the transfer on, libcurl accepted the reply's
  certificate under that handle.

The lemma `TlsUnderConfig` translates the handle's flags back to the
configuration.

Only TLC checks these:

- **The refinement `ContractRefinement`.** It identifies the masked-byte
  comparison with a bit-level prefix comparison. That needs what `BitAnd`
  computes for every input, and `BitAnd` is a recursive function, so it would
  need induction over data.
- **The findings' properties** (`NetAllOrNothing`, `ExhaustedReadFails`,
  `VersionIsServerNumber`). They are false of the code; TLC shows the
  counterexamples.
- **Liveness** (`CallReturns`): TLAPS does not reason about `ENABLED` and
  fairness here.

## 6. Not modelled

- **`perform_post_request` and `values_to_json`** (client.cpp 145-162,
  292-303): nothing in `src/` calls them.  curl, rapidjson, the logger and
  the log messages are external or formatting and stay abstract; the
  proxy and user agent are carried in the handle but change nothing the
  model observes.
- **`switch_port`.** It is an interface without behaviour.
- **The value helpers** `null`, `is_null`, `operator==`, `operator!=` and the
  output visitor. These are pure functions without state changes. They appear
  only through record equality and `Format`.
- **The streambuf's putback capacity.** The model assumes a string stream,
  which can always put back to its start.
- **The behaviour of `read_prefix_length` on overlong digit runs.** It is in
  stream_operations, which is not in src/.

## 7. Plan

1. Done: `PrefixBits`, `HasAddressContract`, `HasAddress` (proved),
   `NetworkAddressStream` (proved), `AddressList` (proved), `Client`
   (typing, buffer, outcome and TLS checks proved).
2. Left: the refinement `ContractRefinement` as a theorem, which needs a
   non-recursive account of the masked byte comparison.
