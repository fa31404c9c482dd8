# A verified model of the Solana PSM

TLA+ modules for the token swap program of this repository (`program/`), a Peg
Stability Module derived from the SPL Token Swap program. TLC checks small
pools exhaustively; TLAPS proves the central facts for every pool.

## 1. The system

| component | source | state | operations |
|---|---|---|---|
| fees | `curve/fees.rs` | four fractions, fixed at creation | compute, invert, validate |
| price curves | `curve/constant_price.rs`, `curve/redemption_rate.rs` | a price of token B in token A | swap, deposit, withdrawal arithmetic |
| swap curve | `curve/base.rs` | none | the same with fees |
| pool | `processor.rs`, `state.rs` | `SwapV1`, two reserves, the pool mint, the pool fee account | `Initialize`, `Swap`, two deposits, two withdrawals |
| redemption rate | `curve/redemption_rate.rs`, `redemption_rate_processor.rs` | `max_ssr`, `ssr`, `rho`, `chi` | compute the rate from the clock, `SetRates` |
| permissions | `permission.rs` | one account per pool and key | `Initialize` (first super admin), `InitializePermission`, `UpdatePermission` |
| other curves | `curve/constant_product.rs`, `curve/offset.rs` | none | swap, deposit and withdrawal arithmetic |
| pool set-up, constraints | `process_initialize` and `check_accounts` of `processor.rs`, `constraints.rs` | the accounts and mints of a pool | what `Initialize` looks at, what the token program allows before and after |
| account bytes | `state.rs`, `permission.rs`, `redemption_rate_processor.rs` | the bytes of swaps and permissions | pack, unpack, `extract_curve` |
| instructions, errors, entrypoint | `instruction.rs`, `error.rs`, `entrypoint.rs` | none | build and parse instructions |
| JavaScript client | `js/src/index.ts` | none | build instructions, load swaps |
| fuzzer and tests | `fuzz/`, `tests/`, test modules | totals of the target | run a list of instructions, assert |

How they interact. A transaction calls `Processor::process`, which reads the
accounts the caller names, asks the curve (through `SwapCurve`, with the
pool's fees and the clock) for amounts, and asks the token program to move,
mint and burn. A handler that fails changes nothing. The curve is stateless
except for the redemption rate, whose anchor `SetRates` moves after a permission
account has been checked. Everything else in a pool's world happens without
it: holders transfer and burn pool tokens, send tokens to the reserves, close
the fee account, send lamports to addresses not yet in use; the clock moves.

What is hard here. Not threads: the runtime runs the transactions on one pool
one after another. It is long sequences of legal instructions by several
parties, each rounding; intermediate amounts inside a handler (a fee priced
against reserves already changed, pool tokens minted before others are
burnt); accounts that are optional, coincide, or have gone; a rate that moves,
and can stop being computable; `SetRates` messages that arrive late; accounts
made at addresses others already touched.

What makes each component correct:

* fees: what is taken never exceeds the amount it is taken from, also when the
  curve leaves part of the amount and the fee is computed again;
* curves: nobody receives more than they pay, at any price and in any rounding;
* pool: at a standing price no sequence of instructions takes value out of a
  pool token beyond a named dust; pool tokens never run out; holders can always
  leave with both tokens;
* redemption rate: it accrues, it stays between the committed factor and what
  `max_ssr` allows, and it fails to be quoted only by overflow;
* permissions: the powers over a pool change by the signature of one of that pool's super
  admins only, its rates by that of one of its updaters;
* set-up: what `Initialize` looked at once stays true for as long as the pool lives;
* bytes: several hand-written readers and writers agree on every field;
* the rate as a replica: whatever becomes of the transactions that carry it, the
  pool's rate is the source's, late at worst.

## 2. Modules

| module | what it is | extends |
|---|---|---|
| `Fees` | the four fractions: `calculate_fee`, `pre_fee_amount`, `pre_trading_fee_amount`, validation | |
| `FixedPoint` | `RAY`, the one of prices and rates | |
| `PriceCurve` | both price curves at a given price | `FixedPoint` |
| `SwapCurve` | `SwapCurve::swap`, `deposit_single_token_type`, `withdraw_single_token_type_exact_out` | `Fees`, `PriceCurve` |
| `Pool` | one pool, one action per instruction, the token program and the fee account's owner | `SwapCurve` |
| `Vault` | the abstract specification of a pool: what a step may do to the worth of a pool token | |
| `RedemptionRate` | the clock, `_rpow`, `get_conversion_rate`, `Initialize`'s check, `set_rates` | |
| `Permission` | permission accounts, lamports at their addresses, who may set rates | |
| `AccessControl` | the abstract specification of permissions: roles per pool and who signed, no accounts | |
| `Compounding` | `_rpow` as a function, and a factor compounded with it | `FixedPoint` |
| `PowerLoop` | `_rpow`'s loop, a pass a step | `Compounding` |
| `Power` | the abstract specification of the loop: one answer, the power | `Compounding` |
| `RateRelay` | a pool that follows a source through a network, over `RedemptionRate` | `RedemptionRate` |
| `Setup` | token accounts, mints, `Initialize`'s checks, constraints, several pools | `Fees` |
| `Errors` | the numbers of the errors, of the program's and the token program's lists | |
| `PreciseNumber` | the decimals the product curves take ratios and roots to, the root any function as accurate as the library's | |
| `NewtonRoot` | the library's loop for the root, for TLC | `PreciseNumber` |
| `Curves` | all four curves behind one interface, and the fees around it | `SwapCurve`, `PreciseNumber` |
| `Exchange` | the five handlers as functions from a ledger to an outcome: an error or a ledger | `Curves`, `Errors` |
| `Ledgers` | a pool and the token accounts around it, which the next two share | `Exchange` |
| `ProductPool` | a pool under a product curve, whose holders use it in any order | `Ledgers` |
| `FuzzRun` | the fuzz target and its assertions | `Ledgers` |
| `CurveChecks` | the property tests of the curves, over every small pool | `Curves` |
| `Bytes` | fields, numbers and flags as bytes | |
| `AccountData` | the bytes of swaps and permissions, their writers and readers | `Bytes` |
| `Wire` | instructions from both clients to the handlers | `Bytes` |
| `MC...` | constants and prepared initial states for TLC, one per module with runs | |
| `CurveProofs`, `CurveChecksProofs`, `PoolProofs`, `LedgersProofs`, `RedemptionRateProofs`, `PermissionProofs`, `SetupProofs`, `BytesProofs` | theorems and the lemmas they rest on (`CurveProofs`: the arithmetic of `Curves` and `Compounding`, which the others but the last three share; `LedgersProofs`: both models over `Ledgers`; `RedemptionRateProofs`: the rate, the relay and the loop; `BytesProofs`: both models over `Bytes`) | the modules they are about |

`Pool` takes the price as a variable that may become any of `Prices`, or
`NoPrice` when the curve cannot compute one. That is `get_conversion_rate` seen
from the handlers, and for `ConstantPriceCurve` a price that happens to stand
still. `RedemptionRate` models what moves it and `Permission` who may. The
three abstract specifications are tied to the code's by refinement:
`Pool!ImplementsVault` maps the reserves of `Pool` to `Vault`,
`Permission!ImplementsAccessControl` maps accounts to sets of keys, who signed being the same in
both, and `PowerLoop!ImplementsPower` the loop to the function.

State and actions against the code:

* `tokenA`, `tokenB`, `poolToken`: the balances of the token accounts. A user
  has one account per mint. The reserves and the accounts the handlers treat
  apart (`FeeAccount`, the `init_destination` account of `Initialize`) are
  names of their own. Any account may be named as source, destination or host.
* `supply`: the mint's supply, which the handlers read again in every
  instruction. `feeAccountOpen`: whether `check_pool_fee_info` succeeds.
* Each of `Initialize`, `Swap`, `DepositAll`, `WithdrawAll`,
  `DepositSingleExactIn`, `WithdrawSingleExactOut` is one handler with all its
  transfers, mints and burns; its guard is every check of the handler and of
  the token program on the way. `Reprice` is the curve's answer changing;
  the `Donate`, `TransferPoolTokens`, `BurnPoolTokens`, `CloseFeeAccount` and
  `ReopenFeeAccount` actions are the token program without the pool.
* `RedemptionRate!curve` is the struct; `now` the clock; `NoRate` an answer
  of `None` or a panic on an overflowing product, which both end the
  transaction.
* `Permission!account[<<swap, key>>]` is the account at the address derived
  from the two; `lamports` its balance, which exists before the account does. `signed` is the
  signatures of the program's latest transaction, which the environment chooses: the callers name
  any signer, `IsSigner` is the handlers' look at `is_signer`, and no step but the choice writes
  `signed`. It is there for `AccessControl` to ask of a step whether one of those it names had signed.

* `Setup!token`, `mint` and `pool` are what is stored at the addresses of token
  accounts, mints and swaps; addresses outlive what is stored at them, so that
  accounts are closed and made again. A pool that pays or mints moves one unit.
  `remade` is a history variable, the traded mints somebody closed and made anew.
  A caller of `Initialize` who names another authority or another mint than the
  right one fails, so only the right one is named. The delegate of a program
  derived address cannot exist: giving an account away clears it.
* `Exchange` gives each handler as the program would return it: the first error
  in the order of the code, or `Panics`, or the new ledger. `Pool` asks what a
  successful instruction does; `Exchange` also which error a failing one ends
  with, which is what the fuzz target looks at. An `allowance` is what the
  delegate of a call may take.
* `Curves!None` is an `Option::None`; `Panics` an aborted program. The one-sided
  calls of the product curves divide and take roots in units of `1 / ONE` as `PreciseNumber` does
  (`ONE` is 10^12 there), rounding where it rounds. Its `sqrt` is a parameter: the theorems assume that
  an answer is at most a unit below the root of its argument and at most one above the root of the
  next argument, TLC runs the library's loop of Newton's method (`NewtonRoot`) and checks that assumption of
  it for every argument up to `MaxSqrtBase`. That the loop keeps it at twelve decimals: a guess
  comes from above, `checked_div` adds half a unit to the number it is the root of, and two guesses less
  than 100 units apart leave an error below `100^2 / (2 * root)` units, where no root but 0 is below 10^6 units.
* `AccountData!data` is the bytes, `meant` a history variable of what the
  instructions meant to be in them; which rates are allowed is
  `RedemptionRate`'s part, and who may send them `Permission`'s.
* `Wire`: `asked`, `message`, `accounts`, `sound` and `answer` follow one message. An
  account is known by the role its client meant it for. One thing happens to a message: it is
  cut, or something is put behind it. A client that passes a host but no fee
  account to a one-sided deposit has sent an incomplete message (`sound` is
  FALSE). The permission instructions have no builder in either client; their
  messages come from the instruction's own documentation (`OtherClient`).
* `FuzzRun`: the target creates accounts by reading the list first; the model
  creates one when an instruction first names it, so every `Running` state is the end
  of a complete list. The accounts of the last withdrawal (`Withdrawn`) are users like the
  others, with keys no instruction names.
* `RateRelay`: `source` is the protocol on the other chain, `inFlight` the
  transactions under way, `applied` which of the source's rates the pool has. A
  transaction runs once or is lost, in any order. `RateRelay` extends
  `RedemptionRate` instead of instantiating it and takes its actions over.

Arithmetic is exact. The intermediate products of the code are 256 bits wide, amounts of
an account 64 bits; the models have unbounded intermediate products and a
bounded `U64_MAX` on amounts, balances and supply where the code converts.
`RedemptionRate` bounds the products by `U256_MAX`, since there an overflow is
reachable by waiting. `spl_math`'s `checked_ceil_div`, which is not a ceiling
when the quotient is 0 (it rounds half up there), is `PriceCurve!CeilDiv`.

## 3. Properties and runs

| run | checks | shows |
|---|---|---|
| `pool` | `TypeOK`, `SupplyNeverDrained`, `ExitAlwaysOpen`, `OneFeeDebitsWithinAmountIn`, `ImplementsVault` | pools that charge nothing, one trading fee, or all four fees with the host split and a fee account that comes and goes: every step is a step of `Vault`, with its tight promise to pools without owner fees; the first pool tokens stay out of reach; whoever holds pool tokens can redeem them for both tokens, at any rate or none; with at most one trading fee a swap never debits more than `amount_in` |
| `two_trading_fees` | `DebitWithinAmountIn` | violated when both trading fees are charged (section 4) |
| `rates` | `QuotesUntilOverflow`, `RateWithinCeiling`, `StalePoolRecovers`, `AccrualNeverFalls`, `NeverBelowCommitted`, `CeilingNeverRises` | the rate accrues, stays within its bounds, and fails by overflow only, in every interleaving of the clock with `SetRates`; posting often does not raise the ceiling of `max_ssr` by more than the roundings of the seconds; a pool whose rate has overflowed is put back by one `SetRates` |
| `permissions` | `FundingBlocksNobody`, `ImplementsAccessControl`, `NoSuperAdminIsFinal` | two pools, two keys, every set of signatures: powers over a pool change only in a transaction signed by a super admin of that pool and its rates only in one signed by one of its updaters, whichever permission and signer are named; lamports sent to an address beforehand block nobody |
| `power_loop` | `AnswerIsSound` (`TypeOK`, `Accurate`, `RefusedOnlyIfTooLarge`), `Terminates`, `ImplementsPower` | the loop ends for every exponent, with the power of `Compounding`, within its roundings of the exact power, and gives up only on what does not fit |
| `relay` | `ReplicatesSafely` (`RelayTypeOK`, `Replicates`), `NewestIsWelcome`, `OlderOnlyWithinASecond`, `CatchesUp` | with transactions lost, late and overtaken the pool's rate is the source's but for the roundings of the seconds since its anchor, an honest update is never refused for its value, an older rate comes back only within one second, and in the end the pool mirrors the source |
| `setup` | `SetupSafe` (`TypeOK`, `ReservesObeyThePool`, `MintsStayApart`, `PoolMintObeysThePool`), `PoolsShareNothing`, `MinimumFeesCharged`, `OnlyThePoolActs`, `MadeOnce` (`PoolIsFinal`, `StartsEmpty`) | a second pool made beside a finished one, out of accounts and mints that are funded, given away, frozen, delegated, closed and made again: what `Initialize` looked at stays true, and two pools share nothing |
| `product_pool` | `LedgerIsSound` (`TypeOK`, `ReservesNeverEmpty`, `SupplyIsHeld`), `ShareBarelyDiluted` | both product curves under three schedules: no sequence of instructions empties the reserves the swap divides by, or takes more from those who stay than the roundings of the roots, with so few decimals that these are worth more than a pool token |
| `fuzz` | `TokensAccountedFor` (`FuzzTypeOK`, `TokensConserved`, `EverythingWithdraws`), `ValueNotLost`, `NothingPanics` | every list of three instructions on two accounts passes every assertion of the fuzz target, under all four curves |
| `curve_checks` | `SwapKeepsValue`, `SharesKeepTheirValue` (`DepositKeepsShare`, `WithdrawalKeepsShare`), `NoWayIsCheaper` (`RoundTripNeverGains`, `DetourEarnsNoMore`, `OneSideCostsNoMore`), `FeesBarelyAvoided` (`SwapFeesBarelyAvoided`, `AmountsBarelyAvoidFees`) | what the property tests ask, of every pool up to ten of each token under six calculators; what a swap and a detour cost is bounded by the roundings named there; trading through pool tokens saves no more of a swap's fees than their rounding, in pool tokens and, before any root is taken, in the amounts that are credited and charged |
| `account_bytes` | `ReadersAgree` (`TypeOK`, `InstructionsReadBack`, `ExtractsTheCurve`, `JavaScriptReadsTheSame`), `NoMistakenIdentity` | through any sequence of writes all readers find what was meant, and nobody takes one kind of account for another |
| `wire` | `NothingMisread` (`TypeOK`, `UnderstoodOrRefused`), `EveryClientIsUnderstood`, `AccountsInPlace` (`RightAccounts`, `PrivilegesSuffice`) | all nine instructions, both clients, every truncation and padding |

`ShareBarelyDiluted` says how far the product of the reserves may fall behind the square of the supply.
A pool token loses nothing as long as the decimals of `PreciseNumber` tell one whole number of pool tokens from the next: with
the program's twelve some millions of pool tokens; of 10^9 about one random withdrawal in three thousand is
charged one too few, of 10^15 some hundreds. `Keeps` is the factor of the comparison: 1 in
a step that moves both reserves one way (both tokens deposited or withdrawn) and in a swap that mints no fee, which
take no root; `1 + 5 / ONE` in a swap whose owner's fee is minted, as for a deposit; and in a one-sided call the same for the
fee's root and once more for its own, that of a withdrawal counted as often as what is left of the
reserve goes into what was there. Five units cover the ratio's rounding and the root's.
`ValueNotLost` asks for no loss at all, in pools where the decimals are enough.

A property with names in brackets is the conjunction of those parts, each of
which is stated by itself in its module. The type invariants of `RedemptionRate` and
`Permission` are proved instead (section 5).

`Vault` compares the worth of a pool token, `(a * RAY + b * price) / supply`,
before and after a step by cross-multiplication, so that the comparison itself
rounds nothing. The dust it allows is what the code's rounding really gives
away, and no more:

* a trade: none;
* one token deposited (and the owner's fee of a swap, which is pool tokens too):
  the pool values itself down to a whole token A, so `(Value - RAY) / supply`
  never falls;
* both tokens deposited: half a unit of each token, by the ceiling that is not one;
* both tokens withdrawn: none;
* one token withdrawn: one token A; if the owner's fee is minted as well, the
  dust grows with what is minted.

Bounds. Prices are fixed-point with `RAY = 2`: price 2 is parity and price 3 is
one and a half, so that every division has a remainder in some state. One user
with accounts of both tokens and pool tokens is enough, since the handlers never compare
two users: what tells accounts apart is whether they are the pool's, the fee
account, the one nobody signs for, or a user's, and each of these may be named in
each place. `U64_MAX` is 7, and 9 in `two_trading_fees`: every amount up to it is
tried in every instruction, reserves and supply run into it, and pools can be
emptied of either token. `pool` has four schedules: no fees, the trade fee 1/3
alone, the owner's trading fee 1/4 alone, and all four (1/5, 1/4, 1/3, host 1/2), large so that each of
them rounds to something other than 0 and 1. Six seconds of
`rates` go through every path of `_rpow`'s loop up to two squarings; the five rates include
one that shrinks and one whose square outgrows `U256_MAX`; `Chis` has
the numbers just around the ceiling of the middle rate. Two pools and two keys
are what it takes for a permission of one pool to be shown to another.

`setup` starts beside a finished pool, from five states (all of them reachable
from `Init`) that each leave one thing open: a reserve still to be made, a pool mint still its
maker's, a traded mint that obeys somebody else, a traded mint that is gone, and accounts
meant for the first pool once more. Eight accounts and five mints are
what two pools on the same two tokens take, with a mint to spare; `MaxAmount` is 2,
since a balance matters as none, some or rising; a build with constraints is the
one whose fees and curves can be refused. That the same holds from `Init`, of any number of
addresses, is what `SetupProofs` adds.

`ProductPool` starts with reserves that gifts fill, so that they can be of any
ratio; `Offset` with offset 0 is there to be refused. A host fee goes to the user's account
or to none (`HostAccounts`). Decimals: `product_pool` counts in
sixteenths and has 20 to 40 pool tokens, so that a unit is worth more than one of them; `fuzz` has three decimals for some twenty and `curve_checks` 4000
units for up to 100, so that nothing is lost. `FuzzRun` scales the
target's amounts (170 million down to tens) with the same order of its fees;
`U64_MAX` is 255 and `U128_MAX` 65535, so that one is the square of
the other as in the program, and products reach both. Bytes are base 16 and numbers one quarter as long:
what these modules ask is where a field begins, not what is in it; other widths and contents are `BytesProofs`' part. `power_loop` has exponents up to 33,
six passes; exact powers are compared up to an exponent of 5, where TLC's own
integers end. `relay` has two changes of rate and five seconds: enough for a transaction
to be overtaken by a newer one and by one of the same second. `CurveChecks` has both
product curves and priced ones at 1, 3, 3/2 and 1/2, two fee schedules, supplies 7, 30 and 100, reserves up to ten, amounts up to ten and 40, 67 and 90
(small reserves under a large supply are where the roundings of a fractional price show), and asks only where the tests would (their `prop_assume`).

Deadlock is checked in `pool`, `two_trading_fees` and `wire`. `rates`, `relay` and `permissions` end when the
clock reaches `MaxTime`, or when every address is full and no one has a power
left; a fuzz run ends, the loop answers, a sample is drawn once, an offset of 0
is refused until the users have given everything away, swap accounts may be of a size nothing is written to, and everything of a
set-up may have been closed; so there it is switched off.

Fairness. The program never acts on its own, so for instructions none is
assumed; what the code owes its users is that an instruction *can* be executed.
`ExitAlwaysOpen`, `FundingBlocksNobody`, `StalePoolRecovers` and `NewestIsWelcome` state that with the
conditions under which the handlers succeed (`WithdrawAllSucceeds`, `CanCreatePermission` and
`CanInitializePermission`, `RatesAllowed`), which are the guards of their actions. Two
modules do claim liveness. `PowerLoop` assumes that a running function goes on
(weak fairness of its step); the compute budget, at which the runtime may end
it, is not modelled. `RateRelay` assumes of the world around the program what
the README calls mission critical, that rates are kept up to date: the pool is
opened, the clock moves, the updater posts (weak fairness of `Open`, `Clock`,
`Post`), and a transaction that is acceptable again and again is not lost every
time (strong fairness of `DeliverNewest`). Strong, because the clock and other
transactions may disable a delivery in between. That the updater's diligence is
enough, whatever arrives late or twice, is what the code is asked.

Each property of a passing run can be broken by a change of the code that a
colleague might make; those changes stand beside the definitions they alter,
marked `Mutant`.

## 4. Findings

*A swap may debit more than `amount_in`* (`two_trading_fees`). When the curve
cannot use the whole amount left after fees, `base.rs:115` computes both fees
again on the inverse of their sum. The inverse rounds the sum up once, the
first subtraction rounded each fee down: at price 3/2 with fees 1/3 and 1/3,
an `amount_in` of 8 debits 9. With one fee the two agree
(`OneFeeDebitsWithinAmountIn`).

Observations made on the way, each with the property that bounds it:

* A one-sided withdrawal rounds the pool tokens it charges up, "to avoid losing value on any deposit or withdrawal"
  (`RoundDirection`, `calculator.rs:40`). But first it rounds the ratio withdrawn / reserve down to twelve decimals
  (`constant_product.rs:147`), for the user: of a reserve of 2 * 10^12 and a supply of 10^15 a withdrawal
  of 5 is charged 1000 pool tokens, the ratio 2.5 * 10^-12 having become 2 * 10^-12, where 1251 are owed. `product_pool` counts in sixteenths,
  where of a reserve of 3 and a supply of 33 a withdrawal of 2 is charged 13 and 14 are owed. `ShareBarelyDiluted` bounds it.
* `max_ssr` bounds the `ssr` of `SetRates`, not that of `Initialize`.
  `RateWithinCeiling` is asked while `ssr` is within it.
* A pool can be opened with `rho` 0, which `SetRates` takes for one without an
  anchor: until there is one `chi` may decrease. `NeverBelowCommitted` speaks of
  anchored pools.
* The last super admin can clear its own role. `NoSuperAdminIsFinal` says what follows.
* Three of the curves' `validate_supply` look at token A only, so a pool may
  start without token B, although `Initialize` documents both as non zero.
* A deposit of both tokens may pay nothing for one of them:
  `RoundDirection::Ceiling` says 1.1 becomes 2, but `checked_ceil_div` makes 0.4
  a 0. `Vault!SubscribeBoth` bounds what that costs.
* `as_u128` panics past 128 bits, before `to_u64` can answer with an error. A trade at
  an extreme price aborts where the fuzz target expects an error of its list.
  `NothingPanics` holds for amounts within that width, and fails when larger ones are let in.
* A source that grows with `max_ssr` itself may be refused by a unit: `chi_max`
  is one rounded power, the source's factor several. With two units of room below
  `max_ssr` an honest update is welcome (`NewestIsWelcome`, proved as `NewestIsWelcomeUnderCap`).
* The `normalized_value` of the constant price curve rounds when it halves, and the value of a pool
  token may fall with a withdrawal by that rounding; the test asserts it of random inputs.
  No token is lost: `Vault` compares exactly, and `WithdrawalKeepsShare` is asked of the product curves.
* At a fractional price a deposit may be taken out for fewer pool tokens than
  it was given, as reserve and amount are valued with a truncating division
  each. `Vault!SubscribeSingle` and `RedeemSingle` bound it; at a whole price it cannot
  happen (`RoundTripNeverGains`).
* Depositing one side and swapping half may differ by more than the 50 basis
  points the tests allow, in small pools, which their ranges include. They differ in the pool's
  favour (`DetourEarnsNoMore`).
* The tests of `base.rs` say at lines 633 and 664 that depositing token A and withdrawing token B
  "must always" cost at least what it earns. A swap rounds what it takes up and each fee down, and where a
  pool token is worth little of a reserve these roundings are worth pool tokens: with
  reserves 3 and 7, supply 30, a trade fee of 1/2 and amount 4 it earns 12 and costs 11; with the
  tests' own fees it takes a larger pool (reserves 1000 and 1000, supply 1000000, amount 121: 57827 and
  57635, by the formulas of `Curves` outside TLC's integers). The random tests draw no such pool:
  they hand `one_sided_deposit_vs_swap` the supply for the amount and the amount for the
  supply, which then stays below the reserve. `SwapFeesBarelyAvoided` bounds what can be
  saved: what a deposit of one token A with its fees, and two more, would earn. One more would
  not do: with fees of 4/27 and 3/10, reserves 1507 and 1301, supply 1000000 and amount 27 a trade through
  pool tokens saves 997 of them, a deposit of three tokens A earns 994.

## 5. Proofs

All theorems hold for every value of the constants, from the named assumptions
of the modules:

* fractions are pairs of naturals (`Fees`), `RAY` is positive (`FixedPoint`),
  limits are naturals (`RedemptionRate`, `RateRelay`, `PowerLoop`), `Rent` is
  positive (`Permission`), addresses and program derived addresses differ (`Setup`);
* the names of accounts differ, nobody signs for the accounts the handlers treat
  apart, schedules are pairs of naturals, and a pool opens with at least one pool token
  (`Pool`, `Ledgers`, `FuzzRun`). The valid ones among the schedules are found by
  `Initialize`, not assumed, but for `CurveChecks`, which has no `Initialize`: there they
  are valid. `Ledgers` has finitely many accounts besides, since it speaks of their sum;
* a byte tells four types of curve apart (`AccountData`) and nine instructions (`Wire`); what
  instructions carry are values of their fields' types (`IsSwap`, `IsPermission`, `IsRates`,
  `IsMessage`), as the structures of the program can only be;
* the root of `PreciseNumber` is a function with the accuracy `PreciseAssumption` names, and `ONE` is at least 10;
* `RAY * RAY + RAY / 2` fits in the products (`Compounding`: 10^54 against 2^256), and so
  does `RAY * chi` (`RedemptionRate`: `chi` is a `u128`).

The argument of each module:

* `PoolProofs!PoolIsTypeCorrect`: `Spec => []TypeOK`. What matters in it is that
  balances, reserves and supply stay naturals and within their width although
  handlers subtract fees and payments computed elsewhere. The inductive invariant
  `PoolInv` is `TypeOK` and the fee schedule being a valid one (no fee before
  `Initialize`, a validated schedule after it): without it a fee could exceed
  its base. The proof has one lemma per handler.
* `PoolProofs!SupplyIsNeverDrained`: `LedgerInv` adds to `PoolInv` that the pool tokens of
  the opening have not left `InitDestination` and that the ledger is `Backed` by the
  supply: the balances of any list of different accounts add up to no more than the supply. That
  says of the sum of all balances what the theorem needs, and of any set of accounts, finite or not.
* `PoolProofs!HoldersCanAlwaysLeave`, from `LedgerInv`: the withdrawal fee leaves
  something to redeem, the parts are at most the reserves, and the burnt tokens are held.
* `PoolProofs!OneFeeDebitsAtMostAmountIn`, from `CurveProofs!OneFeeSwapWithinAmount`:
  with one fee, `pre_fee_amount` of what is left after the fee is at most the amount.
* `CurveProofs`, the curves: a swap uses no more than the amount it was given
  (`SwapUsesAtMostAmount`) and pays out no more than it takes in
  (`SwapPaysItsWorth`); minting for one token is paid for up to `RAY` per pool token,
  burning for one token up to one token A (`MintKeepsShareValue`,
  `BurnKeepsShareValue`); and the same of a swap with fees
  (`SwapWithFeesKeepsValue`), whichever are charged and whether or not they were
  computed again.
* `PoolProofs!PoolImplementsVault`: the arithmetic that turns those facts into steps of `Vault`
  (`MintArithmetic`, `BurnArithmetic`, `BurnAndMintArithmetic`), and then
  `Spec => ImplementsVault`, one lemma per handler, from `PoolInv`.
* `CurveProofs`, the rate: `_rpow` for every base and exponent. Its recursion exists
  (`LoopExists`), and by induction over the exponent the power is monotone in the base
  (`RPowMonotone`), does not fall when the exponent grows (`RPowLater`), is `RAY` for the
  base `RAY` (`RPowOne`), and whoever quotes a later time quotes every earlier one. The prover's induction
  rules cannot be instantiated with a predicate, so each of these takes
  the least number the claim fails for (`NoLeastFailure`).
* `CurveProofs`, growth: the recursive power is within the roundings of exact powers
  (`RPowNearly`), which are products and compose. `AtMostGrown(v, w, p, u, n)` says that `v` is at
  most `w` grown `n` times by `p / u`, without division: it chains over time (`GrownOn`) and
  weakens to faster growth (`GrownFaster`). What compounds for `n` seconds grows by no more than `MostOf` and
  no less than `LeastOf` its rate each second (`CompoundedBetween`), and by no less than
  `LessThanOf` where the factor is rounded down as well (`CompoundedFloor`). By Bernoulli's inequality
  (`LossesAdd`) the two ends are apart by one part in `RAY` a second, or two
  (`RoundingsApart`, `FloorsApart`).
* `RedemptionRateProofs!QuotesUntilItOverflows`: `Spec => []QuotesUntilOverflow`,
  by `RateInv`: a rate set by `SetRates` has its anchor in the past, and one set by
  `Initialize` was quoted then. `RateIsTypeCorrect` is that invariant. `AnchorNeverMovesBack`:
  `rho` and `chi` never fall once `rho # 0`. From `RateInv` and the lemmas about `_rpow`:
  `AccrualNeverGoesBack`, `RateNeverBelowCommitted`, `RateStaysWithinCeiling`
  and, with `chi` fitting the products (`FactorInv`), `StalePoolAlwaysRecovers`.
  `CeilingIsNotBeaten`: what `SetRates` accepts is below the growth of the old anchor, and grows on from
  there by the same rate (`CeilingOfAnchor`).
* `RedemptionRateProofs`, the relay: `ReadingsAreOrdered` is the inductive invariant
  `RelayInv`: what is under way and what the pool accepted last are points of the source's past, in
  the order of their numbers. From it `OlderRatesOnlyWithinASecond`, and, for a pool
  without a cap, `NewestIsWelcomeUncapped`. `RateReplicates` takes `TrackInv` besides: since a
  reading of the present rate was taken the source has grown by that rate, but for the roundings of
  every second, on whatever seconds it compounded; the two paths from there to now are compared by
  `PathsMeet`. `NewestIsWelcomeUnderCap` takes `GrowsWithinCap`: the source never grew by more than the cap
  with everything rounded down, if `max_ssr` is above its rates by the roundings of a second (`RoomUnderCap`:
  two units, of rates below `2 * RAY`). These proofs corrected `CeilingNeverRises` and
  `Replicates`: a rounding of the power counts `chi / RAY` times in the factor, so that the bound of one
  unit a second they once stated was one for factors of the size of `RAY` and not for every constant.
* `RedemptionRateProofs`, the loop: `LoopComputesPower` is the loop's invariant: what is still to be
  done, applied to what is held, is the power asked for. `LoopAnswersAsPower` is the safety
  part of `ImplementsPower`. `LoopIsAccurate` compares with exact powers, for every base,
  exponent, precision and width, by `AccuracyInv`: `x` holds `base^i`, `z` holds `base^k` with
  `k + 2 * i * n = exponent`, and each is `Nearly` its power, off by the roundings of
  as many multiplications as its exponent has. The roundings of a product are those of its
  factors and one more (`CurveProofs!NearlyMultiplies`); a product that is refused is one whose power
  does not fit (`RefusedIsTooLarge`).
* `PermissionProofs`: `PermissionImplementsAccessControl` (the witness for `AccessControl`'s signature is the
  signer the caller named: `IsSigner` puts it among `signed`, and `unpack_permission` binds the permission that
  has the power to it), `LockedPoolsStayLocked`,
  `NobodyIsBlocked` and
  `PermissionIsTypeCorrect`, from `PermissionInv`: an account lies where its own
  contents say, and belongs to an initialized pool. The second part is what
  `InitializePermission` relies on without asking.
* `SetupProofs`, for any number of pools, keys, accounts and mints:
  `SetupIsSafe` (accounts and the pool mint obey the pool, mints stay apart),
  `PoolsAreSeparate`, `SwapsAreWrittenOnce`, `OnlyThePoolSpends` and
  `MinimumFeesAreCharged`. The inductive invariant `SetupInv` is the type
  invariant, the safety properties themselves, and that the fees of a pool are
  those the constraints admitted. Two pools share nothing because a reserve has
  one owner and a mint one authority, an address derived from the swap. For
  `OnlyThePoolSpends` it takes `ReservesListed` besides: the mints of a pool's
  reserves had extensions of the list when it was made, and have them still unless made anew.
* `LedgersProofs`, the handlers. Each is taken apart once: what a call that is answered did to
  the ledger, as a chain of calls of the token program (`SwapTakenApart`, `DepositBothTakenApart`,
  `DepositOneTakenApart`, `WithdrawBothTakenApart`, `WithdrawOneTakenApart`). Both models are proved from these.
* `LedgersProofs`, the pool: `LedgerStaysSound` and `SharesAreBarelyDiluted`, for both product curves,
  every offset and every valid schedule. A step `Covers` if the product of
  the reserves grows at least as the square of the supply, and `CoversBut` for a factor if it does so
  where the reserves afterwards count that much more; both chain and are
  shown of each call a handler makes of the token program (`Moved`, `Minted`, `Burnt`),
  then of each handler (`SwapKeepsWorth`, `DepositBothKeepsWorth`,
  `DepositOneKeepsWorth`, `WithdrawBothKeepsWorth`, `WithdrawOneKeepsWorth`) with
  its fees. What the one-sided formulas answer is compared with squares by `DepositRoot` and
  `WithdrawRoot`, from the accuracy `PreciseAssumption` gives the root; `DepositCovers` and `WithdrawCovers`
  turn them into steps that cover but for five units. That reserves never become empty is no invariant of its
  own: it follows because a step covers but for such a factor and the supply is never used up
  (`SupplyRemains`: the opening's pool tokens have no signer). The inductive
  invariant `PoolInv` is the ledger being held (`Held`: the supply is the sum of the accounts) and, once
  the pool is open, `Sound`. Sums over the accounts are followed through a payment by
  induction over the finite set (`LedgerSumAdjusts`).
* `LedgersProofs`, the fuzz target, for lists of any length over any accounts, amounts and
  schedule: `TokensAreAccountedFor`. The invariant `FuzzInv`
  is the type invariant, `Held`, the totals the target keeps being the sums over the accounts they
  count (`TokensCounted`), and while the target runs that the pool is open. A handler leaves both sums
  as they were and the accounts of others alone (`Kept`), so an account nobody has named holds what it was
  created with. After the last withdrawal nobody but the pool's own
  accounts holds pool tokens, which is why it takes all there is.

* `CurveChecksProofs`: what the property tests sample, for every pool, amount, price, offset and
  supply. There is nothing inductive in it, a sample is drawn once (`SampleInv`); the argument is
  the rounding.
  `SwapsKeepTheValue`: a product swap's two roundings are each the least possible, so its product
  exceeds the invariant by less than the smaller reserve and therefore by no more than the root
  (`ProductSwapRounds`, `WithinRoot`); a priced one gains less than one `RAY` in worth
  (`PricedSwapRounds`).
  `SharesAlwaysKeepTheirValue`: ceilings cover (`CeilingCovers`), floors leave the product its share
  squared (`ProductTaken`, `CoversInProportion`).
  `NoWayIsEverCheaper`, of the priced curves: each detour is compared with the direct call before the last
  rounding, which is monotone (`PricedRoundTrip`, `TwoDeposits`, `PricedSumWorth`). `SlackCovers` is why
  `OneSideCostsNoMore` needs its slack at a fractional price, and no more than that.
  `AmountsAlwaysBarelyAvoidFees`: let the fees be a fraction `T` of a gross amount. What a swap of `i`
  pays is credited as a deposit with at most `1 + T / (2 * (1 - T))` tokens for each of `i + 1`, and one
  token (`CreditOfGross`, `CreditOfAll`, and `CreditAfterLeastFee` where a fee is the least
  fee of one); a withdrawal is charged with at least as many for each of its own
  (`WithdrawalGross`). The swap itself takes no token too many (`ProductSwapRounds`), so that the
  reserves these two would leave have at most the product the slack makes (`CreditAndGrossBalance`).
  It is the part of `SwapFeesBarelyAvoided` that `base.rs` decides: what pool tokens the calculator then makes of
  these amounts is up to its roots and their decimals. The proof corrected the slack: with one unit less TLC finds no counterexample in pools of its size, but there are (section 4).

* `BytesProofs`, for every base and width: `EveryReaderAgrees`, `NobodyIsMistaken`,
  `NoMessageIsMisread`, `NoClientIsRefused` and `EveryAccountInPlace`. The definitions of `Bytes` recurse
  over positions, and the library's folds over sequences, so it begins with what they compute
  (`Recursion`, `SumsSteps`, `FlattenConcat`). A number that fits is read back from its digits
  (`NumberRoundTrip`); a layout, which names no field twice, reads back what it packed, whatever
  follows (`LayoutReads`), and layouts one behind the other pack one behind the other (`PackedConcat`),
  which is how a field is found at the sum of the widths before it. Then each layout of the code is one.
* `BytesProofs`, accounts: the invariant `WrittenAsMeant` says what is in every account: nothing, zeros,
  the swap that was meant packed over some earlier bytes, or the permission that was meant.
  Earlier bytes, because a curve does not fill its room and leaves in it what was there; all readers
  ignore those (`SwapIsReadByAll`), and `SetRates`, which unpacks and packs again, changes three
  numbers only (`NewRates`). That the earlier bytes are arbitrary makes it inductive without a word on who wrote last.
* `BytesProofs`, messages: `WireInv` says that what is under way is what the client packed, something
  behind it that Initialize does not have, or a true beginning of that; that accounts stand in the places
  their handler reads (`AccountsFor`), but for the fee account of a message with a part missing, which the handler
  compares; and that an answer agrees with what was asked. A message that was cut is too short or has
  lost nothing it needs (`CutIsRefused`); a role is read where it stands because no handler has one twice
  (`FullRoles`, `ReadStands`).

Model-checked only:

* liveness (`Terminates`, `CatchesUp`) and the fairness part of `ImplementsPower`, which are
  out of the prover's reach;
* `NewestIsWelcome` without the premise `CapFits`: the cap's growth since the last anchor fits the 256 bits of the
  instance, and would not in a pool left alone for long enough, where `set_rates` refuses;
* `NothingPanics` of `FuzzRun`: it holds for amounts within the width of its bounds, and panics on larger ones
  are real (section 4), so it is a statement about an instance. `ValueNotLost`, for the same reason: the dust of
  section 3 and, under a product curve, the last decimal are below what the instance's amounts show;
* what compares one-sided calls of a product curve in pool tokens to the last one: the product
  curves' half of `NoWayIsCheaper`, and `SwapFeesBarelyAvoided`. These hold with decimals fine enough for the
  pool, as the runs have, and not for every size (section 4). Proved at every size are
  `SharesAreBarelyDiluted`, the priced curves' half, and `AmountsAlwaysBarelyAvoidFees`;
* that the loop of the library's root is as accurate as `PreciseAssumption` asks.

## 6. Not modelled

The wording of error messages and the entrypoint, which only prints them; how
the JavaScript client creates accounts and sends transactions; the syscall stubs of the
fuzzer and the example tests beside the properties they share; token-2022
extensions of the traded mints that take effect on transfers, such as transfer
fees, which `validate_mint_extensions` keeps out; the compute budget, although the
README notes that the rate gets more expensive with time (`power_loop` counts no
units, it shows that the passes end).

## 7. Plan

Done: the pool with its abstract specification, the rate, the permissions
(first), then set-up and constraints, bytes and instructions, all four curves
with handlers as functions, the fuzz target, the property tests, the loop, and the
relay.

Next, the proofs:

1. `ValueNotLost` with the dust of `Vault` and the decimals of `Keeps`, handler by handler.
2. A bound on the product curves' detours in pool tokens, with a slack for the roots as in `Keeps`.
