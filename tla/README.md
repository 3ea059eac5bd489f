# GenieBackend in TLA+

TLA+ specifications of the parts of GenieBackend in which several requests,
instances or services meet, the TLC runs that check them on small instances, and
theorems that TLAPS proves for every size. The definitions follow the code;
`PROJECT.json` names, for each of them, the lines it stands for.

1. The system · 2. Modules · 3. Runs · 4. Proofs · 5. What the checks leave open ·
6. Not modelled

## 1. The system

NestJS services share one Postgres database and one Redis. Requests come through
a gateway; services call each other over HTTP under `/internal`, and announce
sign-outs over Redis pub/sub. Every service may run as several instances, so
every pair of requests can interleave between any two awaits.

| component | state | operations | what is hard | what makes it correct |
|---|---|---|---|---|
| Sessions (`authentication/src/auth/sessions`) | `refresh_tokens`; Redis list of cut-off sessions; access tokens in the wild | sign in, refresh, log out, end one session, end all | concurrent refreshes and sign-outs, replayed tokens, a failure between revoke and insert | one usable token per session, each exchanged once, a sign-out that is final |
| Account (`account`, `credentials`, `social`) | `users` row, Google's record, attempt counters | register, log in, change password, add an email, deactivate, delete, reactivate | a chain of calls to three services; a login that overlaps a change | nobody gets in with what was replaced; nothing is left of a deleted account |
| Password reset (`password-reset`, `attempt-limiter`) | codes, counters | request, verify, reset | two requests at once, limits counted in Redis | a code works once, guesses are few |
| Mail | none | deliver | | |
| Voice calls (`chat/src/calls`) | live calls, busy and socket keys in Redis; ring timers in memory; `call_logs` | invite, accept, decline, hang up, disconnect, time out | many ways to end at once, several phones, an instance that dies | one call per person, ended once, nobody busy or ringing for ever |
| Chat messages, presence (`chat/src/chat`) | messages, conversation states, attachments; connections counted over instances | send, edit, delete, archive, clear, read, connect, watch | retries, blocks and deletions in between, presence counted in Redis | a message stored and pushed once, devices show what is stored, files of no one are gone |
| Chat key backup | backup row, public key, two cached copies | save, unlock, reset | PIN tries by several devices at once, replacing a backup | tries are few, key and backup belong together |
| Payments and publication (`payment`, `property`) | `payment_transactions`, listing status and date | checkout, webhook, publish, unpublish, sell, relist, delete | a saga over two services, repeated webhooks, lost answers, crashes | settled once; a paid listing is live |
| Blocks and follows (`user`) | rows, cached ids | block, unblock, follow, unfollow | a check before a write, stale copies | no follow between blocked people |
| Users, avatars, reports (`user`) | rows, files, cached public view | edit, replace avatar, report, review | file against row, loads that race changes | no picture without its file, one open report |
| Push devices, promotions (`notification`) | devices, promotions, sending runs | register, forget, send, push for others | a sign-out announced while a device registers; an instance that dies while sending | a signed-out device gets nothing; a promotion is sent once; a call stops ringing |
| Listings and what the public sees (`property`) | `properties`, Redis entries and versions | create, edit, move, change status, settle; read map, page, texts | loads that race changes, writes that race writes | rows stay consistent, cached answers follow |
| Alerts and saved searches (`property/src/alerts`, `search/saved`) | searches, matches, claims | save, switch, remove; tell followers, searchers and savers | listeners behind the request, claims before sends | nobody is told twice, who should hear does |
| Photos (`property-image.service.ts`) | rows, files, thumbnails | upload, confirm, remove, erase, backfill | no transaction covers bucket and rows | a photo has its file, no more than the limit |
| Search index, history, nearby places (`property`) | Meilisearch, temporary indexes, entries, stored places | change, rebuild, record, look up | rebuilds that race changes, lookups that race edits | the index follows or ends up right |
| Gateway, shared, scripts | counters, clients | forward | unreachable upstreams | |

The components meet in few places: a change of password, a reset, a deactivation
and a deletion end the sessions; the list of cut-off sessions is read by the
gateway, by chat's sockets and by the push devices; publication calls the cache
and the announcements, which start alerts and the index; deleting an account
calls the user service, which calls property and chat; blocks decide who may
write, call and follow.

Every hazard found while reading, with its line and the properties that look at
it, is in `PROJECT.json`.

## 2. Modules

    RefreshTokens <- Sessions <- SessionPromises      what sign-outs told their callers
                        |   \- MCSessions
                        |   \- SessionsProofs
                        v implements
                   SessionChain
    Calls <- MCCalls <- MCCallPromises -> CallPromises   what phones were told
     |  \- CallsAndPushesProofs (also of Notification)
     v implements
    CallLines
    Publishing <- PublishingPromises <- MCPublishing, PublishingProofs
    Accounts <- MCAccounts, AccountsProofs
    People   <- MCPeople, PeopleProofs
    KeyBackup, Presence <- Chat <- MCChat
       \- ChatProofs
    Notification <- MCNotification, CallsAndPushesProofs
    MapSearch <- Listings <- Photos, Alerts <- Market <- MCMarket, MarketProofs
    SearchIndex, Nearby, SearchHistory <- Search <- MCSearch, SearchProofs

An arrow points to the module that is extended. In every module an action is one
database statement, Redis command or call to another service, together with the
code up to the next `await`. What a request keeps in local variables across an
await is in its record (`req`, `handler`, `checkout`, `webhook`, `request`, `ask`),
so that it can be stale when it is used. A transaction is one step where nothing
else can see its middle, with the locks it takes as guards.

Variables said to "only remember" are read by no guard of the program's actions;
properties use them to say what came between.

"Mixes" are a bound, and are named one in each module that has them. An
interleaving of everything with everything is too large, so the first step chooses
a set of operations that are sent together; every action is still the whole
handler. The mixes of an MC module put together the operations that touch the same
state.

### Sessions

`RefreshTokens` is the table with the statements of
`refresh-token.repository.ts` as operators on it. `Sessions` is what the services
do with it.

| code | specification |
|---|---|
| `SessionService.refresh` | `BeginRefresh` (read), `RejectRevokedToken` (`hasActiveToken`), `RevokeOldToken` (`revokeIfActive`), `FindUser`, `InsertToken` |
| `SignInService.complete` | `BeginSignIn`, `InsertToken` |
| `TokenIssuerService.issue`, `continueOrStartSession` | `InsertToken`, `SessionOfNew`, `StartOfNew` |
| `logout` | `Logout`, `CutOff`, `Answer` |
| `revokeSession`, `endSession` | `BeginRevokeSession`, `EndSession`, `CutOff`, `Answer` |
| `logoutAll`, `endAllSessions`, theft detected | `BeginLogoutAll`, `EndAll`, `CutOff`, `Answer` |
| `RevokedSessionStore.add` | `CutOff`, one session of its loop at a time |
| access tokens at the gateway and on `/auth` | `Accepted` |
| a call that fails, an instance that dies | `Fail` |

`tokens[j].replaces` and `cut` are history: nothing the program does reads them.
A refresh token's own expiry (30 days) is left out; so are hashes, which only
refuse. `revokeIfActive` answers false both for a row that is revoked and for a
query that failed, whether or not it took effect; both outcomes are in
`RevokeOldToken`.

`SessionChain` is what a session promises: unused, live, renewing, over, and never
back. `Sessions` implements it under the mapping `Phases`.

### Calls

| code | specification |
|---|---|
| `CallsService.invite`, `RedisCallStore.start` | `BeginInvite`, `ClaimCaller`, `ClaimCallee`, `Unclaim`, `StoreCall`, `LogInvite` |
| `accept`, `update` | `BeginAccept`, `BindAnswer`, `LogAnswer` |
| `decline`, `hangUp` | `BeginHangUp` |
| `handleDisconnect`, `socketGone` | `SocketGone`, `EndCallOfSocket` |
| `ringTimedOut` | `RingTimedOut` |
| `end`, `finish`, `recordEnd`, listeners | `FinishCall`, `ReleaseKey`, `Released`, `LogEnd`, `AnnounceEnd` |
| times to live | `Expire`, not before `Occupied` ends |
| an instance that dies | `LoseHandler`, `LoseTimer` |

`decline` is the hang-up of a callee while it rings: the two do the same. The ring
timer lives on the instance that served the invite; a handler elsewhere cannot
clear it, so `BindAnswer` and `Released` may or may not. A busy key, a call and its
socket keys are set with the same time to live at nearly the same time and run
out in one step; an answer extends them all. `peerSocket` only reads. A Redis
command that fails ends its handler like a crash does, so it is under `Crashes`
only. An invite that is sent again (`Retried`) finds its own busy key and is
answered "busy"; once the call is over it claims the keys anew and is taken back
for its row. `RingingHasTimer` is not claimed of such invites: the end of a call that was
never announced may clear the timer of a second call with its id, which then rings
until its keys expire. Nor is `EndedOnce`, for an id that is taken twice.

`CallLines` is what the keys, connections, timers and handlers are for: of each call only
whether it is there, rings or is active. It rings between two people who are in no call,
is answered while it rings, and ends; nothing else happens to it. `Calls` implements it
under the mapping `Line`, the status in the key of the call.

### Publishing

| code | specification |
|---|---|
| `PaymentCheckoutService.initiate`, `beginPublish`, `revertPublish` | `BeginPublish`, `Park`, `RecordTransaction`, `RevertPublish` |
| `PaymentWebhookService.handle`, `settle` | `Handle`, `Switch`, `Settled`, `CallBreaks`, `Undo` |
| `settlePublish`, `goLive` | `GoLiveDated`, `GoLive`, `Release` |
| the owner's `publish`, `unpublish`, `markSold`, `relist`, `remove` | `BeginSetStatus`, `SetStatus` |
| time-outs of `PropertyPublishingClient` | `LeaveBegin`, `CallBreaks`: the property service may go on after its caller left |
| the provider | `Pay`, `Handle` until answered 200 |
| a process that dies | `CheckoutDies`, `WebhookDies` |

One listing is enough because no statement touches two. The provider has one
verdict per payment. Of the published date only its presence is kept. Nothing in
the repository sets a listing to `Expired`, a status its rules know; `Expire` does
it to a live one. Signature, amount and owner are checks that only refuse.
`shown` is history, and so is `alone` in `PublishingPromises`: whether anything came
between a payment and its listing that the program does not answer for.

### Accounts

| code | specification |
|---|---|
| `register`, `login`, `firebaseLogin` | `SignInNext`: `Register`, `InsertUser`, `Login`, `FindByIdentifier`, `FirebaseLogin`, `LinkExistingAccount`, `Reactivate`, `IssueToken`, `ClearTries` |
| change or create a password, add an email, deactivate, delete | `OwnerRequests`: `AccountRequest`, `Require`, `Verify`, `WriteUser`, `EndAllSessions` |
| the rest of a deletion and its undo | `Deletion`: `EraseFiles`, `PutBack`, `DeleteGoogle`, `DeleteCodes`, `DeleteRow` |
| `forgotPassword`, `verifyOtp`, `resetPassword` | `PasswordReset`: `ForgotPassword`, `InvalidateAllFor`, `CreateOtp`, `SendOtp`, `TypeCode`, `FindMatchingOtp`, `ClaimOtp` |
| `AttemptLimiter` | `Require` and its `Limiters`, with `Points` in a window |
| `SessionService.refresh` | `BeginRenewal`, `FinishRenewal` |
| a call that fails, a process that dies | `Stop` |

Ending all sessions is one update of the tokens that are usable then. It misses a session
that was between its old token and its new one, and `FinishRenewal` brings it back: `missed`
remembers it. `Sessions` has the other calls of sign-outs and renewals one by one.
A tick is five minutes and no behaviour lasts a day. A typed code is compared
within the tick in which it was typed: `FewGuessesPerCode` rests on that.

### People

| code | specification |
|---|---|
| `JsonCache.remember`, `delete`, times to live | `CacheNext`: `Read`, `Lookup`, `Load`, `Store`, `ForgetKey`, `Forgotten`, `Expire` |
| `BlocksService` | `BlockRequests`: `Block`, `Unblock` |
| `FollowsService` | `FollowRequests`: `Follow`, `IsFollowing`, `RequireRoomToFollow`, `InsertFollow`, `Unfollow` |
| `UsersService`, `AvatarService` | `Profiles`: `UpdateProfile`, `VisibilityChanged`, `CreateUpload`, `Upload`, `UseUpload`, `UseGooglePhoto`, `RemoveAvatar`, `ReadPrevious`, `Replace`, `RemoveUploadedFile`, `EraseFiles` |
| `FirebaseLoginService.syncProfile` of the authentication service | `GoogleSignIn`, `SyncProfile`, which change the row and no copy |
| `ReportsService` | `Reporting`: `CreateReport`, `ReadOpenReport`, `Review` |

A copy is `late` when a reader that had loaded it before a change stored it, when Redis
missed its deletion, or when `SyncProfile` changed the profile it copies: nothing deletes
it until it expires. `clear` says of a request that follows that its check could see no
block, `crossed` holds the follows such a request stored.

### Chat

`Chat` extends `KeyBackup` (who has a PIN) and `Presence` (the other half of the
gateway).

| code | specification |
|---|---|
| `ChatService.sendMessage`, `ChatGateway` | `Sending`, with `CreateUpload`, `EraseFiles` beside it |
| `BlockChecker`, `BlocksService` of the user service | `SaysNotBlocked`, `SaysBlocked`, `BlockOrUnblock`, `ForgetBlocks` |
| `MessageActionsService` | `MessageActions`; `HourPasses` ends the time in which a message may be changed |
| `ConversationStateService`, `markAsRead` | `Conversations`, `MarkAsRead` |
| `ChatBackupService`, public keys, PIN checks | `KeyRequests`, `BackupRequests`, `LockEnds`, `ExpireKey`, `HasPin`, `RequireChatPin` |
| `handleConnection`, `handleDisconnect` | `Authenticate`, `Connect`, `CountOpen`, `TellOnline`; `Disconnect`, `CountClosed`, `MarkLastSeen`, `TellOffline` |
| sign-outs heard over Redis | `SignOut`, `HearSignOut` |
| `handleWatchPresence` | `WatchPresence`, `CountForWatcher`, `AnswerWatcher`, `UnwatchPresence` |

Sealing is abstract: a PIN opens a backup or does not. `unlock` is a transaction that
locks the row, and one step. What a device shows is what the events told it
since it opened the chat. `PairOf` says between whom an id of a message is used: the
sender's device draws a random one for each message, so no two conversations share
one. Everything else a device may do with an id it may do here: send it again, before
and after the message was stored, edited or deleted, in either direction.

Whether two people are blocked is asked of the user service, which answers from a cached
list of the sender's. `outOfDate` holds whose list may be of before a change: such a list may
say either, until `ForgetBlocks`, which nothing forces to come soon and which so stands for
the deletion of the key and for the expiry of a list that a reader stored after it. With
a deletion for everyone the app names a file, because only the app can read which one the
message carried; the service accepts any that the sender sent to that person, and
so does `DeleteMessage`. `POST backup` stores a sealed blob without a look at the published
key, so `Save` takes any key with either operation; `apart` remembers a backup that was
made so.

### Notification

| code | specification |
|---|---|
| `PushDevicesService`, `SessionSignOutListener` | `Devices` |
| `PromotionsService`, `PromotionSender`, and its start after a restart | `Promote` |
| pushes other services ask for: sign-in alerts, calls | `Notices` |

Firebase's answers are the three the code tells apart (`Outcomes`). `run` is one
sending of a promotion, on an instance, page by page. Of `updated_at` only the order is
kept: `newer` has, for each token, those that were updated after it.

### Market

`Market` puts together a listing (`Listings`, over the filter and cells of
`MapSearch`), its `Photos` and the `Alerts` it causes.

| code | specification |
|---|---|
| `PropertyLifecycleService`, `PropertyStatusService`, `PropertyPublicationService` | `Create`, `Update`, `Move`, `SetStatus`, `Write`, `BeginPublish`, `SettlePublish`, `GoLive`, `ReleasePending` |
| `ListingChanges` | `VisibilityChanged`, `ReadRow`, `Announce` |
| `PropertyEngagementService` | `VisibleOwnerId`, `Insert`, `TakeBack` |
| `PublicPropertyCache`, `JsonCache` | the readers `Miss`, `Load`, `Store`; versions are renewed by `Announce` |
| `FollowerAlerts` | `ClaimFollowers`, `TellFollowers` |
| `SavedSearchesService`, `SavedSearchMatcher` | `CountSearches`, `SaveSearch`, `SwitchAlerts`, `RemoveSearch`; `ReadListing`, `MatchingSearches`, `ClaimNew`, `PushMatches` |
| `SavedListingAlerts` | `ClaimDrop`, `TellSavers`, `DayPasses` |
| `PropertyImageService` | `Upload`, `ConfirmUploads`, `TryCreate`, `InsertRows`, `RemoveImages`, `DeleteRows`, `FindStillShown`, `DeleteFilesQuietly`, `FindOwnImages`, `FindShared`, `RemoveAllOwnedBy` |
| `PropertyThumbnailService` and its backfill | `Backfill`, `UpdateRows` |

Latitude and longitude are treated alike by the code, so one number stands for both.
One listing is enough, but for photos, where the file of an older one may be shown
by another user's listing too (`Shelves`). `asOf` remembers which searches had matched
when the listing was last announced, and forgets it as soon as the listing, a search or a
second announcement comes between: `AlertedAsOnMap` is about what nothing interfered with.

A request works out what it outdates from the row it read at first, and outdates it after it
wrote. Three variables remember why an answer may be stale for all that: `misread`, that
since it was last outdated a request wrote whose row had had another status or place when
it read it; `lost`, that Redis did not count up its version; `late`, that it is the
listing's page, which has no version, and a reader that was overtaken stored it.

### Search

`Search` puts side by side three things that do not meet: `SearchIndex`, `Nearby` and
`SearchHistory`. `astray` remembers what may have missed a change: the index in use
("live") and those being filled, when a write is refused, overtakes a later one or is
lost with its instance, and the cached answers ("answer"), when an instance stops before
it renews their version. A swap takes over what its index had missed. In `Nearby`, `late`
says that the page in the cache was read before it was last dropped, and `missed` that
places were saved for a listing that was hidden when its status was read and public when
they were written: `save` holds an advisory lock, which no change of the listing takes.

| code | specification |
|---|---|
| `SearchIndexSync.listingChanged` | `ChangeListing`, `ChangeVisibility`, `SyncStep`, `WriteFails` |
| `SearchReindexSchedule`, `reindex` | `RebuildStep`, `RebuildFails`, `Restart` |
| `TextSearchService` | `FindListings`, `ReadFound`, `StoreFound` |
| `PropertyLifecycleService.update`, `updatePin`, `updateBoundary` | `BeginEdit`, `LocationChanged`, `KeywordsChanged`, `RefreshPublicView` |
| `PropertyLifecycleService.setStatus` | `StatusChanged`, `StatusRefreshed` |
| `PropertyNearbyService.refresh`, `save` | `CurrentTarget`, `FindNearest`, `ReadCurrent`, `Save`, `DetailChanged`, `LookupLost` |
| `PropertyQueryService.findPublic`, `JsonCache.remember` | `LookUpPage`, `LoadPage`, `StorePage`, `DropPage` |
| `SearchHistoryService` | `Upsert`, `FindBeyondKept`, `ForgetOld`, `Remove` |

## 3. Runs

Passing runs:

| run | what it shows | bounds |
|---|---|---|
| `sessions` | one usable token, exchanged once, cut sessions stay out, implements `SessionChain` | 1 user, 2 sessions, 4 tokens of which one is from before sessions existed, 2 requests, clock to 1, access tokens that live 1 |
| `calls` | one call per person, ended once, nobody left busy, ringing has a timer, implements `CallLines` | Ann calls Bob and Cat, 2 phones, 2 handlers, the second call's invite sent again |
| `calls_live` | nobody is busy for ever | 1 call, 2 phones, 2 handlers, crashes, fairness |
| `publishing` | one webhook settles, paid alone is published | 2 payments, 2 webhooks, 1 owner's request, every failure |
| `accounts` | types; a code resets once and is guessed a few times; an old password is out; leaving is complete | 3 requests, 2 sessions, 2 codes, 3 ticks of which a code lives 2, 10 mixes |
| `people` | types; cached copies are current but for late ones, a block ends follows and is seen by who checks after it, a picture is there | 2 people, 2 pictures, 2 names, 3 requests, 2 reports, at most 1 followed, 2 pictures of Google's, 9 mixes |
| `chat` | types; messages are pushed once, not across a block, with their file; devices show what is stored; few tries; keys and backup belong together; presence and sign-outs | 2 people, 2 pairs of keys, 2 PINs, 3 requests about keys of which 2 are more than a guess (1 request beside messages), 3 about messages, 2 messages, texts changed twice, 2 tries a round, 3 wrong PINs in a row, 2 connections and 1 watcher, 12 mixes |
| `notification` | types; a signed-out device is forgotten, a promotion reaches its audience once, pushes reach the newest device and a call stops ringing | 2 accounts with a session each, 3 tokens, 4 ids, 1 promotion, 2 instances, 3 requests, at most 2 devices, pages of 1, 8 mixes |
| `market` | types; cached answers, announcements, alerts, photos, and that each write leaves the listing consistent | 1 listing, 3 requests, 1 reader, 3 people, 2 searches, 3 files of which one is shared, 3 places, 24 mixes |
| `search` | the index follows or ends up right, places nearby are of here and on the page, the newest searches are kept | 2 listings, 2 instances, 2 changes, 1 failure, 2 lookups at 2 places, 1 reader of the page, 3 texts, 2 records, 5 moments, 11 mixes |

Some invariants are conjunctions of parts that go together:

| property | its parts |
|---|---|
| `CodesHold` | `OneResetPerCode`, `FewGuessesPerCode` |
| `LeavingIsComplete` | `HiddenIsSignedOut`, `NoFilesOfNobody` |
| `SentAsMeant` | `PushedOnce`, `NoMessageAcrossBlock`, `FileIsThere` |
| `SeenIsStored` | `ShownIsStored`, `UnreadIsListed` |
| `KeysBelongTogether` | `KeyIsBackedUp`, `CachedKeyIsCurrent`, `CachedPinIsThere` |
| `ConnectionsAreKnown` | `CutOff`, `PresenceIsRight` |
| `PromotionReachesAll` | `PromotionOnce`, `AudienceIsReached`, `CountsAddUp` |
| `PushesReach` | `NewestIsReachable`, `OthersAreWarned`, `RingingStops` |
| `OnTheMapIsHeard` | `OnTheMapIsAnnounced`, `FollowersHear`, `AlertedAsOnMap` |
| `NoAlertTwice` | `FollowersToldOnce`, `EachSearchOnce`, `OneDropADay`, `OwnerIsNeverTold` |
| `PhotosAreSound` | `PhotoHasFile`, `PhotosFit` |
| `ListingStaysSound` (of steps) | `RowIsConsistent`, `DateStands` |
| `SearchIsInStep` | `IndexFollows`, `NothingIsLeft`, `FoundIsPublished` |
| `NearbyIsRight` | `NearbyIsOfHere`, `PageShowsNearby` |
| `HistoryIsRight` | `FewAreKept`, `NewestAreThere` |

Why the bounds are enough. Every race in this code is between a step of one request
and the gap between two awaits of another, so two requests find it; a third request
is there where one has to restore what the first two raced for, or to be the second
sign-in, save or confirmation beside a change. Four tokens are a sign-in and
renewals in two sessions, one of them from before sessions. The clock of `sessions`
passes the life of an access token once, that of `accounts` the life of a code and the
window of a limit. A limit is always smaller than the number of requests that
could pass it: 1 followed, 2 devices of 3 tokens, 2 photos of 3 files, 2 tries of
3, 2 entries of 3 texts. Pages of one row make a promotion read its audience in as
many steps as there are devices. The maps of `market` are a small one within one cell
and a wide one that spans more cells than a map is split into. Two listings are what
it takes for a rebuild to have read one and not yet the other.

Runs that end in a counterexample, each for a sentence of the repository:

| run | sentence | what happens |
|---|---|---|
| `publishing_twice` | "a paid listing is never left unpublished behind a transaction that looks settled" (`payment-webhook.service.ts:85`) | of two checkouts of one listing, the one that fails gives back what the other has paid for |
| `search_two` | "Every instance does this; a rebuild is complete by itself, so two at once only cost time" (`search-reindex.schedule.ts:24`) | a change that another instance handles during a rebuild is lost in the swap |

More of the same kind is stated in the modules, refuted by TLC too, and has no run of
its own, to keep the runs few. To see one, put it in the place of the properties in
the configuration named.

| property | in place of the ones in | sentence or expectation | what happens |
|---|---|---|---|
| `EverySessionSignedOut` | `SessionPromises.cfg` | "Signs every device out" | a session between its old token and its new one survives |
| `LoggedOutDeviceNeverRenews` | the same | a logout is final | a renewal past its revoke stores a new token after the logout |
| `ToldSignedOutIsSignedOut` | the same | "this device was signed out" | a replay is told so while its session is renewed |
| `OverSessionIsOnlyRefused` | the same, as a PROPERTY | a session that is over is refused | a refresh that lost its revoke to a sign-out ends every session |
| `OneDeviceAnswers` | `MCCallPromises.cfg` | "null when the call is no longer theirs to answer" | two phones are told that they have the call |
| `MissedMeansUnanswered` | the same | "missed and cancelled mean the callee never answered" | a call answered in the gap is ended as missed |
| `PhonesRingForACall` | the same | | phones are told of a call that was ended before |
| `HistoryKeepsCalls` | the same, as a PROPERTY | | a late answer turns an ended row active |
| `DroppedConnectionEndsCall` | the same | | the answering connection closes before it is bound |
| `PaidGoesLive` | `MCPublishingTwice.cfg` with `FairSpec`, 1 checkout, 2 webhooks, `Failures = {"call"}` and module `Publishing`, as a PROPERTY | "so the provider sends it again" | a second webhook is answered 200 on a switch undone later |
| `PaidIsPublished` | `MCPublishing.cfg` with one checkout and no owner | the sentence of `publishing_twice` | the process dies between the switch and the call |
| `LiveIsDated` | `MCPublishing.cfg` | | a listing changes between the two updates of `goLive` |
| `FailedDeletionShowsAgain` | `Accounts.cfg` | "No row is deleted yet: show the account again so its owner can retry" | of two deletions that fail, the second puts back the date the first had set |
| `EveryOldPasswordIsOut` | `Accounts.cfg` | "Every other device is signed out: whoever else knew the old password is gone" (`account.service.ts:43`) | a device whose session is being renewed when the sessions are ended stores its new token after it |
| `NoFollowWhileBlocked` | `People.cfg` | "Two people where either has blocked the other cannot follow each other" (`follows.service.ts:41`), "the two stop following each other and can no longer follow, message or call each other" (`blocks.service.ts:39`) | a follow was answered before the block, or from cached ids the block has yet to delete, and is stored after the block removed the follows |
| `CopyIsFresh` | `People.cfg` | | a reader that loaded before a change stores its copy after it; a sign-in with Google deletes no copy ("cannot clear it", `users.service.ts:69`) |
| `NoMessageWhileBlocked` | `Chat.cfg`, as a PROPERTY | "the two ... can no longer follow, message or call each other" (`blocks.service.ts:39`) | the answer was given before the block, from a list of before it, or not at all |
| `OwnFileOnly` | the same, as a PROPERTY | "a deleted message only takes its own file along" (`chat-attachment.service.ts:123`) | the app names the file of another message of the pair |
| `BackupIsOfTheKey` | `Chat.cfg` | | a backup of another key is saved by itself; a key is published that was checked before the backup was there |
| `OnlyReplacedIsRemoved` | `People.cfg` | "The picture that was just replaced is of no use to anyone" | one upload is confirmed twice and the second removes the file in use |
| `PageIsFresh` | `Market.cfg` | "The next reader gets fresh data instead of waiting for the expiry" (`public-property-cache.service.ts:168`) | a reader that loaded before a change stores its page after it |
| `SeenIsOutdated` | `Market.cfg` | "Drops the cached public copies when the public could see this listing before or can see it now" (`property-lifecycle.service.ts:202`) | an edit read a draft that is published by the time it is written, or of two moves at once the later one does not outdate where the earlier had put it |
| `LateReaderShowsNearby` | `Search.cfg` | "the next reader gets fresh data" (`public-property-cache.service.ts:168`) | a reader that loaded the page before places were saved stores it after the page was dropped |
| `PublishedShowsNearby` | `Search.cfg` | | a listing is published and viewed between the read of its status and the write of its places, and the page stays |
| `OnePushPerPerson` | `Market.cfg` | "Each person gets one push per listing however many of their searches match" | the second search matches, or is claimed, at a later announcement |
| `StopsAtOnce` | `Chat.cfg` | "A device that is signed out stops receiving messages at once" | a device past the check of its session connects after the sign-out was heard |
| `ReplyBringsNothingBack` | `Chat.cfg` | "A reply never brings back what they removed" | the event of a reply carries what it quotes, also to the person who removed that meanwhile |
| `OfflineOnceLastHasGone` | `Chat.cfg` | "The user is offline once their last device has disconnected" | two handlers tell the watchers in the other order than they counted |

What holds is worth reading beside these. `AtMostOneUsableToken`, `ExchangedOnce`
and `ImplementsChain` hold in all these races: a session that survives a sign-out
is the same session, renewed by the one request that had it. `CutSessionsStayOut`
says what a sign-out does keep: a session whose usable token it revoked is out for
good. `PaidAloneIsPublished` holds as long as the owner does not touch the listing and no
switch is left half-way, however often webhooks repeat and calls break.
`OldPasswordIsOut` and `HiddenIsSignedOut` hold but for a sign-in that had read the row
before and a session that was being renewed when the sessions were ended.

Each property of a passing run has a mutant: an operator named "A fault" beside the
definition it changes, with which the property fails.

### Fairness

Safety runs assume none. `Calls!FairSpec`: a handler that has begun goes on, as the
event loop has it; a timer that is set goes off; a key with a time to live runs
out. The last two are strong, because time waits for nothing while in the model a
timer needs a free handler and an expiry an unattended call.
`Publishing!FairSpec`: a webhook in service and a call it made go on, the provider
sends again until it is answered, and calls do not break off for ever.
`SearchIndex!IndexFairness`: writes to the engine are carried out, and each instance
that runs rebuilds every night, whatever became of the night before
(`SearchReindexSchedule`); `EndsUpRight` is claimed where rebuilds are part of the mix.

## 4. Proofs

Eight modules hold theorems. Each theorem is for any size of the sets the module is
given, where the run has two or three of each.

`SessionsProofs` proves, for any sets of users, sessions, tokens and requests, any
clock and a Redis that fails or not:

- `TypeInvariant`: `TypeOK`, with `Presents`: what a request needs in hand at each
  step (the token it presented, a user, the session it ends) it has.
- `OneUsableToken`: `AtMostOneUsableToken`. It is not inductive: that a renewal
  adds a token to a session with none needs that the renewing request is the only
  one for its session and that the session has no usable token meanwhile. The
  invariant proved says of every session that its usable tokens and its
  pending renewals are together at most one.
- `TokenExchangedOnce`: `ExchangedOnce`, from the same argument one token at a time: a
  token is active, or being renewed by one request, or replaced, never two of
  these.
- `SessionsImplementChain`: `ImplementsChain`, step by step: each action maps to a
  step of `SessionChain` or to none.
- `SignedOutStaysOut`: `CutSessionsStayOut`. Three facts carry it: `StaysOver` (a
  session that was cut off is over, with no usable token and no renewal under way, and
  so is one that a sign-out is about to cut off), `Dated` (no access token lives longer
  than one signed now) and `Listed` (a session that was cut off stays on the list for as
  long as any of its access tokens lives, unless Redis may fail).

`CallsAndPushesProofs` proves of `Calls`, for any people, devices, calls and handlers, with invites
sent again or not and instances dying or not:

- `TypeInvariant`: `TypeOK`, and that a handler under way has a call.
- `OneCallEach`: `OneCallPerPerson`. The invariant behind it, `Claimed`, says who
  owns a busy key: the call while it lives, and before and after that one handler,
  from its `SET NX` to the store and from the deletion of the call to the release.
  Whoever owns the key finds the call's id in it. With `Apart` (nobody calls
  themself) no two live calls can share a person. It is what the `XX` of an answer,
  the delete-if-equal of a release and the one time to live of all keys are for:
  `Occupied` is the assumption that a handler is through with a key before the key
  expires.
- `CallEndsOnce`: `EndedOnce`, from `OneLife`: the one life of a call id is with its invite,
  in the key of the call, with the handler that deleted it, or over.
- `NobodyStaysBusy`: `NobodyLeftBusy`, from `Owned`: while no instance dies, a busy key is
  that of a person in a live call, or some handler will give it back or store the call.
- `RingingIsTimed`: `RingingHasTimer`, from `Timed`: a call that rings has a timer, or a
  handler that is about to set it or to end the call.
- `CallsImplementLines`: `ImplementsLines`, step by step. `StoreCall` rings: by `Claimed` both busy
  keys are the invite's, so the call is not there and no live call has either person;
  `BindAnswer` answers, or does nothing where the call is active or gone; `FinishCall` and
  `Expire` end; no other action touches a call.

It proves of `Notification`, for any accounts, sessions, tokens, promotions, instances,
runs and requests, any limit of devices and any page size:

- `PushTypeInvariant`: `PushTypeOK`, with `PushTyped`: an id that was given is not given
  again, a request forgets ids that were given and takes only the steps of its kind, a
  run is of a promotion there is, and `newer` orders the devices.
- `SignedOutForgotten`: `SignedOutIsForgotten`, which is inductive with the types: every step
  that puts a device under a session marks it `late` if the session is over, and hearing of
  a sign-out removes all of them or marks it `missed`.
- `PromotionsReachAll`: `PromotionReachesAll`, from `PromotionInv`. Whom a promotion was begun for,
  less those that left, would be sent it now (`AudienceIsAllowed`); one run at most sends a
  promotion, since a claim needs it queued and a crash leaves it claimed; `PageByPage` says
  that those sent are at or before the cursor, that whoever of the audience is there was
  sent or is of the page in hand, and that nobody is behind a short page; `Counts`
  compares what the run adds up with how many were sent. The lemmas behind it are
  about pages: the first of a finite set of ids are all of it if they are fewer than a
  page, and leave nobody out before their last (`PageIsFirst`, `LastId`), and what Firebase says of
  a page adds up to it (`PageAddsUp`).
- `PushesReachDevices`: `PushesReach`, from three invariants. `LatestIsKept`: what an account registered
  last has no newer device of the account, so it is not beyond the limit, and is of no
  request that is about to forget. `Warning`: those who need not be told of a sign-in and the targets
  read are all tokens. `OneCall`: a call that is over has one push that says so, and a phone
  that is not `apart` got the push to ring before.

`PublishingProofs` proves, for any payments, webhooks and owner's requests and any
failures:

- `TypeInvariant`: `TypeOK` with `Remembered`: a checkout under way knows the status it
  read and nothing is paid for it, a webhook under way has a payment that ended.
- `OneSwitch`: `OneWebhookSettles`, which `Remembered` makes inductive: no payment can
  end, and no transaction be recorded, under a webhook that settles it.
- `PaidGoesPublic`: `PaidAloneIsPublished`. The invariant, `PaidAlone`, follows a payment that
  nothing came between through the saga: from the moment its checkout parked the listing
  the listing waits (`Waits`), until it was live a webhook answers for the transaction
  (`HasSettler`), and a call that was answered has made it live (`AnsweredIsShown`).

`AccountsProofs` proves, for any requests, sessions, codes, limits and clock:

- `TypeInvariant`: `TypeOK` with `Shape`: a request only takes the steps of its operation,
  with what they need in hand.
- `OldPasswordsAreOut`: `OldPasswordIsOut`, and `LeavingCompletes`: `LeavingIsComplete`. Both
  rest on `Safe`, whose part `Carries` says what a request may rely on between what it
  read and what it writes: a sign-in that is not late carries the row as it is, a change
  of password spares its own session, a deletion goes on only without files. A renewal keeps
  who is signed in, and ending the sessions marks those it finds half-way (`RenewalSafe`).
- `CodesResetOnce`: `OneResetPerCode`, from `Claimed`: a code that was claimed stays used
  and has one request that may set a password with it.
- `CodesAreHeld`: `CodesHold`, that is also `FewGuessesPerCode`. The invariant, `Counted`,
  sets the guesses at a code against the counter of the limiter: a code younger than the
  running window was compared in this window alone, an older one in one window before it
  as well, and a request about to compare was counted in the running one. It needs
  `CodeEndsWithinAWindow`: a code lives no longer than a window (10 and 15 minutes).

`ChatProofs` proves, for any people, devices, keys, PINs, connections, watchers, messages and
requests, and any limit:

- `GuessesAreFew`: `FewTriesPerRound`. Wrong PINs are counted under the lock of the row, and the
  count since the backup was last opened differs from the count since the last wait by
  whole rounds, so a wait begins whenever a round is full.
- `KeysStayTogether`: `KeysBelongTogether`, from `KeyInv`. Nobody publishes a key over one that
  has a backup, and `AskInv` says what a request has in hand at each step: that there was no
  such key when it is about to publish, and the key it read when it is about to fill the
  cache.
- `ConnectionsStayKnown`: `ConnectionsAreKnown`, from `ConnectionInv`. As long as no two handlers
  crossed one at most is at work (`OneAtATime`), and what the watchers were told last is
  right but for what that one has still to tell (`OpeningInv`, `ClosingInv`, `WatchingInv`,
  `RestInv`); a socket that passed the check although its session was signed out is one that
  Redis missed or that had passed before (`PassedInv`).
- `TypeInvariant`: `TypeOK`, with `RepliesQuote`, from `ChatInv`. A reply goes on quoting what is
  there because every deletion clears the quotes of what it deletes, and an insert
  that quotes nothing there fails. `MessageInv` says of a message who it is between and that its
  file is the one its sender uploaded for it, `RequestInv` says of a request what it knows
  at each step: who the two are, that the answer on blocks was right or excused (`clear`), whether
  it stored the message anew.
- `MessagesAreSentAsMeant`: `SentAsMeant`, from three invariants beside `ChatInv`. `PushInv`: the pushes
  made and those still owed by requests that stored a message are no more than the times
  it was stored. `FileInv`: whoever is about to remove a file or a folder removed the
  messages first, so a message that is there and has a file is in nobody's way, unless it was
  stored meanwhile or its file is named with another message; the file a deletion names is
  of the pair (`NamedFile`). `NoMessageAcrossBlock` is inductive beside `RequestInv`.
- `ScreensShowWhatIsStored`: `SeenIsStored`. By `ShowInv`, what a device shows is stored and not
  removed, up to its text (`Rewords`: a request changed it and is still to tell), or a request
  is still to wipe it from the device (`Wipes`), or its last event was about an older
  state. That each unread message is in a listed conversation needs only that among the messages
  left one is the newest (`NewestOf`).

`PeopleProofs` proves, for any people, pictures, requests and limits:

- `TypeInvariant`: `TypeOK`, from `Requested`, which says what a request holds at each step.
- `BlocksEndFollows`: `NoFollowAcrossBlock`. A block removes the follows of both directions,
  so a follow across one was stored afterwards: `Knows` says that a request on its way to
  the insert had an answer in which no block was to be seen, which `CachedIsCurrent` is
  needed for, and `FollowsAreCrossed` keeps that of the rows it wrote.
- `CopiesAreCurrent`: `CachedIsCurrent`: a copy that is not `late` says what the rows say or
  some request has yet to delete its key.
- `PicturesAreThere`: `PictureIsThere`, with `PicturesAreHeld`: a picture that one request is
  about to set is worn by nobody and replaced by nobody, one that was replaced is worn by
  nobody, unless it was asked for twice.

`SearchProofs` proves, for any listings, instances, lookups, texts and mixes:

- `TypeInvariant`: `TypeOK`.
- `IndexIsInStep`: `SearchIsInStep`, from `IndexInv`. What the index says of a listing is
  right, or a change is still to be read, or a rebuild will apply it again, or the last
  write read is right and what is stale was overtaken (`LiveFollows`); an index being
  filled is right in what it holds already, but for what is noted (`TempFollows`), which is
  what makes the swap safe; nothing was read later than now, and who rebuilds has an index
  to fill (`IndexSound`); a cached answer holds nothing unpublished (`Answered`). It does not
  hold for a change that was lost, overtaken or made on another instance during a rebuild.
- `NearbyIsOfThisPlace`: `NearbyIsRight`: while what is stored is not of here, a lookup has
  read where here is, or has it still to read, and if the listing moved under one that
  writes, that is another one (`MovedIsLooking`, which needs the lock, `OneSaves`). A page,
  or a reader's copy, that shows something else than what is stored is about to be dropped
  or was overtaken, and of a hidden listing there is none (`PageInv`).
- `NewestAreKept`: `HistoryIsRight`: what is beyond the limit and not yet forgotten is in
  the hands of a request, and for each text about to be forgotten enough were searched later.

`MarketProofs` proves, for any requests, readers, people, searches, files, maps, places
and limits:

- `TypeInvariant`: `TypeOK`.
- `ListingIsSound`: `ListingStaysSound`. `RowInv` says of each request what it may write:
  what was worked out from a row that nobody changed since fits the row still (`IsFresh`),
  and the lemmas on `Over` carry it through each of the rules for price, type and date.
- `AnswersAreCurrent`: `CachedIsCurrent`, from `CacheInv`: an answer that says something
  else than the row, cached or in a reader's hands, is about to be outdated by a request
  whose statuses and cells concern it. That fails for a request that wrote after it had read
  another status or place (`misread`), when Redis failed and for a late page, which the
  property names. The lemmas behind it are about maps: whoever is in the box of a map, or was,
  is in one of the cells its answer depends on.
- `WaitersHear`: `OnTheMapIsHeard`, from three invariants. `OwedInv`: what came on the map and
  was not announced has a request that will. `FollowersInv`: followers not told of a
  listing on the map have an announcement on its way; once a listener claimed to tell them it does.
  `MatchInv`: an announcement that meets no other has one listener, whose row and hits are
  those of the listing as it is. `MatchesAsShown` is the lemma on which that rests: the
  filter of saved searches in SQL and the filter of the map agree on every listing and
  every search.
- `AlertsComeOnce`: `NoAlertTwice`, from `AlertInv`: one event at most goes on to followers
  who were not told, pushes under way are of different searches, and those sent are no more
  than the searches matched and not under way.
- `PhotosStaySound`: `PhotosAreSound`, from `PhotoInv`, which says for each operation on a file
  what it found and may rely on, unless another met it: what is confirmed is stored, what is
  taken off is not shown nor confirmed, a thumbnail goes with its file.

Each of these invariants was checked by TLC first, on the instance of the run. Trying to
prove them corrected the models where a property had held for want of a case; what they
remember of interference (`astray`, `asOf`, `lookupLost`, `again`) is now set by every step
that causes it.

The assumptions are those on the constants, named in the modules: `NoneIsNull`,
`SessionsAssumption`, `CallsAssumption`, `PublishingAssumption`, `AccountsAssumption`,
`CodeEndsWithinAWindow`, `NoneIsNoRequest`, `PeopleAssumption`, `KeyBackupAssumption`,
`ChatAssumption`, `PresenceAssumption`, `MapSearchAssumption`, `ListingsAssumption`,
`PhotosAssumption`, `AlertsAssumption`, `IndexAssumption`, `NearbyAssumption`,
`HistoryAssumption`, `NotificationAssumption`, `NoRecordIsNone`. They say that limits are numbers, that calls have
people, that what is there at first is well formed, that nobody follows themself, that
a cell is a whole number of steps of the grid, that a code ends within a window, that an id
of a message is used between two people, that there are finitely many connections and ids of rows, and that
"nothing" is none of the values it stands beside.

Model-checked only: the liveness properties `NobodyBusyForEver` and `EndsUpRight`, which are
beyond the prover. Every other property of a run that passes has its theorem.

## 5. What the checks leave open

Seen while modelling, reached by the models, and excused by name in a property
(by a variable that only remembers) or left out of it. Some of them a sentence of the
repository denies, and section 3 quotes it beside the property that is refuted: a session
that is being renewed when all are ended (`account.service.ts:43`), a follow or a message across
a block (`follows.service.ts:41`, `blocks.service.ts:39`), the name and photo of a Google
account in a cached profile (`users.service.ts:69`), a file that is named with another message
(`chat-attachment.service.ts:123`), a late reader of a listing's page or a stale answer after
an edit ("The next reader gets fresh data", `public-property-cache.service.ts:166`,
`property-lifecycle.service.ts:201`). The others are races and failures that no sentence mentions.

- Accounts: two requests for a code interleave their invalidation and their insert and
  leave two usable codes; a code is stored after the account was deleted; a sign-in
  that read the row before a deactivation stores a session on a hidden account, and so does
  a renewal that had revoked its old token by then;
  creating a password does not look whether there is one by now, nor end sessions.
- Calls: see `Retried` above.
- Chat: a reply to a message that is deleted between check and insert fails on its
  foreign key (`chat.service.ts:244`); a send that is retried after a deletion for everyone
  stores the message again; a message sent between the transaction of a deletion and
  the removal of its folder loses its file; events of an edit and a deletion overtake each
  other; two first connections at once are both counted as second, and nobody is told;
  two devices that save a first backup at once replace each other's without a PIN; a
  public key that was checked before a backup is stored is published after it; a backup is
  saved of another key than the published one; a backup from before PINs is replaced
  without one; a message is stored across a block, as the block came after the question, the
  user service was out of reach, or its cached list was of before the block; a file is
  removed with a message it did not come with.
- Notification: forgetting a device by its id deletes it although it was registered again
  meanwhile; a promotion stays "sending" after a crash; a queued one whose claim fails
  stays queued until a restart; a registration that races the sign-out of its session
  keeps its token; pushes of one call overtake each other.
- Market: two confirmations at once insert one file twice and exceed the limit
  (`property-image.service.ts:41`); a file is confirmed that was not stored, or while it is
  taken off; two moves at once, or an edit or a photo of what was read as a draft and is
  published meanwhile, leave a stale cached answer (`SeenIsOutdated`), and so does a reader of
  the page that was overtaken (`PageIsFresh`); two relists both date the listing; one that comes on the map while its
  owner is hidden is never announced; a payment settles without a place; a saved search
  removed between match and claim breaks the claim of all; two creates exceed the limit
  of saved searches; a claim comes before the followers are asked, so a failure
  loses the alert; two sales at once tell the savers twice.
- Search: the replay after a rebuild stops at its first failure and drops the rest; the
  version of cached answers is renewed before the engine has written; two changes that
  cross leave a stale document until the next rebuild; a crash leaves a temporary index
  until the next rebuild; a text searched again while it is being forgotten is forgotten
  (`search-history.service.ts:72`); an edit of the tags that read before another does not
  look up again (`property-lifecycle.service.ts:95`); a failed lookup leaves what an
  earlier one found, and nothing tries again; a page that was read before it was dropped is
  cached, and one that was cached while places were saved for a hidden listing stays
  (`property-nearby.service.ts:215`).

What could come next: runs in which the sessions of `Accounts` are those of `Sessions`.

## 6. Not modelled

Left out because they keep no state, or none that an operation can spoil: mail
(only whether it arrives), the HTTP of Firebase, Google, Supabase and the map provider,
wording and localisation, validation, the gateway and its rate limits, TURN
credentials, scripts and deployment.

Left out of modelled components: the list of devices and locations of sessions; the
signals of calls; the cursors of conversations, and paging and ordering of the feed,
which only read; the price histogram; road distances, routes and the cache of
place suggestions; the preference that gates a chat push; the lag of a read
replica; when cached values of listings run out; rate limits of the user service; the ranking
of the search engine; a rebuild that uses an account deleted meanwhile as its cursor,
and two rebuilds that start in the same millisecond and take the same temporary name
(`meilisearch.engine.ts:99`).

What a list of messages, a map or a search shows is modelled as the set of what is
in it. Bounds on counters are named "bound" where the constants are declared.
